----------------------- MODULE DescriptorCensusProofs -----------------------
(***************************************************************************)
(* Proof that no two threads write the same slot of the census, nor the    *)
(* same first payload, and that what the census reports adds up, for any   *)
(* number of threads, descriptors and slots.                               *)
(***************************************************************************)
EXTENDS DescriptorCensus, FiniteSetTheorems, TLAPS

\* A thread in a callback knows its slot, and a pending call its sample.
Known ==
  \A t \in Threads :
    /\ pc[t] \in {"scan", "claim", "fill", "publish", "update", "snapshot", "attempt",
                  "spoiled"} =>
         slot[t] \in Slots
    /\ pending[t].active => pending[t].sample \in Slots
    /\ pc[t] \in {"payload", "store", "resolve"} => ending[t].sample \in Slots

Fills(t, s) == slot[t] = s /\ pc[t] \in {"fill", "publish"}
Stores(t, s) == ending[t].sample = s /\ pc[t] = "store"

\* The key of a slot, and the state of its payload, are Claimed and Writing for
\* exactly one thread, and the one that took them gives them back.
KeyOwned ==
  /\ \A t, u \in Threads, s \in Slots : Fills(t, s) /\ Fills(u, s) => t = u
  /\ \A s \in Slots : key[s] = Claimed <=> \E t \in Threads : Fills(t, s)

PayloadOwned ==
  /\ \A t, u \in Threads, s \in Slots : Stores(t, s) /\ Stores(u, s) => t = u
  /\ \A s \in Slots : payloadState[s] = Writing <=> \E t \in Threads : Stores(t, s)

CensusInv == TypeOK /\ Known /\ KeyOwned /\ PayloadOwned

LEMMA InitialCensus == Init => CensusInv
<1> SUFFICES ASSUME Init PROVE CensusInv
  OBVIOUS
<1> USE CensusAssumption DEF Init
<1>1. TypeOK
  <2>1. Inactive \in Pendings
    BY DEF Inactive, Pendings
  <2>2. 0 \in 0 .. MaxNesting /\ 0 \in Nat
    OBVIOUS
  <2>3. key \in [Slots -> Descriptors \cup {Free, Claimed}]
    OBVIOUS
  <2>4. /\ snapshotState \in [Slots -> {Unclaimed, Writing, Complete, Failed}]
        /\ payloadState \in [Slots -> {Unclaimed, Writing, Complete}]
    OBVIOUS
  <2>5. QED
    BY <2>1, <2>2, <2>3, <2>4 DEF TypeOK, Labels
<1>2. Known
  BY DEF Known, Inactive
<1>3. KeyOwned /\ PayloadOwned
  <2>1. \A t \in Threads : pc[t] = "game"
    OBVIOUS
  <2>2. \A s \in Slots : key[s] # Claimed /\ payloadState[s] # Writing
    BY DEF Free, Claimed, Unclaimed, Writing
  <2>3. QED
    BY <2>1, <2>2, Zenon DEF KeyOwned, PayloadOwned, Fills, Stores
<1>4. QED
  BY <1>1, <1>2, <1>3 DEF CensusInv

LEMMA CountKeepsType ==
  ASSUME total \in [Counters -> Nat], NEW counters, Count(counters)
  PROVE  total' \in [Counters -> Nat]
BY DEF Count

\* NextSlot leaves a thread that is not writing in such a place again.
LEMMA NextSlotKeepsType ==
  ASSUME TypeOK, NEW t \in Threads, slot[t] \in Slots, NextSlot(t)
  PROVE  /\ slot' \in [Threads -> Slots \cup {0}] /\ pc' \in [Threads -> Labels]
         /\ total' \in [Counters -> Nat]
         /\ \A u \in Threads : u # t => slot'[u] = slot[u] /\ pc'[u] = pc[u]
         /\ pc'[t] \in {"scan", "game"} /\ (pc'[t] = "scan" => slot'[t] \in Slots)
<1> USE DEF TypeOK, Labels, Goto
<1>1. CASE slot[t] < Capacity
  <2>1. slot[t] + 1 \in Slots
    BY <1>1, CensusAssumption DEF Slots
  <2>2. /\ slot' = [slot EXCEPT ![t] = slot[t] + 1]
        /\ pc' = [pc EXCEPT ![t] = "scan"] /\ total' = total
    BY <1>1 DEF NextSlot
  <2>3. QED
    BY <2>1, <2>2
<1>2. CASE ~(slot[t] < Capacity)
  BY <1>2, CountKeepsType DEF NextSlot
<1>3. QED
  BY <1>1, <1>2

LEMMA ScanKeepsCensus ==
  ASSUME CensusInv, NEW t \in Threads, Scan(t)
  PROVE  CensusInv'
<1> USE DEF CensusInv
<1>1. /\ pc[t] = "scan" /\ slot[t] \in Slots
      /\ UNCHANGED <<table, wanted, pending, ending, open>>
  BY DEF Scan, Known
<1>2. /\ slot' \in [Threads -> Slots \cup {0}] /\ pc' \in [Threads -> Labels]
      /\ total' \in [Counters -> Nat]
      /\ \A u \in Threads : u # t => slot'[u] = slot[u] /\ pc'[u] = pc[u]
      /\ pc'[t] \in {"update", "claim", "scan", "game"}
      /\ pc'[t] # "game" => slot'[t] \in Slots
  <2>1. CASE NextSlot(t)
    BY <1>1, <2>1, NextSlotKeepsType
  <2>2. CASE (Goto(t, "update") \/ Goto(t, "claim")) /\ UNCHANGED <<slot, total>>
    BY <1>1, <2>2 DEF Goto, TypeOK, Labels
  <2>3. QED
    BY <2>1, <2>2 DEF Scan
<1>3. TypeOK'
  BY <1>1, <1>2 DEF TypeOK, table
<1>4. Known'
  BY <1>1, <1>2 DEF Known
<1>5. KeyOwned' /\ PayloadOwned'
  BY <1>1, <1>2 DEF KeyOwned, PayloadOwned, Fills, Stores, table
<1>6. QED
  BY <1>3, <1>4, <1>5

\* The compare-and-exchange is what makes a slot's writer the only one.
LEMMA ClaimKeepsCensus ==
  ASSUME CensusInv, NEW t \in Threads, Claim(t)
  PROVE  CensusInv'
<1> USE DEF CensusInv
<1>1. /\ pc[t] = "claim" /\ slot[t] \in Slots
      /\ UNCHANGED <<calls, snapshotState, payloadState, wanted, pending, ending, open>>
  BY DEF Claim, Known
<1>2. CASE key[slot[t]] = Free
  <2>1. /\ key' = [key EXCEPT ![slot[t]] = Claimed] /\ UNCHANGED <<slot, total>>
        /\ pc' = [pc EXCEPT ![t] = "fill"]
    BY <1>2 DEF Claim, Goto
  <2>2. TypeOK'
    BY <1>1, <2>1 DEF TypeOK, Labels
  <2>3. Known' /\ PayloadOwned'
    BY <1>1, <2>1 DEF Known, PayloadOwned, Stores, TypeOK
  <2>4. \A u \in Threads : ~Fills(u, slot[t])
    BY <1>1, <1>2 DEF KeyOwned, Free, Claimed
  <2>5. KeyOwned'
    BY <1>1, <2>1, <2>4 DEF KeyOwned, Fills, TypeOK
  <2>6. QED
    BY <2>2, <2>3, <2>5
<1>3. CASE key[slot[t]] # Free
  <2>1. NextSlot(t) /\ UNCHANGED key
    BY <1>3 DEF Claim
  <2>2. /\ slot' \in [Threads -> Slots \cup {0}] /\ pc' \in [Threads -> Labels]
        /\ total' \in [Counters -> Nat]
        /\ \A u \in Threads : u # t => slot'[u] = slot[u] /\ pc'[u] = pc[u]
        /\ pc'[t] \in {"scan", "game"} /\ (pc'[t] = "scan" => slot'[t] \in Slots)
    BY <1>1, <2>1, NextSlotKeepsType
  <2>3. TypeOK'
    BY <1>1, <2>1, <2>2 DEF TypeOK
  <2>4. Known'
    BY <1>1, <2>2 DEF Known
  <2>5. KeyOwned' /\ PayloadOwned'
    BY <1>1, <2>1, <2>2 DEF KeyOwned, PayloadOwned, Fills, Stores
  <2>6. QED
    BY <2>3, <2>4, <2>5
<1>4. QED
  BY <1>2, <1>3

LEMMA FillKeepsCensus ==
  ASSUME CensusInv, NEW t \in Threads, Fill(t) \/ Update(t)
  PROVE  CensusInv'
<1> USE DEF CensusInv
<1>1. /\ slot[t] \in Slots /\ UNCHANGED <<key, snapshotState, payloadState, slot, wanted,
                                          pending, ending, open, total>>
      /\ calls' \in [Slots -> Nat]
      /\ \/ pc[t] = "fill" /\ pc' = [pc EXCEPT ![t] = "publish"]
         \/ pc[t] = "update" /\ pc' = [pc EXCEPT ![t] = "snapshot"]
  BY DEF Fill, Update, Goto, Known, TypeOK
<1>2. TypeOK'
  BY <1>1 DEF TypeOK, Labels
<1>3. Known'
  BY <1>1 DEF Known, TypeOK
<1>4. KeyOwned' /\ PayloadOwned'
  BY <1>1, SMTT(30) DEF KeyOwned, PayloadOwned, Fills, Stores, TypeOK
<1>5. QED
  BY <1>2, <1>3, <1>4

\* A published key is a descriptor's, which is neither Free nor Claimed.
LEMMA PublishKeepsCensus ==
  ASSUME CensusInv, NEW t \in Threads, Publish(t)
  PROVE  CensusInv'
<1> USE DEF CensusInv
<1>1. /\ pc[t] = "publish" /\ slot[t] \in Slots
      /\ key' = [key EXCEPT ![slot[t]] = wanted[t]]
      /\ pc' = [pc EXCEPT ![t] = "snapshot"]
      /\ UNCHANGED <<calls, snapshotState, payloadState, slot, wanted, pending, ending,
                     open, total>>
  BY DEF Publish, Goto, Known
<1>2. wanted[t] \in Descriptors /\ wanted[t] # Claimed
  BY CensusAssumption DEF TypeOK
<1>3. TypeOK'
  BY <1>1, <1>2 DEF TypeOK, Labels
<1>4. Known' /\ PayloadOwned'
  BY <1>1 DEF Known, PayloadOwned, Stores, TypeOK
<1>5. \A u \in Threads : Fills(u, slot[t]) => u = t
  BY <1>1 DEF KeyOwned, Fills
<1>6. KeyOwned'
  BY <1>1, <1>2, <1>5 DEF KeyOwned, Fills, TypeOK
<1>7. QED
  BY <1>3, <1>4, <1>6

LEMMA SnapshotKeepsCensus ==
  ASSUME CensusInv, NEW t \in Threads, CopyDestination(t)
  PROVE  CensusInv'
<1> USE DEF CensusInv, CopyDestination
<1>1. /\ pc[t] \in {"snapshot", "attempt", "spoiled"} /\ slot[t] \in Slots
      /\ UNCHANGED <<key, calls, payloadState, wanted, ending, open>>
  BY DEF ClaimSnapshot, ReadDestination, SpoilSnapshot, PassSnapshot, Known, table
<1>2. \/ /\ \E claimed \in BOOLEAN : Pend(t, claimed)
         /\ pc' = [pc EXCEPT ![t] = "game"] /\ slot' = [slot EXCEPT ![t] = 0]
      \/ /\ UNCHANGED <<pending, slot>>
         /\ \E label \in {"attempt", "spoiled"} : pc' = [pc EXCEPT ![t] = label]
  BY DEF ClaimSnapshot, ReadDestination, SpoilSnapshot, PassSnapshot, Pend, Goto
<1>3. snapshotState' \in [Slots -> {Unclaimed, Writing, Complete, Failed}]
  BY <1>1 DEF ClaimSnapshot, ReadDestination, SpoilSnapshot, PassSnapshot, table, TypeOK
<1>4. total' \in [Counters -> Nat]
  BY CountKeepsType
    DEF ClaimSnapshot, ReadDestination, SpoilSnapshot, PassSnapshot, TypeOK
<1>5. pending' \in [Threads -> Pendings]
  <2>1. CASE UNCHANGED pending
    BY <2>1 DEF TypeOK
  <2>2. CASE \E claimed \in BOOLEAN : Pend(t, claimed)
    <3>1. PICK claimed \in BOOLEAN : Pend(t, claimed)
      BY <2>2
    <3>2. [active |-> TRUE, sample |-> slot[t], claimed |-> claimed] \in Pendings
      BY <1>1 DEF Pendings
    <3>3. QED
      BY <3>1, <3>2 DEF Pend, TypeOK
  <2>3. QED
    BY <1>2, <2>1, <2>2
<1>6. TypeOK'
  BY <1>1, <1>2, <1>3, <1>4, <1>5 DEF TypeOK, Labels
<1>7. Known'
  BY <1>1, <1>2 DEF Known, Pend, TypeOK
<1>8. /\ pc'[t] \notin {"fill", "publish", "store"}
      /\ \A u \in Threads : u # t => pc'[u] = pc[u] /\ slot'[u] = slot[u]
  BY <1>2 DEF TypeOK
<1>9. \A u \in Threads, s \in Slots : (Fills(u, s)' <=> Fills(u, s)) /\ (Stores(u, s)' <=> Stores(u, s))
  BY <1>1, <1>8 DEF Fills, Stores
<1>10. KeyOwned' /\ PayloadOwned'
  BY <1>1, <1>9 DEF KeyOwned, PayloadOwned
<1>11. QED
  BY <1>6, <1>7, <1>10

LEMMA HelperKeepsCensus ==
  ASSUME CensusInv, NEW t \in Threads, NEW d \in Descriptors, HelperBegin(t, d)
  PROVE  CensusInv'
<1> USE DEF CensusInv
<1>1. /\ pc[t] = "game" /\ pc' = [pc EXCEPT ![t] = "scan"]
      /\ slot' = [slot EXCEPT ![t] = 1] /\ wanted' = [wanted EXCEPT ![t] = d]
      /\ pending' = [pending EXCEPT ![t] = Inactive]
      /\ open[t] < MaxNesting /\ open' = [open EXCEPT ![t] = @ + 1]
      /\ UNCHANGED <<key, calls, snapshotState, payloadState, ending>>
  BY DEF HelperBegin, Goto, table
<1>2. 1 \in Slots /\ Inactive \in Pendings /\ ~Inactive.active
  BY CensusAssumption DEF Slots, Inactive, Pendings
<1>3. total' \in [Counters -> Nat]
  BY CountKeepsType DEF HelperBegin, TypeOK
<1>4. open' \in [Threads -> 0 .. MaxNesting]
  BY <1>1, CensusAssumption DEF TypeOK
<1>5. pc' \in [Threads -> Labels] /\ slot' \in [Threads -> Slots \cup {0}]
  BY <1>1, <1>2 DEF TypeOK, Labels
<1>6. wanted' \in [Threads -> Descriptors] /\ pending' \in [Threads -> Pendings]
  BY <1>1, <1>2 DEF TypeOK
<1>7. TypeOK'
  BY <1>1, <1>3, <1>4, <1>5, <1>6 DEF TypeOK
<1>8. Known'
  BY <1>1, <1>2 DEF Known, TypeOK
<1>9. KeyOwned' /\ PayloadOwned'
  BY <1>1 DEF KeyOwned, PayloadOwned, Fills, Stores, TypeOK
<1>10. QED
  BY <1>7, <1>8, <1>9

LEMMA HelperEndKeepsCensus ==
  ASSUME CensusInv, NEW t \in Threads, HelperEnd(t)
  PROVE  CensusInv'
<1> USE DEF CensusInv
<1> DEFINE to == IF pending[t].active THEN "payload" ELSE "game"
<1>1. /\ pc[t] = "game" /\ pc' = [pc EXCEPT ![t] = to]
      /\ ending' = [ending EXCEPT ![t] = pending[t]]
      /\ pending' = [pending EXCEPT ![t] = Inactive]
      /\ open[t] > 0 /\ open' = [open EXCEPT ![t] = @ - 1]
      /\ UNCHANGED <<key, calls, snapshotState, payloadState, slot, wanted, total>>
  BY DEF HelperEnd, Goto, table
<1>2. Inactive \in Pendings /\ ~Inactive.active
  BY DEF Inactive, Pendings
<1>3. /\ to \in {"payload", "game"}
      /\ to = "payload" => pending[t].sample \in Slots
  BY DEF Known
<1> HIDE DEF to
<1>4. open' \in [Threads -> 0 .. MaxNesting]
  BY <1>1, CensusAssumption DEF TypeOK
<1>5. TypeOK'
  BY <1>1, <1>2, <1>3, <1>4 DEF TypeOK, Labels
<1>6. Known'
  BY <1>1, <1>2, <1>3 DEF Known, TypeOK
<1>7. KeyOwned' /\ PayloadOwned'
  BY <1>1, <1>3 DEF KeyOwned, PayloadOwned, Fills, Stores, TypeOK
<1>8. QED
  BY <1>5, <1>6, <1>7

\* The exchange of the payload's state, in one step with the test.
LEMMA CaptureKeepsCensus ==
  ASSUME CensusInv, NEW t \in Threads, CapturePayload(t)
  PROVE  CensusInv'
<1> USE DEF CensusInv
<1> DEFINE s == ending[t].sample
<1>1. /\ pc[t] = "payload" /\ s \in Slots
      /\ UNCHANGED <<key, calls, snapshotState, slot, wanted, pending, ending, open>>
  BY DEF CapturePayload, Known
<1>2. total' \in [Counters -> Nat]
  BY CountKeepsType DEF CapturePayload, TypeOK
<1>3. CASE payloadState[s] = Unclaimed
  <2>1. /\ payloadState' = [payloadState EXCEPT ![s] = Writing]
        /\ pc' = [pc EXCEPT ![t] = "store"]
    BY <1>3 DEF CapturePayload, Goto
  <2>2. TypeOK'
    BY <1>1, <1>2, <2>1 DEF TypeOK, Labels
  <2>3. Known' /\ KeyOwned'
    BY <1>1, <2>1 DEF Known, KeyOwned, Fills, TypeOK
  <2>4. \A u \in Threads : ~Stores(u, s)
    BY <1>1, <1>3 DEF PayloadOwned, Unclaimed, Writing
  <2>5. PayloadOwned'
    BY <1>1, <2>1, <2>4 DEF PayloadOwned, Stores, TypeOK
  <2>6. QED
    BY <2>2, <2>3, <2>5
<1>4. CASE payloadState[s] # Unclaimed
  <2>1. UNCHANGED payloadState /\ pc' = [pc EXCEPT ![t] = "resolve"]
    BY <1>4 DEF CapturePayload, Goto
  <2>2. TypeOK'
    BY <1>1, <1>2, <2>1 DEF TypeOK, Labels
  <2>3. Known' /\ KeyOwned' /\ PayloadOwned'
    BY <1>1, <2>1 DEF Known, KeyOwned, PayloadOwned, Fills, Stores, TypeOK
  <2>4. QED
    BY <2>2, <2>3
<1>5. QED
  BY <1>3, <1>4

LEMMA StoreKeepsCensus ==
  ASSUME CensusInv, NEW t \in Threads, StorePayload(t)
  PROVE  CensusInv'
<1> USE DEF CensusInv
<1> DEFINE s == ending[t].sample
<1>1. /\ pc[t] = "store" /\ s \in Slots
      /\ UNCHANGED <<key, calls, snapshotState, slot, wanted, pending, ending, open, total>>
      /\ payloadState' = [payloadState EXCEPT ![s] = Complete]
      /\ pc' = [pc EXCEPT ![t] = "resolve"]
  BY DEF StorePayload, Known, Goto
<1>2. TypeOK'
  BY <1>1 DEF TypeOK, Labels
<1>3. Known' /\ KeyOwned'
  BY <1>1 DEF Known, KeyOwned, Fills, TypeOK
<1>4. \A u \in Threads : Stores(u, s) => u = t
  BY <1>1 DEF PayloadOwned, Stores
<1>5. PayloadOwned'
  BY <1>1, <1>4 DEF PayloadOwned, Stores, TypeOK, Complete, Writing
<1>6. QED
  BY <1>2, <1>3, <1>5

LEMMA ResolveKeepsCensus ==
  ASSUME CensusInv, NEW t \in Threads, MissPayload(t) \/ Resolve(t)
  PROVE  CensusInv'
<1> USE DEF CensusInv
<1>1. /\ UNCHANGED <<key, calls, payloadState, slot, wanted, pending, open>>
      /\ \A u \in Threads : u # t => pc'[u] = pc[u] /\ ending'[u] = ending[u]
      /\ pc[t] \notin {"fill", "publish", "store"} /\ ending[t].sample \in Slots
      /\ pc' \in [Threads -> Labels]
      /\ pc'[t] = "game" \/ (pc'[t] = "resolve" /\ ending' = ending)
  BY DEF MissPayload, Resolve, Goto, table, TypeOK, Labels, Known
<1>2. total' \in [Counters -> Nat]
  BY CountKeepsType DEF MissPayload, Resolve, TypeOK
<1>3. ending' \in [Threads -> Pendings]
  <2>1. Inactive \in Pendings
    BY DEF Inactive, Pendings
  <2>2. ending' = ending \/ ending' = [ending EXCEPT ![t] = Inactive]
    BY DEF MissPayload, Resolve
  <2>3. QED
    BY <2>1, <2>2 DEF TypeOK
<1>4. snapshotState' \in [Slots -> {Unclaimed, Writing, Complete, Failed}]
  BY <1>1 DEF MissPayload, Resolve, table, TypeOK
<1>5. TypeOK'
  BY <1>1, <1>2, <1>3, <1>4 DEF TypeOK
<1>6. Known'
  BY <1>1 DEF Known
<1>7. KeyOwned' /\ PayloadOwned'
  BY <1>1 DEF KeyOwned, PayloadOwned, Fills, Stores
<1>8. QED
  BY <1>5, <1>6, <1>7

LEMMA CensusInductive == CensusInv /\ [Next]_vars => CensusInv'
<1> SUFFICES ASSUME CensusInv, [Next]_vars PROVE CensusInv'
  OBVIOUS
<1>1. ASSUME NEW t \in Threads, RecordDescriptor(t) PROVE CensusInv'
  BY <1>1, ScanKeepsCensus, ClaimKeepsCensus, FillKeepsCensus, PublishKeepsCensus
     DEF RecordDescriptor
<1>2. ASSUME NEW t \in Threads, RecordEnd(t) PROVE CensusInv'
  BY <1>2, HelperEndKeepsCensus, CaptureKeepsCensus, StoreKeepsCensus, ResolveKeepsCensus
     DEF RecordEnd
<1>3. CASE UNCHANGED vars
  BY <1>3 DEF vars, table, CensusInv, TypeOK, Known, KeyOwned, PayloadOwned, Fills, Stores
<1>4. QED
  BY <1>1, <1>2, <1>3, HelperKeepsCensus, SnapshotKeepsCensus DEF Next

LEMMA OwnersAreOne == CensusInv => OneWriterPerSlot
<1> SUFFICES ASSUME CensusInv PROVE OneWriterPerSlot
  OBVIOUS
<1>1. \A x : Cardinality({x}) = 1
  BY FS_Singleton
<1>2. Cardinality({}) = 0
  BY FS_EmptySet
<1>3. ASSUME NEW s \in Slots
      PROVE  Cardinality(Filling(s)) = IF key[s] = Claimed THEN 1 ELSE 0
  <2>1. CASE key[s] = Claimed
    <3>1. PICK t \in Threads : Fills(t, s)
      BY <2>1 DEF CensusInv, KeyOwned
    <3>2. Filling(s) = {t}
      BY <3>1 DEF CensusInv, KeyOwned, Filling, Fills
    <3>3. QED
      BY <1>1, <2>1, <3>2
  <2>2. CASE key[s] # Claimed
    <3>1. Filling(s) = {}
      BY <2>2 DEF CensusInv, KeyOwned, Filling, Fills
    <3>2. QED
      BY <1>2, <2>2, <3>1
  <2>3. QED
    BY <2>1, <2>2
<1>4. ASSUME NEW s \in Slots
      PROVE  Cardinality(Storing(s)) = IF payloadState[s] = Writing THEN 1 ELSE 0
  <2>1. CASE payloadState[s] = Writing
    <3>1. PICK t \in Threads : Stores(t, s)
      BY <2>1 DEF CensusInv, PayloadOwned
    <3>2. Storing(s) = {t}
      BY <3>1 DEF CensusInv, PayloadOwned, Storing, Stores
    <3>3. QED
      BY <1>1, <2>1, <3>2
  <2>2. CASE payloadState[s] # Writing
    <3>1. Storing(s) = {}
      BY <2>2 DEF CensusInv, PayloadOwned, Storing, Stores
    <3>2. QED
      BY <1>2, <2>2, <3>1
  <2>3. QED
    BY <2>1, <2>2
<1>5. QED
  BY <1>3, <1>4 DEF OneWriterPerSlot, CensusInv

\* OneWriter: whatever the threads that scan the table at once do, a slot that is
\* claimed has one thread that fills it, and a first payload that is being written
\* one that writes it; from the exchanges of recordDescriptor and recordPayload.
THEOREM OneWriter == Spec => []OneWriterPerSlot
BY InitialCensus, CensusInductive, OwnersAreOne, PTL DEF Spec
-----------------------------------------------------------------------------
(***************************************************************************)
(* What the census reports adds up.                                        *)
(***************************************************************************)
\* A slot without a key counts nothing yet, and one that is counted in has a
\* descriptor's key.
CallsInv ==
  /\ \A s \in Slots : key[s] = Free => calls[s] = 0
  /\ \A t \in Threads : pc[t] = "update" => key[slot[t]] \notin {Free, Claimed}
  /\ IsFiniteSet(CountedCalls)
  /\ CallsAddUp

\* A set with one element more, or one less.
LEMMA OneMore ==
  ASSUME NEW S, NEW T, IsFiniteSet(S), NEW x, x \notin S, T = S \cup {x}
  PROVE  /\ IsFiniteSet(T) /\ Cardinality(S) \in Nat /\ Cardinality(T) \in Nat
         /\ Cardinality(T) = Cardinality(S) + 1
  BY FS_AddElement, FS_CardinalityType

LEMMA OneLess ==
  ASSUME NEW S, NEW T, IsFiniteSet(S), NEW x \in S, T = S \ {x}
  PROVE  /\ IsFiniteSet(T) /\ Cardinality(S) \in Nat /\ Cardinality(T) \in Nat
         /\ Cardinality(T) = Cardinality(S) - 1
  BY FS_RemoveElement, FS_CardinalityType

LEMMA BetweenCounts == IsFiniteSet(Between) /\ Cardinality(Between) \in Nat
<1>1. Between \subseteq Threads
  BY DEF Between
<1>2. QED
  BY <1>1, CensusAssumption, FS_Subset, FS_CardinalityType

\* What a call of Count does to one counter.
LEMMA Counting ==
  ASSUME TypeOK, NEW counters, Count(counters), NEW c \in Counters
  PROVE  total[c] \in Nat /\ total'[c] = IF c \in counters THEN total[c] + 1 ELSE total[c]
  BY DEF Count, TypeOK

LEMMA CountedPairs ==
  \A x : x \in CountedCalls <=> \E s \in Counted : \E n \in 1 .. calls[s] : x = <<s, n>>
  BY DEF CountedCalls

LEMMA InitialCalls ==
  ASSUME Init
  PROVE  CallsInv
<1>1. CountedCalls = {}
  BY CountedPairs DEF Init, Counted
<1>2. Between = {}
  BY DEF Init, Between
<1>3. IsFiniteSet({}) /\ Cardinality({}) = 0
  BY FS_EmptySet
<1>4. total["mTerrainHelperInsideTaskCalls"] = 0 /\ total["gDescriptorSampleOverflow"] = 0
  BY DEF Init, Counters
<1>5. CallsAddUp
  BY <1>1, <1>2, <1>3, <1>4 DEF CallsAddUp
<1>6. QED
  BY <1>1, <1>3, <1>5 DEF CallsInv, Init

\* A step that fills no slot and counts in none leaves what is counted alone.
LEMMA CallsKept ==
  ASSUME CensusInv, CallsInv, UNCHANGED calls,
         \A t \in Threads, s \in Slots :
           (slot[t] = s /\ pc[t] = "fill") <=> (slot'[t] = s /\ pc'[t] = "fill")
  PROVE  CountedCalls' = CountedCalls
<1>1. Counted' = Counted
  BY DEF Counted
<1>2. QED
  BY <1>1 DEF CountedCalls

\* A thread that is on its way to a slot stays on its way.
LEMMA StillBetween ==
  ASSUME CallsInv, CensusInv, CountedCalls' = CountedCalls, UNCHANGED total,
         \A s \in Slots : key'[s] = Free => calls'[s] = 0,
         \A t \in Threads : pc'[t] = "update" => key'[slot'[t]] \notin {Free, Claimed},
         Between' = Between
  PROVE  CallsInv'
  BY DEF CallsInv, CallsAddUp

\* The table is full: the call is one of the overflow's.
LEMMA Overflowed ==
  ASSUME CallsInv, CensusInv, NEW t \in Between, CountedCalls' = CountedCalls,
         Count({"gDescriptorSampleOverflow"}), UNCHANGED <<key, calls>>,
         \A u \in Threads : u # t => pc'[u] = pc[u] /\ slot'[u] = slot[u],
         pc'[t] = "game"
  PROVE  CallsInv'
<1>1. Between' = Between \ {t}
  BY DEF Between
<1>2. /\ IsFiniteSet(Between) /\ Cardinality(Between') = Cardinality(Between) - 1
      /\ Cardinality(Between) \in Nat
  BY <1>1, BetweenCounts, OneLess
<1>3. /\ total'["mTerrainHelperInsideTaskCalls"] = total["mTerrainHelperInsideTaskCalls"]
      /\ total["gDescriptorSampleOverflow"] \in Nat
      /\ total'["gDescriptorSampleOverflow"] = total["gDescriptorSampleOverflow"] + 1
  BY Counting DEF CensusInv, Counters
<1>4. Cardinality(CountedCalls) \in Nat
  BY FS_CardinalityType DEF CallsInv
<1>5. CallsAddUp'
  BY <1>2, <1>3, <1>4 DEF CallsInv, CallsAddUp
<1>6. \A u \in Threads : pc'[u] = "update" => key'[slot'[u]] \notin {Free, Claimed}
  BY DEF CallsInv
<1>7. QED
  BY <1>5, <1>6 DEF CallsInv

\* One more call of a slot, by a thread that was on its way.
LEMMA CountedOnce ==
  ASSUME CallsInv, CensusInv, NEW t \in Between, NEW x, x \notin CountedCalls,
         CountedCalls' = CountedCalls \cup {x}, UNCHANGED total,
         \A s \in Slots : key'[s] = Free => calls'[s] = 0,
         \A u \in Threads : u # t => pc'[u] = pc[u] /\ slot'[u] = slot[u],
         UNCHANGED key, pc'[t] \in {"publish", "snapshot"}
  PROVE  CallsInv'
<1>1. Between' = Between \ {t}
  BY DEF Between
<1>2. /\ Cardinality(Between') = Cardinality(Between) - 1
      /\ Cardinality(Between) \in Nat
  BY <1>1, BetweenCounts, OneLess
<1>3. /\ IsFiniteSet(CountedCalls') /\ Cardinality(CountedCalls) \in Nat
      /\ Cardinality(CountedCalls') = Cardinality(CountedCalls) + 1
  BY OneMore DEF CallsInv
<1>4. total["gDescriptorSampleOverflow"] \in Nat
  BY DEF CensusInv, TypeOK, Counters
<1>5. CallsAddUp'
  BY <1>2, <1>3, <1>4 DEF CallsInv, CallsAddUp
<1>6. \A u \in Threads : pc'[u] = "update" => key'[slot'[u]] \notin {Free, Claimed}
  BY DEF CallsInv
<1>7. QED
  BY <1>3, <1>5, <1>6 DEF CallsInv

\* A slot passed over: the next one, or the overflow.
LEMMA PassingKeepsCalls ==
  ASSUME CallsInv, CensusInv, NEW t \in Threads, pc[t] \in {"scan", "claim"}, NextSlot(t),
         UNCHANGED <<key, calls>>
  PROVE  CallsInv'
<1>1. slot[t] \in Slots
  BY DEF CensusInv, Known
<1>2. /\ \A u \in Threads : u # t => slot'[u] = slot[u] /\ pc'[u] = pc[u]
      /\ pc'[t] \in {"scan", "game"}
  BY <1>1, NextSlotKeepsType DEF CensusInv
<1>3. CountedCalls' = CountedCalls
  BY <1>2, CallsKept
<1>4. CASE slot[t] < Capacity
  <2>1. pc'[t] = "scan" /\ UNCHANGED total
    BY <1>2, <1>4 DEF NextSlot, Goto, CensusInv, TypeOK
  <2>2. Between' = Between
    BY <1>2, <2>1 DEF Between
  <2>3. \A u \in Threads : pc'[u] = "update" => key'[slot'[u]] \notin {Free, Claimed}
    BY <1>2, <2>1 DEF CallsInv
  <2>4. \A s \in Slots : key'[s] = Free => calls'[s] = 0
    BY DEF CallsInv
  <2>5. QED
    BY <1>3, <2>1, <2>2, <2>3, <2>4, StillBetween
<1>5. CASE ~(slot[t] < Capacity)
  <2>1. pc'[t] = "game" /\ Count({"gDescriptorSampleOverflow"})
    BY <1>5 DEF NextSlot, Goto, CensusInv, TypeOK
  <2>2. t \in Between
    BY DEF Between
  <2>3. QED
    BY <1>2, <1>3, <2>1, <2>2, Overflowed
<1>6. QED
  BY <1>4, <1>5

LEMMA ScanKeepsCalls ==
  ASSUME CallsInv, CensusInv, NEW t \in Threads, Scan(t)
  PROVE  CallsInv'
<1>1. pc[t] = "scan" /\ UNCHANGED <<key, calls>> /\ wanted[t] \in Descriptors
      /\ wanted[t] \notin {Free, Claimed}
  BY CensusAssumption DEF Scan, table, CensusInv, TypeOK
<1>2. CASE NextSlot(t)
  BY <1>1, <1>2, PassingKeepsCalls
<1>3. CASE /\ Goto(t, "update") \/ Goto(t, "claim")
           /\ UNCHANGED <<slot, total>>
           /\ Goto(t, "update") => key[slot[t]] = wanted[t]
  <2>1. /\ \A u \in Threads : u # t => pc'[u] = pc[u]
        /\ pc'[t] \in {"update", "claim"}
        /\ pc'[t] = "update" => key[slot[t]] = wanted[t]
    BY <1>3 DEF Goto, CensusInv, TypeOK
  <2>2. CountedCalls' = CountedCalls
    BY <1>1, <1>3, <2>1, CallsKept
  <2>3. Between' = Between
    BY <1>1, <2>1 DEF Between
  <2>4. \A u \in Threads : pc'[u] = "update" => key'[slot'[u]] \notin {Free, Claimed}
    BY <1>1, <1>3, <2>1 DEF CallsInv
  <2>5. \A s \in Slots : key'[s] = Free => calls'[s] = 0
    BY <1>1 DEF CallsInv
  <2>6. QED
    BY <1>3, <2>2, <2>3, <2>4, <2>5, StillBetween
<1>4. Goto(t, "update") /\ Goto(t, "claim") => FALSE
  BY DEF Goto, CensusInv, TypeOK
<1>5. QED
  BY <1>1, <1>2, <1>3, <1>4 DEF Scan

\* The slot that is claimed has counted nothing.
LEMMA ClaimKeepsCalls ==
  ASSUME CallsInv, CensusInv, NEW t \in Threads, Claim(t)
  PROVE  CallsInv'
<1>1. pc[t] = "claim" /\ slot[t] \in Slots /\ UNCHANGED calls
  BY DEF Claim, CensusInv, Known
<1>2. CASE key[slot[t]] = Free
  <2>1. /\ key' = [key EXCEPT ![slot[t]] = Claimed] /\ UNCHANGED <<slot, total>>
        /\ pc' = [pc EXCEPT ![t] = "fill"]
    BY <1>2 DEF Claim, Goto
  <2>2. calls[slot[t]] = 0
    BY <1>1, <1>2 DEF CallsInv
  <2>3. Counted' = Counted \ {slot[t]}
    BY <1>1, <2>1 DEF Counted, CensusInv, TypeOK
  <2>4. CountedCalls' = CountedCalls
    <3>1. \A x : x \in CountedCalls' <=> \E s \in Counted' : \E n \in 1 .. calls[s] : x = <<s, n>>
      BY <1>1 DEF CountedCalls
    <3>2. QED
      BY <2>2, <2>3, <3>1, CountedPairs
  <2>5. Between' = Between
    BY <1>1, <2>1 DEF Between, CensusInv, TypeOK
  <2>6. \A u \in Threads : pc'[u] = "update" => key'[slot'[u]] \notin {Free, Claimed}
    <3>1. \A u \in Threads : pc'[u] = "update" =>
            pc[u] = "update" /\ slot[u] # slot[t] /\ slot[u] \in Slots
      BY <1>1, <1>2, <2>1 DEF CallsInv, CensusInv, TypeOK, Known
    <3>2. QED
      BY <2>1, <3>1 DEF CallsInv, CensusInv, TypeOK
  <2>7. \A s \in Slots : key'[s] = Free => calls'[s] = 0
    BY <1>1, <2>1 DEF CallsInv, CensusInv, TypeOK, Free, Claimed
  <2>8. QED
    BY <2>1, <2>4, <2>5, <2>6, <2>7, StillBetween
<1>3. CASE key[slot[t]] # Free
  BY <1>1, <1>3, PassingKeepsCalls DEF Claim
<1>4. QED
  BY <1>2, <1>3

\* Only its one writer fills a claimed slot, and then it counts.
LEMMA FillKeepsCalls ==
  ASSUME CallsInv, CensusInv, NEW t \in Threads, Fill(t)
  PROVE  CallsInv'
<1>1. /\ pc[t] = "fill" /\ slot[t] \in Slots /\ calls' = [calls EXCEPT ![slot[t]] = 1]
      /\ pc' = [pc EXCEPT ![t] = "publish"] /\ UNCHANGED <<key, slot, total>>
  BY DEF Fill, Goto, CensusInv, Known
<1>2. \A u \in Threads : Fills(u, slot[t]) => u = t
  BY <1>1 DEF CensusInv, KeyOwned, Fills
<1>3. slot[t] \notin Counted
  BY <1>1 DEF Counted
<1>4. Counted' = Counted \cup {slot[t]}
  BY <1>1, <1>2 DEF Counted, Fills, CensusInv, TypeOK
<1>5. \A s \in Counted : calls'[s] = calls[s]
  BY <1>1, <1>3 DEF Counted, CensusInv, TypeOK
<1>6. calls'[slot[t]] = 1
  BY <1>1 DEF CensusInv, TypeOK
<1>7. CountedCalls' = CountedCalls \cup {<<slot[t], 1>>}
  <2>1. \A x : x \in CountedCalls' <=> \E s \in Counted' : \E n \in 1 .. calls'[s] : x = <<s, n>>
    BY DEF CountedCalls
  <2>2. \A n : n \in 1 .. calls'[slot[t]] <=> n = 1
    BY <1>6
  <2>3. QED
    BY <1>4, <1>5, <2>1, <2>2, CountedPairs
<1>8. <<slot[t], 1>> \notin CountedCalls
  BY <1>3, CountedPairs
<1>9. t \in Between
  BY <1>1 DEF Between
<1>10. \A s \in Slots : key'[s] = Free => calls'[s] = 0
  <2>1. key[slot[t]] = Claimed
    BY <1>1 DEF CensusInv, KeyOwned, Fills
  <2>2. QED
    BY <1>1, <2>1 DEF CallsInv, CensusInv, TypeOK, Free, Claimed
<1>11. /\ \A u \in Threads : u # t => pc'[u] = pc[u] /\ slot'[u] = slot[u]
       /\ pc'[t] = "publish"
  BY <1>1 DEF CensusInv, TypeOK
<1>12. QED
  BY <1>1, <1>7, <1>8, <1>9, <1>10, <1>11, CountedOnce

\* A slot that is found has a descriptor's key, so nobody fills it.
LEMMA UpdateKeepsCalls ==
  ASSUME CallsInv, CensusInv, NEW t \in Threads, Update(t)
  PROVE  CallsInv'
<1>1. /\ pc[t] = "update" /\ slot[t] \in Slots
      /\ calls' = [calls EXCEPT ![slot[t]] = calls[slot[t]] + 1]
      /\ pc' = [pc EXCEPT ![t] = "snapshot"] /\ UNCHANGED <<key, slot, total>>
  BY DEF Update, Goto, CensusInv, Known
<1>2. key[slot[t]] \notin {Free, Claimed}
  BY <1>1 DEF CallsInv
<1>3. slot[t] \in Counted
  BY <1>1, <1>2 DEF Counted, CensusInv, KeyOwned, Fills
<1>4. Counted' = Counted
  BY <1>1 DEF Counted, CensusInv, TypeOK
<1>5. calls[slot[t]] \in Nat /\ calls'[slot[t]] = calls[slot[t]] + 1
  BY <1>1 DEF CensusInv, TypeOK
<1>6. \A s \in Counted : s # slot[t] => calls'[s] = calls[s]
  BY <1>1 DEF Counted, CensusInv, TypeOK
<1>7. CountedCalls' = CountedCalls \cup {<<slot[t], calls[slot[t]] + 1>>}
  <2>1. \A x : x \in CountedCalls' <=> \E s \in Counted : \E n \in 1 .. calls'[s] : x = <<s, n>>
    BY <1>4 DEF CountedCalls
  <2>2. \A n : n \in 1 .. calls'[slot[t]] <=>
                 n \in 1 .. calls[slot[t]] \/ n = calls[slot[t]] + 1
    BY <1>5
  <2>3. QED
    BY <1>3, <1>6, <2>1, <2>2, CountedPairs
<1>8. <<slot[t], calls[slot[t]] + 1>> \notin CountedCalls
  BY <1>5, CountedPairs
<1>9. t \in Between
  BY <1>1 DEF Between
<1>10. \A s \in Slots : key'[s] = Free => calls'[s] = 0
  BY <1>1, <1>2 DEF CallsInv, CensusInv, TypeOK
<1>11. /\ \A u \in Threads : u # t => pc'[u] = pc[u] /\ slot'[u] = slot[u]
       /\ pc'[t] = "snapshot"
  BY <1>1 DEF CensusInv, TypeOK
<1>12. QED
  BY <1>1, <1>7, <1>8, <1>9, <1>10, <1>11, CountedOnce

LEMMA PublishKeepsCalls ==
  ASSUME CallsInv, CensusInv, NEW t \in Threads, Publish(t)
  PROVE  CallsInv'
<1>1. /\ pc[t] = "publish" /\ slot[t] \in Slots
      /\ key' = [key EXCEPT ![slot[t]] = wanted[t]]
      /\ pc' = [pc EXCEPT ![t] = "snapshot"] /\ UNCHANGED <<calls, slot, total>>
  BY DEF Publish, Goto, CensusInv, Known
<1>2. wanted[t] \notin {Free, Claimed}
  BY CensusAssumption DEF CensusInv, TypeOK
<1>3. CountedCalls' = CountedCalls
  BY <1>1, CallsKept DEF CensusInv, TypeOK
<1>4. Between' = Between
  BY <1>1 DEF Between, CensusInv, TypeOK
<1>5. \A u \in Threads : pc'[u] = "update" => key'[slot'[u]] \notin {Free, Claimed}
  <2>1. \A u \in Threads : pc'[u] = "update" => pc[u] = "update" /\ slot[u] \in Slots
    BY <1>1 DEF CensusInv, TypeOK, Known
  <2>2. QED
    BY <1>1, <1>2, <2>1 DEF CallsInv, CensusInv, TypeOK
<1>6. \A s \in Slots : key'[s] = Free => calls'[s] = 0
  BY <1>1, <1>2 DEF CallsInv, CensusInv, TypeOK
<1>7. QED
  BY <1>1, <1>3, <1>4, <1>5, <1>6, StillBetween

LEMMA BeginKeepsCalls ==
  ASSUME CallsInv, CensusInv, NEW t \in Threads, NEW d \in Descriptors, HelperBegin(t, d)
  PROVE  CallsInv'
<1>1. /\ pc[t] = "game" /\ pc' = [pc EXCEPT ![t] = "scan"]
      /\ slot' = [slot EXCEPT ![t] = 1] /\ UNCHANGED <<key, calls>>
  BY DEF HelperBegin, Goto, table
<1>2. /\ total'["mTerrainHelperInsideTaskCalls"] = total["mTerrainHelperInsideTaskCalls"] + 1
      /\ total'["gDescriptorSampleOverflow"] = total["gDescriptorSampleOverflow"]
      /\ total["gDescriptorSampleOverflow"] \in Nat
  <2>1. PICK counters : /\ Count(counters)
                        /\ "mTerrainHelperInsideTaskCalls" \in counters
                        /\ "gDescriptorSampleOverflow" \notin counters
    BY DEF HelperBegin
  <2>2. QED
    BY <2>1, Counting DEF CensusInv, Counters
<1>3. CountedCalls' = CountedCalls
  BY <1>1, CallsKept DEF CensusInv, TypeOK
<1>4. Between' = Between \cup {t} /\ t \notin Between
  BY <1>1 DEF Between, CensusInv, TypeOK
<1>5. /\ Cardinality(Between') = Cardinality(Between) + 1
      /\ Cardinality(Between) \in Nat
  BY <1>4, BetweenCounts, OneMore
<1>6. Cardinality(CountedCalls) \in Nat
  BY FS_CardinalityType DEF CallsInv
<1>7. CallsAddUp'
  BY <1>2, <1>3, <1>5, <1>6 DEF CallsInv, CallsAddUp
<1>8. \A u \in Threads : pc'[u] = "update" => key'[slot'[u]] \notin {Free, Claimed}
  BY <1>1 DEF CallsInv, CensusInv, TypeOK
<1>9. QED
  BY <1>1, <1>3, <1>7, <1>8 DEF CallsInv

\* Outside recordDescriptor nothing of this is touched.
LEMMA RestKeepsCalls ==
  ASSUME CallsInv, CensusInv, NEW t \in Threads,
         CopyDestination(t) \/ RecordEnd(t)
  PROVE  CallsInv'
<1> USE DEF CopyDestination, ClaimSnapshot, ReadDestination, SpoilSnapshot, PassSnapshot
<1>1. UNCHANGED <<key, calls>>
  BY DEF RecordEnd, HelperEnd, CapturePayload, StorePayload, MissPayload, Resolve, table
<1>2. /\ pc[t] \in {"snapshot", "attempt", "spoiled", "game", "payload", "store", "resolve"}
      /\ pc'[t] \in {"attempt", "spoiled", "game", "payload", "store", "resolve"}
      /\ \A u \in Threads : u # t => pc'[u] = pc[u] /\ slot'[u] = slot[u]
  BY DEF Pend, RecordEnd, HelperEnd, CapturePayload, StorePayload, MissPayload, Resolve,
    Goto, CensusInv, TypeOK
<1>3. /\ total'["mTerrainHelperInsideTaskCalls"] = total["mTerrainHelperInsideTaskCalls"]
      /\ total'["gDescriptorSampleOverflow"] = total["gDescriptorSampleOverflow"]
  <2>1. \/ UNCHANGED total
        \/ \E counters : /\ Count(counters)
                         /\ "mTerrainHelperInsideTaskCalls" \notin counters
                         /\ "gDescriptorSampleOverflow" \notin counters
    BY DEF RecordEnd, HelperEnd, CapturePayload, StorePayload, MissPayload, Resolve
  <2>2. QED
    BY <2>1, Counting DEF CensusInv, Counters
<1>4. CountedCalls' = CountedCalls
  BY <1>1, <1>2, CallsKept
<1>5. Between' = Between
  BY <1>2 DEF Between
<1>6. \A u \in Threads : pc'[u] = "update" => key'[slot'[u]] \notin {Free, Claimed}
  BY <1>1, <1>2 DEF CallsInv
<1>7. QED
  BY <1>1, <1>3, <1>4, <1>5, <1>6 DEF CallsInv, CallsAddUp

-----------------------------------------------------------------------------
\* The slots with a copy in the making have a thread that has to complete it.
Copying(t) == pc[t] \in {"attempt", "spoiled"}
Holds(t, s) ==
  \/ pending[t].claimed /\ pending[t].sample = s
  \/ ending[t].claimed /\ ending[t].sample = s
  \/ Copying(t) /\ slot[t] = s

\* A thread has a copy to complete before or after its helper's end, not both;
\* no two threads have the same.
Holders ==
  /\ \A t \in Threads : pending[t].claimed => pending[t].active /\ pc[t] = "game"
  /\ \A t \in Threads : pending[t].active => pc[t] = "game"
  /\ \A t \in Threads : ending[t].claimed => pc[t] \in {"payload", "store", "resolve"}
  /\ \A t \in Threads : \A s : Holds(t, s) => s \in WritingSlots
  /\ \A t, u \in Threads : \A s : Holds(t, s) /\ Holds(u, s) => t = u

SnapshotInv == Holders /\ SnapshotsAddUp

LEMMA HolderCounts ==
  /\ IsFiniteSet(Attempted) /\ IsFiniteSet(WritingSlots) /\ IsFiniteSet(Held)
  /\ IsFiniteSet(Uncounted)
  /\ Cardinality(Attempted) \in Nat /\ Cardinality(WritingSlots) \in Nat
  /\ Cardinality(Held) \in Nat /\ Cardinality(Uncounted) \in Nat
<1>1. IsFiniteSet(Slots)
  BY CensusAssumption, FS_Interval DEF Slots
<1>2. /\ Attempted \subseteq Slots /\ WritingSlots \subseteq Slots
      /\ Held \subseteq Threads /\ Uncounted \subseteq Threads
  BY DEF Attempted, WritingSlots, Held, Uncounted
<1>3. QED
  BY <1>1, <1>2, CensusAssumption, FS_Subset, FS_CardinalityType

\* The counters these are about.
LEMMA SnapshotCounters ==
  ASSUME TypeOK
  PROVE  /\ total["gDestinationSnapshotAttempts"] \in Nat
         /\ total["gDestinationSnapshotSuccesses"] \in Nat
         /\ total["gDestinationSnapshotFailures"] \in Nat
         /\ total["gPayloadPendingOverwriteCalls"] \in Nat
  BY DEF TypeOK, Counters

\* The sums, on the numbers themselves.
Sums(begun, uncounted, writing, held, attempts, successes, failures, overwritten) ==
  /\ begun = attempts + uncounted
  /\ begun = writing + successes + failures
  /\ held <= writing
  /\ writing <= held + overwritten

LEMMA SnapshotSums ==
  /\ SnapshotsAddUp <=>
       Sums(Cardinality(Attempted), Cardinality(Uncounted), Cardinality(WritingSlots),
            Cardinality(Held), total["gDestinationSnapshotAttempts"],
            total["gDestinationSnapshotSuccesses"], total["gDestinationSnapshotFailures"],
            total["gPayloadPendingOverwriteCalls"])
  /\ SnapshotsAddUp' <=>
       Sums(Cardinality(Attempted'), Cardinality(Uncounted'), Cardinality(WritingSlots'),
            Cardinality(Held'), total'["gDestinationSnapshotAttempts"],
            total'["gDestinationSnapshotSuccesses"], total'["gDestinationSnapshotFailures"],
            total'["gPayloadPendingOverwriteCalls"])
  BY DEF SnapshotsAddUp, Sums

\* A copy claimed; one counted; one resolved, either way; one dropped, or none,
\* with an overwriting counted.
LEMMA SumsMove ==
  ASSUME NEW b \in Nat, NEW n \in Nat, NEW w \in Nat, NEW h \in Nat, NEW a \in Nat,
         NEW s \in Nat, NEW f \in Nat, NEW p \in Nat, Sums(b, n, w, h, a, s, f, p)
  PROVE  /\ Sums(b + 1, n + 1, w + 1, h + 1, a, s, f, p)
         /\ Sums(b, n - 1, w, h, a + 1, s, f, p)
         /\ Sums(b, n, w - 1, h - 1, a, s + 1, f, p)
         /\ Sums(b, n, w - 1, h - 1, a, s, f + 1, p)
         /\ Sums(b, n, w, h, a, s, f, p + 1)
         /\ Sums(b, n, w, h - 1, a, s, f, p + 1)
  BY DEF Sums

LEMMA SumsNow ==
  ASSUME SnapshotInv, CensusInv,
         NEW b, b = Cardinality(Attempted), NEW n, n = Cardinality(Uncounted),
         NEW w, w = Cardinality(WritingSlots), NEW h, h = Cardinality(Held),
         NEW a, a = total["gDestinationSnapshotAttempts"],
         NEW s, s = total["gDestinationSnapshotSuccesses"],
         NEW f, f = total["gDestinationSnapshotFailures"],
         NEW p, p = total["gPayloadPendingOverwriteCalls"]
  PROVE  /\ Sums(b + 1, n + 1, w + 1, h + 1, a, s, f, p)
         /\ Sums(b, n - 1, w, h, a + 1, s, f, p)
         /\ Sums(b, n, w - 1, h - 1, a, s + 1, f, p)
         /\ Sums(b, n, w - 1, h - 1, a, s, f + 1, p)
         /\ Sums(b, n, w, h, a, s, f, p + 1)
         /\ Sums(b, n, w, h, a, s, f, p)
         /\ Sums(b, n, w, h - 1, a, s, f, p + 1)
<1>1. b \in Nat /\ n \in Nat /\ w \in Nat /\ h \in Nat
  BY HolderCounts
<1>2. a \in Nat /\ s \in Nat /\ f \in Nat /\ p \in Nat
  BY SnapshotCounters DEF CensusInv
<1>3. Sums(b, n, w, h, a, s, f, p)
  BY SnapshotSums DEF SnapshotInv
<1>4. QED
  BY <1>1, <1>2, <1>3, SumsMove

LEMMA InitialSnapshots ==
  ASSUME Init
  PROVE  SnapshotInv
<1>1. Attempted = {} /\ WritingSlots = {} /\ Held = {} /\ Uncounted = {}
  BY DEF Init, Attempted, WritingSlots, Held, Uncounted, Inactive, Unclaimed, Writing
<1>2. Cardinality({}) = 0
  BY FS_EmptySet
<1>3. \A c \in Counters : total[c] = 0
  BY DEF Init
<1>4. SnapshotsAddUp
  BY <1>1, <1>2, <1>3 DEF SnapshotsAddUp, Counters
<1>5. QED
  BY <1>1, <1>4 DEF SnapshotInv, Holders, Holds, Copying, Held, Init, Inactive

\* A step that does nothing to the copies, at most counts elsewhere.
LEMMA SnapshotsKept ==
  ASSUME SnapshotInv, CensusInv, UNCHANGED <<snapshotState, pending, ending>>,
         \/ UNCHANGED total
         \/ \E counters :
              /\ Count(counters)
              /\ counters \cap {"gDestinationSnapshotAttempts", "gDestinationSnapshotSuccesses",
                                "gDestinationSnapshotFailures",
                                "gPayloadPendingOverwriteCalls"} = {},
         NEW t \in Threads, \A u \in Threads : u # t => pc'[u] = pc[u] /\ slot'[u] = slot[u],
         ~Copying(t)',
         \/ pc[t] \in {"scan", "claim", "fill", "publish", "update", "snapshot"}
         \/ /\ pc[t] \in {"payload", "store", "resolve"}
            /\ pc'[t] \in {"payload", "store", "resolve"}
  PROVE  SnapshotInv'
<1>1. /\ Attempted' = Attempted /\ WritingSlots' = WritingSlots /\ Held' = Held
      /\ Uncounted' = Uncounted
  BY DEF Attempted, WritingSlots, Held, Uncounted, Copying
<1>2. /\ total'["gDestinationSnapshotAttempts"] = total["gDestinationSnapshotAttempts"]
      /\ total'["gDestinationSnapshotSuccesses"] = total["gDestinationSnapshotSuccesses"]
      /\ total'["gDestinationSnapshotFailures"] = total["gDestinationSnapshotFailures"]
      /\ total'["gPayloadPendingOverwriteCalls"] = total["gPayloadPendingOverwriteCalls"]
  BY Counting DEF CensusInv, Counters
<1>3. SnapshotsAddUp'
  BY <1>1, <1>2 DEF SnapshotInv, SnapshotsAddUp
<1>4. ~Copying(t) /\ \A u \in Threads : u # t => (Copying(u)' <=> Copying(u))
  BY DEF Copying
<1>5. \A u \in Threads : \A s : Holds(u, s)' <=> Holds(u, s)
  BY <1>4 DEF Holds
<1>6. ~pending[t].active /\ ~pending[t].claimed
  BY DEF SnapshotInv, Holders
<1>7. ending[t].claimed => pc'[t] \in {"payload", "store", "resolve"}
  BY DEF SnapshotInv, Holders
<1>8. Holders'
  BY <1>1, <1>5, <1>6, <1>7 DEF SnapshotInv, Holders
<1>9. QED
  BY <1>3, <1>8 DEF SnapshotInv

LEMMA RecordKeepsSnapshots ==
  ASSUME SnapshotInv, CensusInv, NEW t \in Threads,
         RecordDescriptor(t) \/ CapturePayload(t) \/ StorePayload(t) \/ MissPayload(t)
  PROVE  SnapshotInv'
<1>1. UNCHANGED <<snapshotState, pending, ending>>
  BY DEF RecordDescriptor, Scan, Claim, Fill, Publish, Update, CapturePayload, StorePayload,
    MissPayload, table
<1>2. \/ UNCHANGED total
      \/ \E counters :
           /\ Count(counters)
           /\ counters \cap {"gDestinationSnapshotAttempts", "gDestinationSnapshotSuccesses",
                             "gDestinationSnapshotFailures",
                             "gPayloadPendingOverwriteCalls"} = {}
  BY DEF RecordDescriptor, Scan, Claim, NextSlot, Fill, Publish, Update, CapturePayload,
    StorePayload, MissPayload
<1>3. /\ \A u \in Threads : u # t => pc'[u] = pc[u] /\ slot'[u] = slot[u]
      /\ ~Copying(t)'
      /\ \/ pc[t] \in {"scan", "claim", "fill", "publish", "update", "snapshot"}
         \/ /\ pc[t] \in {"payload", "store", "resolve"}
            /\ pc'[t] \in {"payload", "store", "resolve"}
  BY DEF RecordDescriptor, Scan, Claim, NextSlot, Fill, Publish, Update, CapturePayload,
    StorePayload, MissPayload, Goto, Copying, CensusInv, TypeOK
<1>4. QED
  BY <1>1, <1>2, <1>3, SnapshotsKept

\* A call inside a call forgets what was pending, and counts that it did.
LEMMA BeginKeepsSnapshots ==
  ASSUME SnapshotInv, CensusInv, NEW t \in Threads, NEW d \in Descriptors, HelperBegin(t, d)
  PROVE  SnapshotInv'
<1>1. /\ pc[t] = "game" /\ pc' = [pc EXCEPT ![t] = "scan"]
      /\ pending' = [pending EXCEPT ![t] = Inactive]
      /\ slot' = [slot EXCEPT ![t] = 1] /\ UNCHANGED <<snapshotState, ending>>
  BY DEF HelperBegin, Goto, table
<1>2. ~Inactive.active /\ ~Inactive.claimed
  BY DEF Inactive
<1>3. ~ending[t].claimed
  BY <1>1 DEF SnapshotInv, Holders
<1>4. Holders'
  <2>1. WritingSlots' = WritingSlots
    BY <1>1 DEF WritingSlots
  <2>2. \A u \in Threads : \A s : Holds(u, s)' => Holds(u, s)
    BY <1>1, <1>2 DEF Holds, Copying, CensusInv, TypeOK
  <2>3. QED
    BY <1>1, <1>2, <1>3, <2>1, <2>2 DEF SnapshotInv, Holders, CensusInv, TypeOK
<1>5. Attempted' = Attempted /\ WritingSlots' = WritingSlots /\ Uncounted' = Uncounted
  BY <1>1 DEF Attempted, WritingSlots, Uncounted, CensusInv, TypeOK
<1>6. /\ total'["gDestinationSnapshotAttempts"] = total["gDestinationSnapshotAttempts"]
      /\ total'["gDestinationSnapshotSuccesses"] = total["gDestinationSnapshotSuccesses"]
      /\ total'["gDestinationSnapshotFailures"] = total["gDestinationSnapshotFailures"]
      /\ total'["gPayloadPendingOverwriteCalls"] =
           IF pending[t].active THEN total["gPayloadPendingOverwriteCalls"] + 1
           ELSE total["gPayloadPendingOverwriteCalls"]
  <2>1. PICK counters : /\ Count(counters)
                        /\ counters \cap {"gDestinationSnapshotAttempts",
                             "gDestinationSnapshotSuccesses",
                             "gDestinationSnapshotFailures"} = {}
                        /\ "gPayloadPendingOverwriteCalls" \in counters <=> pending[t].active
    <3>1. CASE pending[t].active
      <4>1. Count({"mTerrainHelperInsideTaskCalls"} \cup {"gPayloadPendingOverwriteCalls"})
        BY <3>1 DEF HelperBegin
      <4>2. QED
        BY <3>1, <4>1
    <3>2. CASE ~pending[t].active
      <4>1. Count({"mTerrainHelperInsideTaskCalls"} \cup {})
        BY <3>2 DEF HelperBegin
      <4>2. QED
        BY <3>2, <4>1
    <3>3. QED
      BY <3>1, <3>2
  <2>2. QED
    BY <2>1, Counting DEF CensusInv, Counters
<1>7. CASE pending[t].claimed
  <2>1. Held' = Held \ {t} /\ t \in Held
    BY <1>1, <1>2, <1>3, <1>7 DEF Held, CensusInv, TypeOK
  <2>2. Cardinality(Held') = Cardinality(Held) - 1 /\ Cardinality(Held) \in Nat
    BY <2>1, HolderCounts, OneLess
  <2>3. pending[t].active
    BY <1>7 DEF SnapshotInv, Holders
  <2>4. SnapshotsAddUp'
    BY <1>5, <1>6, <2>2, <2>3, SumsNow, SnapshotSums
  <2>5. QED
    BY <1>4, <2>4 DEF SnapshotInv
<1>8. CASE ~pending[t].claimed
  <2>1. Held' = Held
    BY <1>1, <1>2, <1>8 DEF Held, CensusInv, TypeOK
  <2>2. SnapshotsAddUp'
    BY <1>5, <1>6, <2>1, SumsNow, SnapshotSums
  <2>3. QED
    BY <1>4, <2>2 DEF SnapshotInv
<1>9. QED
  BY <1>7, <1>8

\* The exchange gives the copy of a slot to one thread, once.
LEMMA ClaimKeepsSnapshots ==
  ASSUME SnapshotInv, CensusInv, NEW t \in Threads, ClaimSnapshot(t)
  PROVE  SnapshotInv'
<1> DEFINE s == slot[t]
<1>1. /\ pc[t] = "snapshot" /\ s \in Slots /\ snapshotState[s] = Unclaimed
      /\ pc' = [pc EXCEPT ![t] = "attempt"]
      /\ snapshotState' = [snapshotState EXCEPT ![s] = Writing]
      /\ UNCHANGED <<slot, pending, ending, total>>
  BY DEF ClaimSnapshot, Goto, CensusInv, Known
<1>2. ~pending[t].claimed /\ ~pending[t].active /\ ~ending[t].claimed
  BY <1>1 DEF SnapshotInv, Holders
<1>3. \A u \in Threads : ~Holds(u, s)
  BY <1>1 DEF SnapshotInv, Holders, WritingSlots, Unclaimed, Writing
<1>4. s \notin Attempted /\ s \notin WritingSlots /\ t \notin Held /\ t \notin Uncounted
  BY <1>1, <1>2 DEF Attempted, WritingSlots, Held, Uncounted, Unclaimed, Writing
<1>5. /\ Attempted' = Attempted \cup {s} /\ WritingSlots' = WritingSlots \cup {s}
      /\ Held' = Held \cup {t} /\ Uncounted' = Uncounted \cup {t}
  BY <1>1 DEF Attempted, WritingSlots, Held, Uncounted, CensusInv, TypeOK, Unclaimed,
    Writing
<1>6. /\ Cardinality(Attempted') = Cardinality(Attempted) + 1
      /\ Cardinality(WritingSlots') = Cardinality(WritingSlots) + 1
      /\ Cardinality(Held') = Cardinality(Held) + 1
      /\ Cardinality(Uncounted') = Cardinality(Uncounted) + 1
  BY <1>4, <1>5, HolderCounts, OneMore
<1>7. SnapshotsAddUp'
  BY <1>1, <1>6, SumsNow, SnapshotSums
<1>8. \A u \in Threads : \A r : Holds(u, r)' <=> Holds(u, r) \/ (u = t /\ r = s)
  BY <1>1, <1>2 DEF Holds, Copying, CensusInv, TypeOK
<1>9. Holders'
  BY <1>1, <1>2, <1>3, <1>5, <1>8 DEF SnapshotInv, Holders, CensusInv, TypeOK
<1>10. QED
  BY <1>7, <1>9 DEF SnapshotInv

\* Counted, the copy is pending, or has to be given up.
LEMMA ReadKeepsSnapshots ==
  ASSUME SnapshotInv, CensusInv, NEW t \in Threads, ReadDestination(t)
  PROVE  SnapshotInv'
<1>1. /\ pc[t] = "attempt" /\ UNCHANGED <<snapshotState, ending>>
      /\ Count({"gDestinationSnapshotAttempts"})
  BY DEF ReadDestination, table
<1>2. ~pending[t].claimed /\ ~pending[t].active /\ ~ending[t].claimed
  BY <1>1 DEF SnapshotInv, Holders
<1>3. \/ /\ pending' = [pending EXCEPT ![t] =
                           [active |-> TRUE, sample |-> slot[t], claimed |-> TRUE]]
         /\ pc' = [pc EXCEPT ![t] = "game"] /\ slot' = [slot EXCEPT ![t] = 0]
      \/ pc' = [pc EXCEPT ![t] = "spoiled"] /\ UNCHANGED <<slot, pending>>
  BY DEF ReadDestination, Pend, Goto
<1>4. Attempted' = Attempted /\ WritingSlots' = WritingSlots
  BY <1>1 DEF Attempted, WritingSlots
<1>5. Uncounted' = Uncounted \ {t} /\ t \in Uncounted
  BY <1>1, <1>3 DEF Uncounted, CensusInv, TypeOK
<1>6. Held' = Held
  BY <1>1, <1>2, <1>3 DEF Held, CensusInv, TypeOK
<1>7. Cardinality(Uncounted') = Cardinality(Uncounted) - 1
  BY <1>5, HolderCounts, OneLess
<1>8. /\ total'["gDestinationSnapshotAttempts"] = total["gDestinationSnapshotAttempts"] + 1
      /\ total'["gDestinationSnapshotSuccesses"] = total["gDestinationSnapshotSuccesses"]
      /\ total'["gDestinationSnapshotFailures"] = total["gDestinationSnapshotFailures"]
      /\ total'["gPayloadPendingOverwriteCalls"] = total["gPayloadPendingOverwriteCalls"]
  BY <1>1, Counting DEF CensusInv, Counters
<1>9. SnapshotsAddUp'
  BY <1>4, <1>6, <1>7, <1>8, SumsNow, SnapshotSums
<1>10. \A u \in Threads : \A r : Holds(u, r)' <=> Holds(u, r)
  BY <1>1, <1>2, <1>3 DEF Holds, Copying, CensusInv, TypeOK
<1>11. Holders'
  BY <1>1, <1>2, <1>3, <1>4, <1>10 DEF SnapshotInv, Holders, CensusInv, TypeOK
<1>12. QED
  BY <1>9, <1>11 DEF SnapshotInv

LEMMA SpoilKeepsSnapshots ==
  ASSUME SnapshotInv, CensusInv, NEW t \in Threads, SpoilSnapshot(t)
  PROVE  SnapshotInv'
<1> DEFINE s == slot[t]
<1>1. /\ pc[t] = "spoiled" /\ s \in Slots /\ UNCHANGED ending
      /\ snapshotState' = [snapshotState EXCEPT ![s] = Failed]
      /\ Count({"gDestinationSnapshotFailures"})
      /\ pending' = [pending EXCEPT ![t] =
                       [active |-> TRUE, sample |-> s, claimed |-> FALSE]]
      /\ pc' = [pc EXCEPT ![t] = "game"] /\ slot' = [slot EXCEPT ![t] = 0]
  BY DEF SpoilSnapshot, Pend, Goto, CensusInv, Known
<1>2. ~pending[t].claimed /\ ~pending[t].active /\ ~ending[t].claimed
  BY <1>1 DEF SnapshotInv, Holders
<1>3. Holds(t, s) /\ s \in WritingSlots /\ \A u \in Threads : Holds(u, s) => u = t
  BY <1>1 DEF SnapshotInv, Holders, Holds, Copying
<1>4. /\ Attempted' = Attempted /\ WritingSlots' = WritingSlots \ {s}
      /\ Uncounted' = Uncounted /\ Held' = Held \ {t} /\ t \in Held
  <2>1. Attempted' = Attempted /\ WritingSlots' = WritingSlots \ {s}
    BY <1>1, <1>3 DEF Attempted, WritingSlots, CensusInv, TypeOK, Unclaimed, Writing, Failed
  <2>2. Uncounted' = Uncounted
    BY <1>1 DEF Uncounted, CensusInv, TypeOK
  <2>3. Held' = Held \ {t} /\ t \in Held
    BY <1>1, <1>2 DEF Held, CensusInv, TypeOK
  <2>4. QED
    BY <2>1, <2>2, <2>3
<1>5. /\ Cardinality(WritingSlots') = Cardinality(WritingSlots) - 1
      /\ Cardinality(Held') = Cardinality(Held) - 1
  BY <1>3, <1>4, HolderCounts, OneLess
<1>6. /\ total'["gDestinationSnapshotAttempts"] = total["gDestinationSnapshotAttempts"]
      /\ total'["gDestinationSnapshotSuccesses"] = total["gDestinationSnapshotSuccesses"]
      /\ total'["gDestinationSnapshotFailures"] = total["gDestinationSnapshotFailures"] + 1
      /\ total'["gPayloadPendingOverwriteCalls"] = total["gPayloadPendingOverwriteCalls"]
  BY <1>1, Counting DEF CensusInv, Counters
<1>7. SnapshotsAddUp'
  BY <1>4, <1>5, <1>6, SumsNow, SnapshotSums
<1>8. \A u \in Threads : \A r : Holds(u, r)' <=> Holds(u, r) /\ u # t
  BY <1>1, <1>2 DEF Holds, Copying, CensusInv, TypeOK
<1>9. Holders'
  BY <1>1, <1>2, <1>3, <1>4, <1>8 DEF SnapshotInv, Holders, CensusInv, TypeOK
<1>10. QED
  BY <1>7, <1>9 DEF SnapshotInv

\* A copy that is not the thread's changes nothing; what is pending is taken over
\* by the end of the helper's call.
LEMMA PassKeepsSnapshots ==
  ASSUME SnapshotInv, CensusInv, NEW t \in Threads, PassSnapshot(t) \/ HelperEnd(t)
  PROVE  SnapshotInv'
<1>1. UNCHANGED <<snapshotState, total>>
  BY DEF PassSnapshot, HelperEnd, table
<1>2. /\ pc[t] \in {"snapshot", "game"} /\ pc'[t] \in {"payload", "game"}
      /\ \A u \in Threads : u # t => pc'[u] = pc[u] /\ slot'[u] = slot[u]
  BY DEF PassSnapshot, HelperEnd, Pend, Goto, CensusInv, TypeOK
<1>3. Attempted' = Attempted /\ WritingSlots' = WritingSlots /\ Uncounted' = Uncounted
  BY <1>1, <1>2 DEF Attempted, WritingSlots, Uncounted
<1>4. ASSUME Held' = Held, \A u \in Threads : \A s : Holds(u, s)' <=> Holds(u, s),
             \A u \in Threads :
               /\ (pending[u].claimed => pending[u].active)'
               /\ (pending[u].active => pc[u] = "game")'
               /\ (ending[u].claimed => pc[u] \in {"payload", "store", "resolve"})'
      PROVE  SnapshotInv'
  BY <1>1, <1>3, <1>4 DEF SnapshotInv, Holders, SnapshotsAddUp
<1>5. CASE PassSnapshot(t)
  <2>1. /\ pc[t] = "snapshot" /\ pc' = [pc EXCEPT ![t] = "game"] /\ UNCHANGED ending
        /\ pending' = [pending EXCEPT ![t] =
                         [active |-> TRUE, sample |-> slot[t], claimed |-> FALSE]]
    BY <1>5 DEF PassSnapshot, Pend, Goto
  <2>2. ~pending[t].claimed /\ ~ending[t].claimed
    BY <2>1 DEF SnapshotInv, Holders
  <2>3. Held' = Held /\ \A u \in Threads : \A s : Holds(u, s)' <=> Holds(u, s)
    BY <1>2, <2>1, <2>2 DEF Held, Holds, Copying, CensusInv, TypeOK
  <2>4. QED
    BY <1>4, <2>1, <2>2, <2>3 DEF SnapshotInv, Holders, CensusInv, TypeOK
<1>6. CASE HelperEnd(t)
  <2>1. /\ pc[t] = "game"
        /\ pc' = [pc EXCEPT ![t] = IF pending[t].active THEN "payload" ELSE "game"]
        /\ ending' = [ending EXCEPT ![t] = pending[t]]
        /\ pending' = [pending EXCEPT ![t] = Inactive]
    BY <1>6 DEF HelperEnd, Goto
  <2>2. ~ending[t].claimed /\ (pending[t].claimed => pending[t].active)
        /\ ~Inactive.claimed /\ ~Inactive.active
    BY <2>1 DEF SnapshotInv, Holders, Inactive
  <2>3. Held' = Held /\ \A u \in Threads : \A s : Holds(u, s)' <=> Holds(u, s)
    BY <1>2, <2>1, <2>2 DEF Held, Holds, Copying, CensusInv, TypeOK
  <2>4. QED
    BY <1>4, <2>1, <2>2, <2>3 DEF SnapshotInv, Holders, CensusInv, TypeOK
<1>7. QED
  BY <1>5, <1>6

\* The one thread that has a copy to complete resolves it.
LEMMA ResolveKeepsSnapshots ==
  ASSUME SnapshotInv, CensusInv, NEW t \in Threads, Resolve(t)
  PROVE  SnapshotInv'
<1> DEFINE s == ending[t].sample
<1>1. /\ pc[t] = "resolve" /\ pc' = [pc EXCEPT ![t] = "game"] /\ UNCHANGED pending
      /\ ending' = [ending EXCEPT ![t] = Inactive] /\ s \in Slots /\ UNCHANGED slot
  BY DEF Resolve, Goto, CensusInv, Known
<1>2. ~pending[t].claimed /\ ~Inactive.claimed
  BY <1>1 DEF SnapshotInv, Holders, Inactive
<1>3. CASE ending[t].claimed
  <2>1. Holds(t, s) /\ s \in WritingSlots /\ \A u \in Threads : Holds(u, s) => u = t
    BY <1>3 DEF SnapshotInv, Holders, Holds
  <2>2. PICK new \in {Complete, Failed} :
          /\ snapshotState' = [snapshotState EXCEPT ![s] = new]
          /\ new = Complete => Count({"gDestinationSnapshotSuccesses"})
          /\ new = Failed => Count({"gDestinationSnapshotFailures"})
    BY <1>3 DEF Resolve, Complete, Failed
  <2>3. WritingSlots' = WritingSlots \ {s}
    BY <1>1, <2>2 DEF WritingSlots, CensusInv, TypeOK, Writing, Complete, Failed
  <2>4. Attempted' = Attempted /\ Uncounted' = Uncounted
    BY <1>1, <2>1, <2>2 DEF Attempted, Uncounted, WritingSlots, CensusInv, TypeOK, Unclaimed,
      Writing, Complete, Failed
  <2>5. Held' = Held \ {t} /\ t \in Held
    BY <1>1, <1>2, <1>3 DEF Held, CensusInv, TypeOK
  <2>6. /\ Cardinality(WritingSlots') = Cardinality(WritingSlots) - 1
        /\ Cardinality(Held') = Cardinality(Held) - 1
    BY <2>1, <2>3, <2>5, HolderCounts, OneLess
  <2>7. /\ total'["gDestinationSnapshotAttempts"] = total["gDestinationSnapshotAttempts"]
        /\ total'["gPayloadPendingOverwriteCalls"] = total["gPayloadPendingOverwriteCalls"]
        /\ total'["gDestinationSnapshotSuccesses"] + total'["gDestinationSnapshotFailures"]
             = total["gDestinationSnapshotSuccesses"]
                 + total["gDestinationSnapshotFailures"] + 1
        /\ total'["gDestinationSnapshotSuccesses"] \in Nat
        /\ total'["gDestinationSnapshotFailures"] \in Nat
    <3>1. CASE Count({"gDestinationSnapshotSuccesses"})
      BY <3>1, Counting DEF CensusInv, Counters
    <3>2. CASE Count({"gDestinationSnapshotFailures"})
      BY <3>2, Counting DEF CensusInv, Counters
    <3>3. QED
      BY <2>2, <3>1, <3>2
  <2>8. SnapshotsAddUp'
    BY <2>4, <2>6, <2>7, SnapshotCounters, HolderCounts
      DEF SnapshotInv, SnapshotsAddUp, CensusInv
  <2>9. \A u \in Threads : \A r : Holds(u, r)' => Holds(u, r) /\ u # t
    BY <1>1, <1>2 DEF Holds, Copying, CensusInv, TypeOK
  <2>10. Holders'
    BY <1>1, <1>2, <2>1, <2>3, <2>9 DEF SnapshotInv, Holders, CensusInv, TypeOK
  <2>11. QED
    BY <2>8, <2>10 DEF SnapshotInv
<1>4. CASE ~ending[t].claimed
  <2>1. UNCHANGED <<snapshotState, total>>
    BY <1>4 DEF Resolve
  <2>2. Attempted' = Attempted /\ WritingSlots' = WritingSlots /\ Uncounted' = Uncounted
    BY <1>1, <2>1 DEF Attempted, WritingSlots, Uncounted, CensusInv, TypeOK
  <2>3. Held' = Held /\ \A u \in Threads : \A r : Holds(u, r)' <=> Holds(u, r)
    BY <1>1, <1>2, <1>4 DEF Held, Holds, Copying, CensusInv, TypeOK
  <2>4. Holders'
    BY <1>1, <1>2, <2>2, <2>3 DEF SnapshotInv, Holders, CensusInv, TypeOK
  <2>5. QED
    BY <2>1, <2>2, <2>3, <2>4 DEF SnapshotInv, SnapshotsAddUp
<1>5. QED
  BY <1>3, <1>4

LEMMA CountsInductive ==
  ASSUME CensusInv, CallsInv, SnapshotInv, [Next]_vars
  PROVE  CallsInv' /\ SnapshotInv'
<1>1. ASSUME NEW t \in Threads, NEW d \in Descriptors, HelperBegin(t, d)
      PROVE  CallsInv' /\ SnapshotInv'
  BY <1>1, BeginKeepsCalls, BeginKeepsSnapshots
<1>2. ASSUME NEW t \in Threads, RecordDescriptor(t)
      PROVE  CallsInv' /\ SnapshotInv'
  BY <1>2, RecordKeepsSnapshots, ScanKeepsCalls, ClaimKeepsCalls, FillKeepsCalls,
    PublishKeepsCalls, UpdateKeepsCalls DEF RecordDescriptor
<1>3. ASSUME NEW t \in Threads, CopyDestination(t)
      PROVE  CallsInv' /\ SnapshotInv'
  BY <1>3, RestKeepsCalls, ClaimKeepsSnapshots, ReadKeepsSnapshots, SpoilKeepsSnapshots,
    PassKeepsSnapshots DEF CopyDestination
<1>4. ASSUME NEW t \in Threads, RecordEnd(t)
      PROVE  CallsInv' /\ SnapshotInv'
  BY <1>4, RestKeepsCalls, PassKeepsSnapshots, RecordKeepsSnapshots, ResolveKeepsSnapshots
    DEF RecordEnd
<1>5. CASE UNCHANGED vars
  <2>1. UNCHANGED <<key, calls, snapshotState, pc, slot, pending, ending, total>>
    BY <1>5 DEF vars, table
  <2>2. CallsInv'
    BY <2>1 DEF CallsInv, CallsAddUp, CountedCalls, Counted, Between
  <2>3. SnapshotInv'
    BY <2>1 DEF SnapshotInv, Holders, Holds, Copying, WritingSlots, SnapshotsAddUp,
      Attempted, Held, Uncounted
  <2>4. QED
    BY <2>2, <2>3
<1>6. QED
  BY <1>1, <1>2, <1>3, <1>4, <1>5 DEF Next

\* NothingLost: whatever threads scan and fill the table at once, every helper
\* call is counted in one slot or as an overflow once it has been to the table,
\* and every copy of a destination that was begun is completed, failed, still
\* held by the one thread that claimed it, or was overwritten by a call inside
\* the call; from the exchanges of recordDescriptor and of the snapshot's state.
THEOREM NothingLost == Spec => []CountsAddUp
<1>1. Init => CensusInv /\ CallsInv /\ SnapshotInv
  BY InitialCensus, InitialCalls, InitialSnapshots
<1>2. CensusInv /\ CallsInv /\ SnapshotInv /\ [Next]_vars
        => (CensusInv /\ CallsInv /\ SnapshotInv)'
  BY CensusInductive, CountsInductive
<1>3. CensusInv /\ CallsInv /\ SnapshotInv => CountsAddUp
  BY DEF CallsInv, SnapshotInv, CountsAddUp
<1>4. QED
  BY <1>1, <1>2, <1>3, PTL DEF Spec
=============================================================================
