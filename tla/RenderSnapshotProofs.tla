------------------------ MODULE RenderSnapshotProofs ------------------------
(***************************************************************************)
(* Proofs about the snapshot protocol, for any number of readers, fields,  *)
(* attempts and publications: a counter that is even and unchanged between *)
(* the two loads proves that no store fell between them, provided that the *)
(* field loads stay between them too (LoadsOrdered).                       *)
(***************************************************************************)
EXTENDS RenderSnapshot, TLAPS

\* What memory holds while, and while no, publication is under way.
WriterInv ==
  /\ Publishing => \A f \in Fields :
       field[f] = IF f \in pending THEN current ELSE published
  /\ ~Publishing =>
       pending = {} /\ current = published /\ \A f \in Fields : field[f] = current

\* A call of renderSnapshot has attempts left; its candidates hold the
\* publication that is current.
CallInv ==
  \A r \in Readers :
    /\ step[r] = "idle" => candidates[r] = {}
    /\ step[r] # "idle" => current \in candidates[r] /\ attempt[r] < MaxAttempts
    /\ step[r] # "load" => after[r] = Unread /\ got[r] = Nothing

\* What an attempt knows: while the counter is unchanged every field it loaded
\* is of the current publication, and once the second load found it unchanged
\* all of them are of one publication that was current during the call.
AttemptInv ==
  \A r \in Readers : step[r] = "load" =>
    /\ Even(before[r]) /\ before[r] <= sequence
    /\ sequence = before[r] =>
         \A f \in Fields : got[r][f] \in {Unread, current}
    /\ after[r] # Unread =>
         /\ Complete(r) /\ after[r] <= sequence
         /\ after[r] = before[r] =>
              \E p \in candidates[r] : \A f \in Fields : got[r][f] = p

IInv == TypeOK /\ WriterInv /\ CallInv /\ AttemptInv /\ NoTornSnapshot

USE FieldsAssumption, AttemptsAssumption, LoadsOrderedAssumption, SnapshotBounds

\* The counter alternates between even and odd.
LEMMA Parity ==
  ASSUME NEW n \in Nat
  PROVE  Even(n + 1) <=> ~Even(n)
BY DEF Even

\* Fields that agree on a number have that number as their payload.
LEMMA AgreedPayload ==
  ASSUME NEW r \in Readers, NEW p, \A f \in Fields : got[r][f] = p
  PROVE  Payload(r) = p
<1>1. {got[r][f] : f \in Fields} = {p}
  OBVIOUS
<1> QED BY <1>1 DEF Payload

LEMMA InitIInv == Init => IInv
BY DEF Init, IInv, TypeOK, WriterInv, CallInv, AttemptInv, NoTornSnapshot,
       Publications, Nothing, Publishing, Even, Unread, Incoherent, Torn, ReaderSteps

\* The writer cannot disturb an attempt without moving the counter past the
\* value the attempt started from.
LEMMA WriterKeepsIInv ==
  ASSUME IInv, Writer \/ Restart
  PROVE  IInv'
<1> USE DEF IInv, TypeOK, Publications, NoTornSnapshot, memory, reading
<1>1. CASE BeginPublish
  <2>1. sequence' = sequence + 1 /\ ~Publishing /\ Publishing'
    BY <1>1, Parity DEF BeginPublish, Publishing
  <2>2. TypeOK' /\ NoTornSnapshot'
    BY <1>1 DEF BeginPublish
  <2>3. WriterInv'
    BY <1>1, <2>1 DEF BeginPublish, WriterInv
  <2>4. CallInv' /\ AttemptInv'
    BY <1>1, <2>1 DEF BeginPublish, CallInv, AttemptInv, Complete
  <2> QED BY <2>2, <2>3, <2>4
<1>2. ASSUME NEW f \in Fields, StoreField(f)
      PROVE  IInv'
  <2>1. Publishing /\ Publishing'
    BY <1>2 DEF StoreField, WriterInv, Publishing
  <2>2. TypeOK' /\ NoTornSnapshot'
    BY <1>2 DEF StoreField
  <2>3. WriterInv'
    BY <1>2, <2>1 DEF StoreField, WriterInv
  <2>4. CallInv' /\ AttemptInv'
    BY <1>2 DEF StoreField, CallInv, AttemptInv, Complete
  <2> QED BY <2>2, <2>3, <2>4
<1>3. CASE EndPublish
  <2>1. sequence' = sequence + 1 /\ Publishing /\ ~Publishing'
    BY <1>3, Parity DEF EndPublish, Publishing
  <2>2. TypeOK' /\ NoTornSnapshot'
    BY <1>3 DEF EndPublish
  <2>3. WriterInv'
    BY <1>3, <2>1 DEF EndPublish, WriterInv
  <2>4. CallInv'
    BY <1>3 DEF EndPublish, CallInv
  <2>5. AttemptInv'
    BY <1>3, <2>1 DEF EndPublish, AttemptInv, Complete
  <2> QED BY <2>2, <2>3, <2>4, <2>5
<1>4. CASE Restart
  <2>1. ~Publishing /\ Publishing'
    BY <1>4 DEF Restart, Publishing, Even
  <2>2. TypeOK' /\ NoTornSnapshot'
    BY <1>4 DEF Restart
  <2>3. WriterInv'
    BY <1>4, <2>1 DEF Restart, WriterInv
  <2>4. CallInv' /\ AttemptInv'
    BY <1>4 DEF Restart, CallInv, AttemptInv, Complete
  <2> QED BY <2>2, <2>3, <2>4
<1> QED BY <1>1, <1>2, <1>3, <1>4 DEF Writer

\* An attempt that accepts returns a publication of its candidates.
LEMMA AcceptedIsCandidate ==
  ASSUME IInv, LoadsOrdered, NEW r \in Readers, Accept(r)
  PROVE  Payload(r) \in candidates[r] /\ Payload(r) \in Publications
<1>1. PICK p \in candidates[r] : \A f \in Fields : got[r][f] = p
  BY DEF Accept, IInv, AttemptInv
<1>2. Payload(r) = p
  BY <1>1, AgreedPayload
<1> QED BY <1>1, <1>2 DEF IInv, TypeOK

LEMMA ReaderKeepsIInv ==
  ASSUME IInv, LoadsOrdered, NEW r \in Readers, Call(r) \/ ReadStep(r)
  PROVE  IInv'
<1> USE DEF IInv, TypeOK, Publications, ReaderSteps, NoTornSnapshot, memory,
            Unread, Incoherent, Torn
<1>1. CASE Call(r)
  <2>1. TypeOK' /\ WriterInv' /\ NoTornSnapshot'
    BY <1>1 DEF Call, WriterInv, Publishing
  <2>2. CallInv' /\ AttemptInv'
    BY <1>1 DEF Call, CallInv, AttemptInv, Complete
  <2> QED BY <2>1, <2>2
<1>2. CASE LoadBefore(r)
  <2>1. TypeOK' /\ WriterInv' /\ NoTornSnapshot'
    BY <1>2 DEF LoadBefore, WriterInv, Publishing
  <2>2. CallInv'
    BY <1>2 DEF LoadBefore, CallInv
  <2>3. AttemptInv'
    BY <1>2 DEF LoadBefore, AttemptInv, CallInv, Complete, Nothing
  <2> QED BY <2>1, <2>2, <2>3
<1>3. CASE WriterBusy(r)
  <2>1. TypeOK' /\ WriterInv' /\ NoTornSnapshot'
    <3>1. step[r] # "idle" /\ attempt[r] + 1 \in 0 .. MaxAttempts
      BY <1>3 DEF WriterBusy, CallInv
    <3>2. WriterInv'
      BY <1>3 DEF WriterBusy, TryAgain, Return, WriterInv, Publishing
    <3>3. CASE attempt[r] + 1 < MaxAttempts
      BY <1>3, <3>1, <3>2, <3>3 DEF WriterBusy, TryAgain
    <3>4. CASE ~(attempt[r] + 1 < MaxAttempts)
      <4>1. attempt' \in [Readers -> 0 .. MaxAttempts]
        BY <1>3, <3>1 DEF WriterBusy, TryAgain
      <4>2. Return(r, Incoherent)
        BY <1>3, <3>4 DEF WriterBusy, TryAgain
      <4>3. /\ step' \in [Readers -> ReaderSteps]
            /\ candidates' \in [Readers -> SUBSET Publications]
            /\ result' \in [Readers -> Publications \cup {Incoherent, Torn}]
            /\ NoTornSnapshot'
        BY <4>2 DEF Return
      <4> QED BY <1>3, <3>2, <4>1, <4>3 DEF WriterBusy, TryAgain
    <3> QED BY <3>3, <3>4
  <2>2. CallInv' /\ AttemptInv'
    BY <1>3 DEF WriterBusy, TryAgain, Return, CallInv, AttemptInv, Complete
  <2> QED BY <2>1, <2>2
<1>4. ASSUME NEW f \in Fields, LoadField(r, f)
      PROVE  IInv'
  <2>1. TypeOK' /\ WriterInv' /\ NoTornSnapshot'
    BY <1>4 DEF LoadField, WriterInv, Publishing
  <2>2. CallInv'
    BY <1>4 DEF LoadField, CallInv
  <2>3. after[r] = Unread
    BY <1>4 DEF LoadField, AttemptInv, Complete
  <2>4. sequence = before[r] => field[f] = current
    BY <1>4 DEF LoadField, AttemptInv, WriterInv, Publishing
  <2>5. AttemptInv'
    BY <1>4, <2>3, <2>4 DEF LoadField, AttemptInv, Complete
  <2> QED BY <2>1, <2>2, <2>5
<1>5. CASE LoadAfter(r)
  <2>1. TypeOK' /\ WriterInv' /\ NoTornSnapshot'
    BY <1>5 DEF LoadAfter, WriterInv, Publishing
  <2>2. CallInv'
    BY <1>5 DEF LoadAfter, CallInv
  <2>3. Complete(r) /\ current \in candidates[r]
    BY <1>5 DEF LoadAfter, CallInv
  <2>4. AttemptInv'
    BY <1>5, <2>3 DEF LoadAfter, AttemptInv, Complete
  <2> QED BY <2>1, <2>2, <2>4
<1>6. CASE Accept(r)
  <2>1. Payload(r) \in Publications
    BY <1>6, AcceptedIsCandidate
  <2>2. TypeOK' /\ WriterInv' /\ NoTornSnapshot'
    BY <1>6, <2>1 DEF Accept, Return, Forget, Nothing, WriterInv, Publishing
  <2>3. CallInv' /\ AttemptInv'
    BY <1>6 DEF Accept, Return, Forget, CallInv, AttemptInv, Complete
  <2> QED BY <2>2, <2>3
<1>7. CASE Reject(r)
  <2>1. TypeOK' /\ WriterInv' /\ NoTornSnapshot'
    <3>1. step[r] # "idle" /\ attempt[r] + 1 \in 0 .. MaxAttempts
      BY <1>7 DEF Reject, CallInv
    <3>2. WriterInv'
      BY <1>7 DEF Reject, TryAgain, Return, Forget, Nothing, WriterInv, Publishing
    <3>3. CASE attempt[r] + 1 < MaxAttempts
      BY <1>7, <3>1, <3>2, <3>3 DEF Reject, TryAgain, Forget, Nothing
    <3>4. CASE ~(attempt[r] + 1 < MaxAttempts)
      <4>1. attempt' \in [Readers -> 0 .. MaxAttempts]
        BY <1>7, <3>1 DEF Reject, TryAgain
      <4>2. Return(r, Incoherent)
        BY <1>7, <3>4 DEF Reject, TryAgain
      <4>3. /\ step' \in [Readers -> ReaderSteps]
            /\ candidates' \in [Readers -> SUBSET Publications]
            /\ result' \in [Readers -> Publications \cup {Incoherent, Torn}]
            /\ NoTornSnapshot'
        BY <4>2 DEF Return
      <4> QED BY <1>7, <3>2, <4>1, <4>3 DEF Reject, TryAgain, Forget, Nothing
    <3> QED BY <3>3, <3>4
  <2>2. CallInv' /\ AttemptInv'
    BY <1>7 DEF Reject, TryAgain, Return, Forget, CallInv, AttemptInv, Complete
  <2> QED BY <2>1, <2>2
<1> QED BY <1>1, <1>2, <1>3, <1>4, <1>5, <1>6, <1>7 DEF ReadStep

LEMMA NextIInv ==
  ASSUME IInv, LoadsOrdered, [Next]_vars
  PROVE  IInv'
<1>1. CASE UNCHANGED vars
  BY <1>1 DEF vars, memory, reading, IInv, TypeOK, WriterInv, CallInv,
     AttemptInv, NoTornSnapshot, Publishing, Complete
<1> QED BY <1>1, WriterKeepsIInv, ReaderKeepsIInv DEF Next

THEOREM Invariance ==
  ASSUME LoadsOrdered
  PROVE  Spec => []IInv
<1>1. IInv /\ [Next]_vars => IInv'
  BY NextIInv
<1> QED BY <1>1, InitIInv, PTL DEF Spec

\* With the loads in order, a snapshot that says it is coherent holds the
\* fields of one publication (renderSnapshot, PhysicsScheduler.cpp).
THEOREM SnapshotIsWhole ==
  ASSUME LoadsOrdered
  PROVE  Spec => []NoTornSnapshot
<1>1. IInv => NoTornSnapshot
  BY DEF IInv
<1> QED BY <1>1, Invariance, PTL

\* The protocol keeps its types: the loop of renderSnapshot makes at most
\* MaxAttempts attempts.
THEOREM TypeCorrect ==
  ASSUME LoadsOrdered
  PROVE  Spec => []TypeOK
<1>1. IInv => TypeOK
  BY DEF IInv
<1> QED BY <1>1, Invariance, PTL
-----------------------------------------------------------------------------
(***************************************************************************)
(* The protocol implements the register.                                   *)
(***************************************************************************)
LEMMA InitRefines == Init => Register!Init
BY DEF Init, Register!Init

LEMMA StepRefines ==
  ASSUME IInv, LoadsOrdered, [Next]_vars
  PROVE  [Register!Next]_(Register!vars)
<1> USE DEF Register!vars
<1>1. CASE UNCHANGED vars
  BY <1>1 DEF vars
<1>2. CASE BeginPublish \/ Restart \/ \E f \in Fields : StoreField(f)
  BY <1>2 DEF BeginPublish, Restart, StoreField
<1>3. CASE EndPublish
  <2>1. published \in Publications
    BY DEF IInv, TypeOK
  <2>2. \A r \in Readers : Register!Reading(r) <=> step[r] # "idle"
    BY DEF IInv, CallInv, Register!Reading
  <2>3. Register!Publish(published)
    BY <1>3, <2>2 DEF EndPublish, Register!Publish
  <2> QED BY <2>1, <2>3 DEF Register!Next
<1>4. ASSUME NEW r \in Readers, Call(r)
      PROVE  Register!Next
  <2>1. Register!BeginRead(r)
    BY <1>4 DEF Call, Register!BeginRead, Register!Reading, IInv, CallInv
  <2> QED BY <2>1 DEF Register!Next
<1>5. ASSUME NEW r \in Readers, LoadBefore(r) \/ LoadAfter(r)
                                  \/ \E f \in Fields : LoadField(r, f)
      PROVE  UNCHANGED Register!vars
  BY <1>5 DEF LoadBefore, LoadAfter, LoadField
<1>6. ASSUME NEW r \in Readers, NEW p \in candidates[r] \cup {Incoherent},
             step[r] # "idle", Return(r, p), UNCHANGED current
      PROVE  Register!Next
  <2>1. Register!EndRead(r)
    BY <1>6 DEF Return, Register!EndRead, Register!Reading, IInv, CallInv
  <2> QED BY <2>1 DEF Register!Next
<1>7. ASSUME NEW r \in Readers, Accept(r)
      PROVE  Register!Next
  BY <1>7, <1>6, AcceptedIsCandidate DEF Accept
<1>8. ASSUME NEW r \in Readers, WriterBusy(r) \/ Reject(r)
      PROVE  [Register!Next]_(Register!vars)
  <2>1. CASE attempt[r] + 1 < MaxAttempts
    BY <1>8, <2>1 DEF WriterBusy, Reject, TryAgain
  <2>2. CASE ~(attempt[r] + 1 < MaxAttempts)
    BY <1>8, <2>2, <1>6 DEF WriterBusy, Reject, TryAgain
  <2> QED BY <2>1, <2>2
<1> QED
  BY <1>1, <1>2, <1>3, <1>4, <1>5, <1>7, <1>8 DEF Next, Writer, ReadStep

\* A coherent read returns a publication that was current at some moment of
\* the call (publishRenderSnapshot and renderSnapshot, PhysicsScheduler.cpp).
THEOREM ImplementsRegister ==
  ASSUME LoadsOrdered
  PROVE  Spec => RegisterSpec
<1>1. IInv /\ [Next]_vars => [Register!Next]_(Register!vars)
  BY StepRefines
<1> QED
  BY <1>1, Invariance, InitRefines, PTL DEF Spec, RegisterSpec, Register!Spec
=============================================================================
