-------------------------- MODULE SnapshotRegister --------------------------
(***************************************************************************)
(* What a snapshot published to render threads promises: a read returns    *)
(* one complete publication that was current at some moment of the read,   *)
(* or says that it has none.                                               *)
(***************************************************************************)
CONSTANTS
  Readers,
  Payloads,     \* complete publications
  NoPayload,    \* a read that returned nothing coherent: no payload
  Empty         \* the payload before the first publication

VARIABLES
  current,      \* the publication a new read would see
  candidates,   \* per reader in a read: the publications current since it began
  result        \* per reader: what its last read returned

vars == <<current, candidates, result>>

Reading(r) == candidates[r] # {}

Init ==
  /\ current = Empty
  /\ candidates = [r \in Readers |-> {}]
  /\ result = [r \in Readers |-> NoPayload]

Publish(p) ==
  /\ current' = p
  /\ candidates' = [r \in Readers |->
                      IF Reading(r) THEN candidates[r] \cup {p} ELSE {}]
  /\ UNCHANGED result

BeginRead(r) ==
  /\ ~Reading(r)
  /\ candidates' = [candidates EXCEPT ![r] = {current}]
  /\ UNCHANGED <<current, result>>

EndRead(r) ==
  /\ Reading(r)
  /\ \E p \in candidates[r] \cup {NoPayload} :
       result' = [result EXCEPT ![r] = p]
  /\ candidates' = [candidates EXCEPT ![r] = {}]
  /\ UNCHANGED current

Next ==
  \/ \E p \in Payloads : Publish(p)
  \/ \E r \in Readers : BeginRead(r) \/ EndRead(r)

Spec == Init /\ [][Next]_vars
=============================================================================
