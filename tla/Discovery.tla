------------------------------- MODULE Discovery -------------------------------
(***************************************************************************)
(* The two parts that look for the game's methods at run time: the static  *)
(* scan of the heartbeat hook, and the probes on slots of its vtables.     *)
(* They share no state, so a behaviour is about one part and leaves the    *)
(* variables of the other as they start.                                   *)
(***************************************************************************)
EXTENDS VtableProbes

CONSTANTS               \* of the scan, as in StaticScan
  Regions, Memories, Target, ImmediateBits, SmallScalars, MaxRecorded,
  MaxCandidates, MaxWalk, Window, Radius, Stride

\* cancellationCheckStride is a whole number of words, of pointers too.
ASSUME StrideAssumption == Stride \in Nat /\ Stride # 0 /\ Stride % 8 = 0

VARIABLES
  part,                 \* the part this behaviour is about
  memory, stopRequested, pc, at, discovery, slice, report, readsAfterStop

scanVars == <<memory, stopRequested, pc, at, discovery, slice, report, readsAfterStop>>

Scan == INSTANCE StaticScan

ASSUME LimitAssumption == {MaxRecorded, MaxCandidates, MaxWalk} \subseteq Nat

\* The module map lists the regions of the game by their addresses, and no two of them
\* overlap; a game has an instruction, or a pointer, at every address a loop reads.
ASSUME ModuleAssumption ==
  /\ Regions \in Seq([start : Nat, end : Nat, readable : BOOLEAN, executable : BOOLEAN])
  /\ \A j, k \in DOMAIN Regions : j < k => Regions[j].end <= Regions[k].start
  /\ \A m \in Memories : /\ DOMAIN m.code = Scan!Addresses("branches")
                         /\ DOMAIN m.data = Scan!Addresses("pointers")

DiscoveryInit ==
  /\ Init
  /\ Scan!Init
  /\ \/ part = "scan" /\ kind = "v3"
     \/ part = "probes" /\ memory = CHOOSE m \in Memories : TRUE

DiscoveryNext ==
  \/ part = "scan" /\ Scan!Next /\ UNCHANGED <<part, vars>>
  \/ part = "probes" /\ Next /\ UNCHANGED <<part, scanVars>>

DiscoverySpec == DiscoveryInit /\ [][DiscoveryNext]_<<part, vars, scanVars>>

\* The invariants of the scan, by their names in StaticScan.
ScanIsFaithful == part = "scan" => Scan!ScanIsFaithful
StopIsPrompt == Scan!StopIsPrompt
=============================================================================
