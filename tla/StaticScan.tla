----------------------------- MODULE StaticScan -----------------------------
(***************************************************************************)
(* The sampler thread of HeartbeatHook: scanStaticReferences() looks in    *)
(* the game's mapped regions for direct branches to the hooked function,   *)
(* for pointers to it, for the tables those pointers stand in, and for     *)
(* calls through the slots of those tables; then the thread samples until  *)
(* uninstall() stops it.  Addresses are bytes; an instruction is 4 bytes,  *)
(* a pointer 8, and the bytes of the game are read-only input.             *)
(*                                                                         *)
(* A step of the thread is one turn of one of the four loops.  The stop    *)
(* flag may be set between any two of them.                                *)
(***************************************************************************)
EXTENDS Integers, SequencesExt

CONSTANTS
  Regions,               \* the mapped regions, in the order of the module map
  Memories,              \* the contents to scan: [code |-> ..., data |-> ...]
  Target,                \* discovery.targetAddress
  ImmediateBits,         \* width of a branch's immediate (26 in the source)
  SmallScalars,          \* values below it are small scalars (4096)
  MaxRecorded,           \* maximumRecordedReferences (256)
  MaxCandidates,         \* maximumDispatchCandidates (32)
  MaxWalk,               \* maximumTableWalkEntries (512)
  Window,                \* indirectSearchInstructionWindow (4)
  Radius,                \* neighbourRadius (8)
  Stride,                \* cancellationCheckStride (1 MiB)
  Slices                 \* slices between two samples (20)

VARIABLES
  memory,                \* the game's bytes, as instructions and as pointers
  stopRequested,         \* mStopRequested
  pc,                    \* the loop the thread is in
  at,                    \* [table, region, address]: its loop variables
  discovery,             \* *mDiscovery
  slice,                 \* slices of 100 ms slept since the last sample
  report,                \* phase of the last discovery profile written
  readsAfterStop         \* history: bytes the scan read after the stop request

vars == <<memory, stopRequested, pc, at, discovery, slice, report, readsAfterStop>>
sampling == <<slice, report>>

-----------------------------------------------------------------------------
(* Decoding.                                                               *)

Insn == 4
Pointer == 8

AlignUp(value, alignment) == ((value + alignment - 1) \div alignment) * alignment

\* The immediate is sign-extended and counts instructions.
BranchDestination(address, imm) ==
  LET signed == IF imm >= 2^(ImmediateBits - 1) THEN imm - 2^ImmediateBits ELSE imm
  IN  address + signed * Insn

IsLoad(i) == i.op = "ldr"
IsRegisterBranch(i) == i.op \in {"br", "blr"}

Containing(address) ==
  {k \in DOMAIN Regions : Regions[k].start <= address /\ address < Regions[k].end}

PointsToCode(value) ==
  \E k \in Containing(value) :
    /\ \A j \in Containing(value) : k <= j
    /\ Regions[k].readable /\ Regions[k].executable

Kind(value) ==
  CASE value = 0 -> "null"
    [] value > 0 /\ value < SmallScalars -> "small_scalar"
    [] value >= SmallScalars /\ Containing(value) = {} -> "outside_module"
    [] OTHER -> LET r == Regions[Min(Containing(value))]
                IN  CASE r.readable /\ r.executable -> "module_executable"
                      [] r.readable /\ ~r.executable -> "module_readable_data"
                      [] OTHER -> "module_other"

-----------------------------------------------------------------------------
(* The third loop: the run of code pointers around one recorded pointer.   *)

\* `n' entries before `p' that the walk back has passed.
WalkBack(p, r) ==
  LET stops[n \in 0..MaxWalk] ==
        IF \/ n = MaxWalk
           \/ p - n * Pointer < r.start + Pointer
           \/ ~PointsToCode(memory.data[p - (n + 1) * Pointer])
        THEN n ELSE stops[n + 1]
  IN  p - stops[0] * Pointer

WalkOn(p, r) ==
  LET stops[n \in 0..MaxWalk] ==
        IF \/ n = MaxWalk
           \/ p + (n + 1) * Pointer > r.end - Pointer
           \/ ~PointsToCode(memory.data[p + (n + 1) * Pointer])
        THEN n ELSE stops[n + 1]
  IN  p + (stops[0] + 1) * Pointer

Neighbours(p, r) ==
  LET inside == {i \in -Radius..Radius :
                   /\ p + i * Pointer >= r.start
                   /\ p + i * Pointer <= r.end - Pointer}
  IN  [i \in inside |-> Kind(memory.data[p + i * Pointer])]

TableOf(p) ==
  LET r     == Regions[Min(Containing(p))]
      first == WalkBack(p, r)
      end   == WalkOn(p, r)
  IN  [pointer |-> p, runStart |-> first, runEnd |-> end,
       offset |-> p - first, neighbours |-> Neighbours(p, r),
       vtableLike |-> (end - first) \div Pointer >= 3]

-----------------------------------------------------------------------------
(* The fourth loop: a load from the slot, a branch to what it loaded, and  *)
(* the load of the vtable before it.                                       *)

NearestIn(distances) == IF distances = {} THEN 0 ELSE Min(distances)

\* Distance to the first branch through `i's register, 0 if there is none.
BranchAfter(a, i, r) ==
  NearestIn({n \in 1..Window :
    /\ a + n * Insn <= r.end - Insn
    /\ LET j == memory.code[a + n * Insn] IN IsRegisterBranch(j) /\ j.rn = i.rt})

\* Distance back to the nearest load of `i's base register from an object.
VtableLoadBefore(a, i, r) ==
  NearestIn({n \in 1..Window :
    /\ a >= r.start + n * Insn
    /\ LET j == memory.code[a - n * Insn] IN IsLoad(j) /\ j.rt = i.rn /\ j.off = 0})

IsSlotCall(a, r, offset) ==
  LET i == memory.code[a]
  IN  /\ IsLoad(i) /\ i.off = offset
      /\ BranchAfter(a, i, r) # 0
      /\ VtableLoadBefore(a, i, r) # 0

CallAt(a, r, offset) ==
  LET i == memory.code[a]
      after == BranchAfter(a, i, r)
      before == VtableLoadBefore(a, i, r)
  IN  [address |-> a, offset |-> offset, function |-> i.rt, vtable |-> i.rn,
       object |-> memory.code[a - before * Insn].rn, loadDistance |-> before,
       branchDistance |-> after, link |-> memory.code[a + after * Insn].op = "blr"]

-----------------------------------------------------------------------------

Nothing ==
  [branches |-> <<>>, branchCount |-> 0, pointers |-> <<>>, pointerCount |-> 0,
   tables |-> <<>>, calls |-> <<>>, callCount |-> 0, cancelled |-> FALSE,
   complete |-> FALSE,
   scanned |-> [branches |-> 0, pointers |-> 0, calls |-> 0]]

Init ==
  /\ memory \in Memories
  /\ stopRequested = FALSE
  /\ pc = "branches"
  /\ at = [table |-> 0, region |-> 1, address |-> -1]
  /\ discovery = Nothing
  /\ slice = 0
  /\ report = "scanning"
  /\ readsAfterStop = 0

RecordUpTo(list, entry) == IF Len(list) < MaxRecorded THEN Append(list, entry) ELSE list

Unit(loop) == IF loop = "pointers" THEN Pointer ELSE Insn

Wanted(loop, r) ==
  /\ r.readable
  /\ r.executable = (loop # "pointers")
  /\ r.end - r.start >= Unit(loop)

-----------------------------------------------------------------------------
(* The loop over regions and the loop over one region.  address is -1      *)
(* between two regions.                                                    *)

InRegions(loop) == pc = loop /\ at.region <= Len(Regions)

Scanning(loop) ==
  /\ InRegions(loop)
  /\ loop = "calls" => at.table \in DOMAIN discovery.tables

Cancel ==
  /\ discovery' = [discovery EXCEPT !.cancelled = TRUE]
  /\ pc' = "finish"
  /\ UNCHANGED <<memory, stopRequested, sampling, at, readsAfterStop>>

CancelAtRegion(loop) ==
  /\ Scanning(loop) /\ at.address = -1
  /\ stopRequested
  /\ Cancel

SkipRegion(loop) ==
  /\ Scanning(loop) /\ at.address = -1
  /\ ~stopRequested
  /\ ~Wanted(loop, Regions[at.region])
  /\ at' = [at EXCEPT !.region = @ + 1]
  /\ UNCHANGED <<memory, stopRequested, sampling, pc, discovery, readsAfterStop>>

EnterRegion(loop) ==
  /\ Scanning(loop) /\ at.address = -1
  /\ ~stopRequested
  /\ Wanted(loop, Regions[at.region])
  /\ at' = [at EXCEPT !.address = AlignUp(Regions[at.region].start, Unit(loop))]
  /\ UNCHANGED <<memory, stopRequested, sampling, pc, discovery, readsAfterStop>>

RegionEnds(loop) ==
  /\ Scanning(loop) /\ at.address > Regions[at.region].end - Unit(loop)
  /\ at' = [at EXCEPT !.region = @ + 1, !.address = -1]
  /\ UNCHANGED <<memory, stopRequested, sampling, pc, discovery, readsAfterStop>>

AtWord(loop) ==
  /\ Scanning(loop) /\ at.address # -1
  /\ at.address <= Regions[at.region].end - Unit(loop)

\* Mutant: only the first word of a loop looks at the stop flag.
ChecksStopOnce(loop) == discovery.scanned[loop] = 0

ChecksStop(loop) == discovery.scanned[loop] % Stride = 0

CancelAtWord(loop) ==
  /\ AtWord(loop)
  /\ ChecksStop(loop) /\ stopRequested
  /\ Cancel

\* The word is read and counted, and `found' is what the scan knows after it.
Read(loop, found) ==
  /\ AtWord(loop)
  /\ ~(ChecksStop(loop) /\ stopRequested)
  /\ discovery' = [found EXCEPT !.scanned[loop] = @ + Unit(loop)]
  /\ at' = [at EXCEPT !.address = @ + Unit(loop)]
  /\ readsAfterStop' = IF stopRequested THEN readsAfterStop + Unit(loop) ELSE 0
  /\ UNCHANGED <<memory, stopRequested, sampling, pc>>

\* The next loop starts, with its first region or its first table.
LoopEnds(loop, next, table) ==
  /\ pc = loop /\ at.region = Len(Regions) + 1
  /\ pc' = next
  /\ at' = [table |-> table, region |-> 1, address |-> -1]
  /\ UNCHANGED <<memory, stopRequested, sampling, discovery, readsAfterStop>>

-----------------------------------------------------------------------------
(* The four loops of scanStaticReferences().                               *)

BranchesAfter(a, d) ==
  LET i == memory.code[a]
  IN  IF i.op \in {"b", "bl"} /\ BranchDestination(a, i.imm) = Target
      THEN [d EXCEPT !.branchCount = @ + 1,
                     !.branches = RecordUpTo(@, [address |-> a, link |-> i.op = "bl"])]
      ELSE d

ScanBranches ==
  \/ CancelAtRegion("branches") \/ SkipRegion("branches") \/ EnterRegion("branches")
  \/ CancelAtWord("branches") \/ RegionEnds("branches")
  \/ AtWord("branches") /\ Read("branches", BranchesAfter(at.address, discovery))
  \/ LoopEnds("branches", "pointers", 0)

PointersAfter(a, d) ==
  IF memory.data[a] = Target
  THEN [d EXCEPT !.pointerCount = @ + 1, !.pointers = RecordUpTo(@, a)]
  ELSE d

ScanPointers ==
  \/ CancelAtRegion("pointers") \/ SkipRegion("pointers") \/ EnterRegion("pointers")
  \/ CancelAtWord("pointers") \/ RegionEnds("pointers")
  \/ AtWord("pointers") /\ Read("pointers", PointersAfter(at.address, discovery))
  \/ LoopEnds("pointers", "tables", 1)

\* A pointer outside the module's readable data starts no table.
TablesAfter(p, tables) ==
  IF \E k \in Containing(p) : /\ k = Min(Containing(p))
                              /\ Regions[k].readable /\ ~Regions[k].executable
  THEN Append(tables, TableOf(p))
  ELSE tables

\* This loop never looks at the stop flag.
WalkTables ==
  /\ pc = "tables"
  /\ IF at.table <= Min({Len(discovery.pointers), MaxCandidates})
     THEN /\ discovery' = [discovery EXCEPT !.tables =
                             TablesAfter(discovery.pointers[at.table], @)]
          /\ at' = [at EXCEPT !.table = @ + 1]
          /\ pc' = pc
     ELSE /\ pc' = "calls"
          /\ at' = [at EXCEPT !.table = 1]
          /\ UNCHANGED discovery
  /\ UNCHANGED <<memory, stopRequested, sampling, readsAfterStop>>

\* A call is counted for every table that has its slot, and recorded once.
CallsAfter(a, r, t, d) ==
  IF IsSlotCall(a, r, t.offset)
  THEN LET known == \E n \in DOMAIN d.calls :
                      d.calls[n].address = a /\ d.calls[n].offset = t.offset
       IN  [d EXCEPT !.callCount = @ + 1,
                     !.calls = IF known THEN @ ELSE RecordUpTo(@, CallAt(a, r, t.offset))]
  ELSE d

SkipTable ==
  /\ pc = "calls" /\ at.table \in DOMAIN discovery.tables
  /\ at.address = -1 /\ at.region = 1
  /\ ~discovery.tables[at.table].vtableLike
  /\ at' = [at EXCEPT !.table = @ + 1]
  /\ UNCHANGED <<memory, stopRequested, sampling, pc, discovery, readsAfterStop>>

InTable == at.table \in DOMAIN discovery.tables /\ discovery.tables[at.table].vtableLike

ScanCalls ==
  \/ SkipTable
  \/ /\ InTable
     /\ \/ CancelAtRegion("calls") \/ SkipRegion("calls") \/ EnterRegion("calls")
        \/ CancelAtWord("calls") \/ RegionEnds("calls")
        \/ AtWord("calls") /\ Read("calls", CallsAfter(at.address, Regions[at.region],
                                              discovery.tables[at.table], discovery))
        \/ LoopEnds("calls", "calls", at.table + 1)

CallsEnd ==
  /\ pc = "calls" /\ at.table > Len(discovery.tables)
  /\ pc' = "finish"
  /\ UNCHANGED <<memory, stopRequested, sampling, at, discovery, readsAfterStop>>

\* Mutant: a cancelled scan is complete all the same.
FinishScanAlways ==
  /\ pc = "finish"
  /\ discovery' = [discovery EXCEPT !.complete = TRUE]
  /\ report' = IF discovery.cancelled THEN "scan_cancelled" ELSE "scan_complete"
  /\ pc' = "sample"
  /\ UNCHANGED <<memory, stopRequested, at, slice, readsAfterStop>>

FinishScan ==
  /\ pc = "finish"
  /\ discovery' = [discovery EXCEPT !.complete = ~discovery.cancelled]
  /\ report' = IF discovery.cancelled THEN "scan_cancelled" ELSE "scan_complete"
  /\ pc' = "sample"
  /\ UNCHANGED <<memory, stopRequested, at, slice, readsAfterStop>>

-----------------------------------------------------------------------------
(* The sampler's loop, and the end of the thread.                          *)

SleepSlice ==
  /\ pc = "sample" /\ ~stopRequested /\ slice < Slices
  /\ slice' = slice + 1
  /\ UNCHANGED <<memory, stopRequested, pc, at, discovery, report, readsAfterStop>>

Sample ==
  /\ pc = "sample" /\ ~stopRequested /\ slice = Slices
  /\ slice' = 0
  /\ report' = "sampling"
  /\ UNCHANGED <<memory, stopRequested, pc, at, discovery, readsAfterStop>>

SamplerEnds ==
  /\ pc = "sample" /\ stopRequested
  /\ pc' = "done"
  /\ UNCHANGED <<memory, stopRequested, sampling, at, discovery, readsAfterStop>>

Sampler ==
  \/ ScanBranches \/ ScanPointers \/ WalkTables \/ ScanCalls \/ CallsEnd
  \/ FinishScan \/ SleepSlice \/ Sample \/ SamplerEnds

\* uninstall(), on the loader's thread, before it joins the sampler.
RequestStop ==
  /\ ~stopRequested
  /\ stopRequested' = TRUE
  /\ UNCHANGED <<memory, sampling, pc, at, discovery, readsAfterStop>>

Next == Sampler \/ RequestStop

Spec == Init /\ [][Next]_vars

-----------------------------------------------------------------------------
(* What the scan is meant to find, as sets over the whole memory.          *)

\* Where the words stand that a loop reads.
Addresses(loop) ==
  UNION {{a \in Regions[k].start .. Regions[k].end - Unit(loop) : a % Unit(loop) = 0} :
         k \in {j \in DOMAIN Regions : Wanted(loop, Regions[j])}}

Words(loop) ==
  {w \in (DOMAIN Regions) \X (IF loop = "pointers" THEN DOMAIN memory.data
                                                  ELSE DOMAIN memory.code) :
     LET r == Regions[w[1]]
     IN  /\ Wanted(loop, r)
         /\ r.start <= w[2] /\ w[2] + Unit(loop) <= r.end
         /\ w[2] % Unit(loop) = 0}

BranchWords ==
  {w \in Words("branches") :
     LET i == memory.code[w[2]]
     IN  i.op \in {"b", "bl"} /\ BranchDestination(w[2], i.imm) = Target}

PointerWords == {w \in Words("pointers") : memory.data[w[2]] = Target}

SlotCalls ==
  {c \in (DOMAIN discovery.tables) \X Words("calls") :
     /\ discovery.tables[c[1]].vtableLike
     /\ IsSlotCall(c[2][2], Regions[c[2][1]], discovery.tables[c[1]].offset)}

Small(a, b) == IF a < b THEN a ELSE b
Increasing(list, key(_)) ==
  \A m, n \in DOMAIN list : m < n => key(list[m]) < key(list[n])

\* A table is a longest run of pointers to code around its pointer.
IsLongestRun(t) ==
  LET r == Regions[Min(Containing(t.pointer))]
      entries == {a \in DOMAIN memory.data : t.runStart <= a /\ a < t.runEnd}
      longer(a) == /\ r.start <= a /\ a + Pointer <= r.end
                   /\ PointsToCode(memory.data[a])
  IN  /\ \A a \in entries : a = t.pointer \/ PointsToCode(memory.data[a])
      /\ t.offset <= MaxWalk * Pointer
      /\ t.runEnd - t.pointer <= (MaxWalk + 1) * Pointer
      /\ longer(t.runStart - Pointer) => t.offset = MaxWalk * Pointer
      /\ longer(t.runEnd) => t.runEnd - t.pointer = (MaxWalk + 1) * Pointer

(***************************************************************************)
(* HeartbeatHook::scanStaticReferences.  Whatever is recorded is true of   *)
(* the game, in the order of its addresses and without a repetition, and   *)
(* no count exceeds what there is; and a scan that calls itself complete   *)
(* has counted everything and dropped records only at their limit.  A scan *)
(* that is stopped anywhere, also inside a region, never claims to be      *)
(* complete, although one loop ignores the stop and the others see it late.*)
(***************************************************************************)
ScanIsFaithful ==
  LET d == discovery
      all == ~d.cancelled /\ pc \in {"finish", "sample", "done"}
  IN  /\ d.branchCount <= Cardinality(BranchWords)
      /\ d.pointerCount <= Cardinality(PointerWords)
      /\ d.callCount <= Cardinality(SlotCalls)
      /\ \A n \in DOMAIN d.branches : \E w \in BranchWords : w[2] = d.branches[n].address
      /\ \A n \in DOMAIN d.pointers : \E w \in PointerWords : w[2] = d.pointers[n]
      /\ \A n \in DOMAIN d.calls : \E c \in SlotCalls :
            /\ c[2][2] = d.calls[n].address
            /\ discovery.tables[c[1]].offset = d.calls[n].offset
      /\ \A m, n \in DOMAIN d.calls :
            m # n => \/ d.calls[m].address # d.calls[n].address
                     \/ d.calls[m].offset # d.calls[n].offset
      /\ Increasing(d.branches, LAMBDA b : b.address)
      /\ Increasing(d.pointers, LAMBDA p : p)
      /\ \A n \in DOMAIN d.tables : IsLongestRun(d.tables[n])
      /\ Len(d.branches) = Small(d.branchCount, MaxRecorded)
      /\ Len(d.pointers) = Small(d.pointerCount, MaxRecorded)
      /\ all => /\ d.branchCount = Cardinality(BranchWords)
                /\ d.pointerCount = Cardinality(PointerWords)
                /\ Len(d.tables) = Small(Len(d.pointers), MaxCandidates)
                /\ d.callCount = Cardinality(SlotCalls)
      /\ d.complete => all

(***************************************************************************)
(* uninstall() joins the sampler and so waits for the scan: once stop is   *)
(* requested the scan reads at most one stride more, whichever region,     *)
(* loop or table it is in, and no sample is taken after it.                *)
(***************************************************************************)
StopIsPrompt ==
  /\ readsAfterStop <= Stride
  /\ pc = "done" => stopRequested
=============================================================================
