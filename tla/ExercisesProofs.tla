------------------------------ MODULE ExercisesProofs ------------------------------
(***************************************************************************)
(* The properties of the exercises of lab2, lab5, lab8 and lab9: of the    *)
(* demand paging for any number of pages, frames and bytes of a page, of   *)
(* the signal handlers for any threshold, of the copies of a file of any   *)
(* length with a buffer of any size, and of the counter for any number of  *)
(* threads and rounds.                                                     *)
(***************************************************************************)
EXTENDS AddressTranslation, FileCopy, Signals, CountingThreads, FiniteSetTheorems, TLAPS

(* The demand paging of lab8 *)
MapTypeOK ==
  /\ page_table \in [VirtualPages -> Frames \cup {num_frames, Unmapped}]
  /\ mem_map \in [Frames -> {0, 1}]
  /\ overrun \in BOOLEAN

\* The map of the frames and the page table say the same.
MapsAgree ==
  \A f \in Frames : mem_map[f] = 1 <=> \E p \in VirtualPages : page_table[p] = f

\* A frame that exists holds one page.
OneFrameOnePage ==
  \A p, q \in VirtualPages : page_table[p] \in Frames /\ page_table[p] = page_table[q] => p = q

\* The frame that does not exist comes with the write behind mem_map, and that
\* with a map without a free frame.
OverrunIsFull ==
  /\ (\E p \in VirtualPages : page_table[p] = num_frames) => overrun
  /\ overrun => \A f \in Frames : mem_map[f] = 1

MapInv == MapTypeOK /\ MapsAgree /\ OneFrameOnePage /\ OverrunIsFull

-----------------------------------------------------------------------------
(* The steps *)

\* The page of an address of the space is one of the table.
LEMMA PageOfAddress ==
  ASSUME NEW addr \in Addresses
  PROVE  addr \div PAGE_SIZE \in VirtualPages
BY MemoryAssumption, Z3T(30) DEF Addresses, VirtualPages

\* No number is a frame, the frame that does not exist and no frame at once.
LEMMA FrameNumbers ==
  /\ num_frames \notin Frames /\ Unmapped \notin Frames /\ num_frames # Unmapped
  /\ 0..num_frames = Frames \cup {num_frames}
BY MemoryAssumption DEF Frames, Unmapped

LEMMA InitialMap == MapInit => MapInv
<1> SUFFICES ASSUME MapInit PROVE MapInv
  OBVIOUS
<1>1. /\ page_table = [p \in VirtualPages |-> Unmapped]
      /\ mem_map = [f \in Frames |-> 0]
      /\ overrun = FALSE
  BY DEF MapInit
<1>2. MapTypeOK
  BY <1>1 DEF MapTypeOK
<1>3. \A p \in VirtualPages : page_table[p] = Unmapped
  BY <1>1
<1>4. MapsAgree /\ OneFrameOnePage /\ OverrunIsFull
  BY <1>1, <1>3, FrameNumbers DEF MapsAgree, OneFrameOnePage, OverrunIsFull
<1> QED BY <1>2, <1>4 DEF MapInv

\* A page fault keeps the invariant.
LEMMA FaultKeeps ==
  ASSUME MapInv, NEW page \in VirtualPages, NEW frame \in 0..num_frames, Fault(page, frame)
  PROVE  MapInv'
<1>1. /\ page_table[page] = Unmapped
      /\ page_table' = [page_table EXCEPT ![page] = frame]
      /\ IsFirstFree(frame)
  BY DEF Fault
<1>2. page_table'[page] = frame /\ \A p \in VirtualPages \ {page} : page_table'[p] = page_table[p]
  BY <1>1 DEF MapInv, MapTypeOK
<1>3. CASE frame \in Frames
  <2>1. mem_map' = [mem_map EXCEPT ![frame] = 1] /\ overrun' = overrun /\ mem_map[frame] = 0
    BY <1>1, <1>3 DEF Fault, IsFirstFree
  <2>2. /\ mem_map'[frame] = 1 /\ \A f \in Frames \ {frame} : mem_map'[f] = mem_map[f]
        /\ \A p \in VirtualPages : page_table[p] # frame
    BY <1>3, <2>1 DEF MapInv, MapTypeOK, MapsAgree
  <2>3. MapTypeOK'
    BY <1>1, <1>3, <2>1 DEF MapInv, MapTypeOK
  <2>4. MapsAgree'
    BY <1>1, <1>2, <2>2, FrameNumbers DEF MapInv, MapsAgree
  <2>5. OneFrameOnePage'
    BY <1>2, <2>2 DEF MapInv, OneFrameOnePage
  <2>6. OverrunIsFull'
    BY <1>2, <1>3, <2>1, <2>2, FrameNumbers DEF MapInv, OverrunIsFull
  <2> QED BY <2>3, <2>4, <2>5, <2>6 DEF MapInv
<1>4. CASE frame = num_frames
  <2>1. mem_map' = mem_map /\ overrun' = TRUE
    BY <1>4, FrameNumbers DEF Fault
  <2>2. \A f \in Frames : mem_map[f] = 1
    <3> TAKE f \in Frames
    <3>1. f < frame
      BY <1>4, MemoryAssumption DEF Frames
    <3> QED BY <1>1, <3>1 DEF IsFirstFree, MapInv, MapTypeOK
  <2>3. MapTypeOK'
    BY <1>1, <1>4, <2>1 DEF MapInv, MapTypeOK
  <2>4. MapsAgree'
    BY <1>1, <1>2, <1>4, <2>1, FrameNumbers DEF MapInv, MapsAgree
  <2>5. OneFrameOnePage'
    BY <1>2, <1>4, FrameNumbers DEF MapInv, OneFrameOnePage
  <2>6. OverrunIsFull'
    BY <2>1, <2>2 DEF OverrunIsFull
  <2> QED BY <2>3, <2>4, <2>5, <2>6 DEF MapInv
<1> QED BY <1>3, <1>4, FrameNumbers

LEMMA StepKeeps == MapInv /\ [MapNext]_mapVars => MapInv'
<1> SUFFICES ASSUME MapInv, [MapNext]_mapVars PROVE MapInv'
  OBVIOUS
<1>1. ASSUME UNCHANGED <<page_table, mem_map, overrun>> PROVE MapInv'
  BY <1>1 DEF MapInv, MapTypeOK, MapsAgree, OneFrameOnePage, OverrunIsFull
<1>2. ASSUME NEW addr \in Addresses, Translate(addr) PROVE MapInv'
  <2>1. PICK frame \in 0..num_frames :
          Fault(addr \div PAGE_SIZE, frame) \/ Hit(addr \div PAGE_SIZE, frame)
    BY <1>2 DEF Translate
  <2>2. CASE Fault(addr \div PAGE_SIZE, frame)
    BY <2>2, PageOfAddress, FaultKeeps
  <2>3. CASE Hit(addr \div PAGE_SIZE, frame)
    BY <1>1, <2>3 DEF Hit
  <2> QED BY <2>1, <2>2, <2>3
<1>3. CASE UNCHANGED mapVars
  BY <1>1, <1>3 DEF mapVars
<1> QED BY <1>2, <1>3 DEF MapNext

LEMMA InvAlways == MapSpec => []MapInv
BY InitialMap, StepKeeps, PTL DEF MapSpec

-----------------------------------------------------------------------------
(* The theorems *)

\* VM_addr_map.c never gives two pages the same frame, whatever the sequence of
\* addresses, as long as it has a free frame for every fault.
THEOREM FramesStayApart == MapSpec => []FramesNotShared
<1>1. MapInv => FramesNotShared
  BY FrameNumbers
     DEF MapInv, MapTypeOK, OneFrameOnePage, OverrunIsFull, FramesNotShared
<1> QED BY <1>1, InvAlways, PTL

\* VM_addr_map.c writes behind mem_map only when every frame holds a page.
THEOREM OverrunOnlyWhenFull == MapSpec => []FullBeforeOverrun
<1>1. MapInv => FullBeforeOverrun
  BY DEF MapInv, MapsAgree, OverrunIsFull, FullBeforeOverrun
<1> QED BY <1>1, InvAlways, PTL

\* VM_addr_map.c translates an address to the same one for ever.
THEOREM TranslationIsForEver == MapSpec => NeverRemapped
<1>1. MapInv /\ [MapNext]_mapVars =>
        [\A p \in VirtualPages :
           page_table[p] # Unmapped => page_table'[p] = page_table[p]]_mapVars
  <2> SUFFICES ASSUME MapInv, NEW addr \in Addresses, Translate(addr),
                      NEW p \in VirtualPages, page_table[p] # Unmapped
               PROVE  page_table'[p] = page_table[p]
    BY DEF MapNext
  <2>1. PICK frame \in 0..num_frames :
          Fault(addr \div PAGE_SIZE, frame) \/ Hit(addr \div PAGE_SIZE, frame)
    BY DEF Translate
  <2>2. CASE Fault(addr \div PAGE_SIZE, frame)
    BY <2>2 DEF Fault, MapInv, MapTypeOK
  <2>3. CASE Hit(addr \div PAGE_SIZE, frame)
    BY <2>3 DEF Hit
  <2> QED BY <2>1, <2>2, <2>3
<1> QED BY <1>1, InvAlways, PTL DEF MapSpec, NeverRemapped

-----------------------------------------------------------------------------
(* The signal handlers of lab2 *)

\* The alarm is set exactly from the question to the call of alarm(0) behind
\* the answer.
AlarmInv == /\ timer \in {"off", "set"}
            /\ timer = "set" <=> handler_at \in {"prompt", "answered"}

LEMMA AlarmInvHolds == SignalsSpec => []AlarmInv
<1>1. SignalsInit => AlarmInv
  BY DEF SignalsInit, AlarmInv
<1>2. AlarmInv /\ [SignalsNext]_signalVars => AlarmInv'
  <2> SUFFICES ASSUME AlarmInv, [SignalsNext]_signalVars PROVE AlarmInv'
    OBVIOUS
  <2>1. CASE catch_tstp \/ catch_int
    BY <2>1 DEF catch_tstp, catch_int, AlarmInv
  <2>2. CASE Answer \/ CancelAlarm
    BY <2>2 DEF Answer, CancelAlarm, AlarmInv
  <2>3. CASE Decide \/ catch_alarm
    BY <2>3 DEF Decide, catch_alarm, AlarmInv
  <2>4. ASSUME NEW sig \in {"SIGINT", "SIGTSTP"}, Press(sig) \/ Deliver(sig)
        PROVE  AlarmInv'
    BY <2>4 DEF Press, Deliver, AlarmInv
  <2>5. CASE UNCHANGED signalVars
    BY <2>5 DEF signalVars, AlarmInv
  <2> QED BY <2>1, <2>2, <2>3, <2>4, <2>5 DEF SignalsNext, HandlerStep
<1> QED BY <1>1, <1>2, PTL DEF SignalsSpec

\* The alarm of catch_int ends the program only between alarm(3) and alarm(0),
\* whatever the threshold and in whatever order signals arrive.  The return of
\* fgets lies between the two.
THEOREM CancelledAlarmNeverStrikes == SignalsSpec => AlarmOnlyUntilCancelled
<1>1. ASSUME AlarmInv, [SignalsNext]_signalVars, ended_by' = "alarm", ended_by # "alarm"
      PROVE  handler_at \in {"prompt", "answered"}
  <2>1. timer = "set"
    BY <1>1 DEF SignalsNext, HandlerStep, signalVars, catch_tstp, catch_int, Answer,
                CancelAlarm, Decide, catch_alarm, Press, Deliver
  <2> QED BY <1>1, <2>1 DEF AlarmInv
<1> QED BY <1>1, AlarmInvHolds, PTL DEF SignalsSpec, AlarmOnlyUntilCancelled

-----------------------------------------------------------------------------
(* The copies of a file of lab9 *)

\* What stands at a place of read_write's output: the file, and behind its end
\* what was there in the buffer, a buffer's size before.
PaddedByte(k) == IF k <= Len(in)       THEN in[k]
                 ELSE IF k <= Len(src) THEN UNWRITTEN
                 ELSE in[k - Len(src)]

\* The number of bytes written that are of the file.
Copied == IF Len(out) < Len(in) THEN Len(out) ELSE Len(in)

\* memmap: the file that is written has the input's length before it has its
\* content.
MemmapInv ==
  copier = "memmap" =>
    /\ copy_at \in {"stretch", "copy", "done", "failed"}
    /\ copy_at \in {"stretch", "failed"} => out = <<>>
    /\ copy_at = "failed" => in = <<>>
    /\ copy_at \in {"copy", "done"} => Len(out) = Len(in) /\ in # <<>>
    /\ copy_at = "done" => out = in

\* read_write: before a read the buffer is what was written last, or nothing
\* that was ever written; before a write it is what comes next.
BufferInv ==
  copier = "read_write" =>
    /\ copy_at \in {"read", "write", "done"}
    /\ \E rounds_written \in Nat : Len(out) = rounds_written * Len(src)
    /\ \A k \in DOMAIN out : out[k] = PaddedByte(k)
    /\ copy_at \in {"read", "done"} =>
         /\ position = Copied
         /\ Len(out) = 0 \/ Len(out) < Len(in) + Len(src)
         /\ \A j \in DOMAIN src : src[j] = IF Len(out) = 0 THEN UNWRITTEN
                                           ELSE out[Len(out) - Len(src) + j]
    /\ copy_at = "write" =>
         /\ Len(out) < Len(in) /\ src # <<>>
         /\ position = IF Len(out) + Len(src) < Len(in) THEN Len(out) + Len(src) ELSE Len(in)
         /\ \A j \in DOMAIN src : src[j] = PaddedByte(Len(out) + j)
    /\ copy_at = "done" => src = <<>> \/ Len(in) <= Len(out)

CopyInv ==
  /\ copier \in {"read_write", "memmap"}
  /\ in \in Seq(Nat) /\ out \in Seq(Nat \cup {UNWRITTEN}) /\ src \in Seq(Nat \cup {UNWRITTEN})
  /\ MemmapInv /\ BufferInv

\* A multiple of a number is divided by it without remainder.
LEMMA MultipleDivides ==
  ASSUME NEW m \in Nat, NEW b \in Nat \ {0}
  PROVE  (m * b) % b = 0
<1> DEFINE q == (m * b) \div b
           r == (m * b) % b
<1>1. m * b \in Nat
  OBVIOUS
<1>2. q \in Int /\ r \in 0..(b - 1) /\ m * b = b * q + r
  <2> HIDE DEF q, r
  <2>1. \A x \in Nat : x % b \in 0..(b - 1) /\ x = b * (x \div b) + (x % b) /\ x \div b \in Int
    BY SMT
  <2> QED BY <1>1, <2>1 DEF q, r
<1> HIDE DEF q, r
<1>3. b * (m - q) = r
  BY <1>2
<1>4. m - q = 0
  <2>1. CASE m - q >= 1
    <3>1. b * (m - q) >= b
      BY <2>1, <1>2
    <3> QED BY <3>1, <1>3, <1>2
  <2>2. CASE m - q <= -1
    <3>1. b * (m - q) <= -b
      BY <2>2, <1>2
    <3> QED BY <3>1, <1>3, <1>2
  <2> QED BY <2>1, <2>2, <1>2
<1>5. r = 0
  BY <1>3, <1>4
<1> QED BY <1>5 DEF r

LEMMA InitialCopy == CopyInit => CopyInv
<1> SUFFICES ASSUME CopyInit PROVE CopyInv
  OBVIOUS
<1>1. in \in Seq(Nat) /\ out = <<>> /\ position = 0
  BY CopyAssumption DEF CopyInit
<1>2. CASE copier = "memmap"
  BY <1>1, <1>2 DEF CopyInit, CopyInv, MemmapInv, BufferInv
<1>3. CASE copier = "read_write"
  <2>1. PICK bufsz \in BufferSizes : src = [k \in 1..bufsz |-> UNWRITTEN]
    BY <1>3 DEF CopyInit
  <2>2. bufsz \in Nat /\ copy_at = "read"
    BY <1>3, CopyAssumption DEF CopyInit
  <2>3. src \in Seq(Nat \cup {UNWRITTEN}) /\ Len(src) = bufsz
    BY <2>1, <2>2
  <2>4. Len(out) = 0 /\ Len(out) = 0 * Len(src) /\ Len(in) \in Nat
    BY <1>1, <2>2, <2>3
  <2>5. BufferInv
    BY <1>1, <2>1, <2>2, <2>3, <2>4 DEF BufferInv, Copied
  <2> QED BY <1>1, <1>3, <2>3, <2>5 DEF CopyInv, MemmapInv
<1> QED BY <1>2, <1>3 DEF CopyInit

\* A block is read into the buffer, whose end keeps what was there if the block
\* is the last one.
LEMMA ReadKeeps == ASSUME CopyInv, Read PROVE CopyInv'
<1> DEFINE B == Len(src)
           W == Len(out)
<1>1. /\ copy_at = "read" /\ copier = "read_write"
      /\ in \in Seq(Nat) /\ out \in Seq(Nat \cup {UNWRITTEN}) /\ src \in Seq(Nat \cup {UNWRITTEN})
  BY DEF Read, CopyInv, MemmapInv
<1>2. /\ position = Copied
      /\ W = 0 \/ W < Len(in) + B
      /\ \A j \in DOMAIN src : src[j] = IF W = 0 THEN UNWRITTEN ELSE out[W - B + j]
      /\ \A k \in DOMAIN out : out[k] = PaddedByte(k)
  BY <1>1 DEF CopyInv, BufferInv
<1>3. PICK m \in Nat : W = m * B
  BY <1>1 DEF CopyInv, BufferInv
<1>4. B \in Nat /\ W \in Nat /\ Len(in) \in Nat /\ position \in 0..Len(in)
  BY <1>1, <1>2 DEF Copied
<1>5. /\ read_num' = IF Len(in) - position < B THEN Len(in) - position ELSE B
      /\ position' = position + read_num'
      /\ copy_at' = IF read_num' > 0 THEN "write" ELSE "done"
      /\ in' = in /\ out' = out /\ copier' = copier
  BY DEF Read, Rest
<1>6. read_num' \in 0..B /\ position + read_num' <= Len(in)
  BY <1>4, <1>5
<1>7. src' = [j \in 1..B |-> IF j <= read_num' THEN in[position + j] ELSE src[j]]
  BY <1>1 DEF Read
<1>8. ASSUME NEW j \in 1..B PROVE src'[j] \in Nat \cup {UNWRITTEN}
  <2>1. CASE j <= read_num'
    <3>1. position + j \in 1..Len(in) /\ src'[j] = in[position + j]
      BY <1>4, <1>6, <1>7, <2>1
    <3> QED BY <1>1, <3>1
  <2>2. CASE ~(j <= read_num')
    <3>1. src'[j] = src[j]
      BY <1>7, <2>2
    <3> QED BY <1>1, <3>1
  <2> QED BY <2>1, <2>2
<1>9. src' \in Seq(Nat \cup {UNWRITTEN}) /\ Len(src') = B /\ DOMAIN src' = 1..B
  BY <1>7, <1>8, <1>4
<1>10. \A k : PaddedByte(k)' = PaddedByte(k)
  BY <1>9, <1>5 DEF PaddedByte
<1>11. W = 0 \/ B <= W
  <2>1. CASE m = 0
    BY <2>1, <1>3, <1>4
  <2>2. CASE m >= 1
    BY <2>2, <1>3, <1>4
  <2> QED BY <2>1, <2>2
<1>12. CASE read_num' > 0
  <2>1. W < Len(in) /\ position = W
    BY <1>12, <1>5, <1>2, <1>4 DEF Copied
  <2>2. \A j \in 1..B : src'[j] = PaddedByte(W + j)
    <3> SUFFICES ASSUME NEW j \in 1..B PROVE src'[j] = PaddedByte(W + j)
      OBVIOUS
    <3>1. CASE j <= read_num'
      <4>1. W + j <= Len(in) /\ src'[j] = in[W + j]
        BY <3>1, <2>1, <1>4, <1>6, <1>7
      <4> QED BY <4>1 DEF PaddedByte
    <3>2. CASE j > read_num'
      <4>1. src'[j] = src[j] /\ W + j > Len(in)
        BY <3>2, <2>1, <1>4, <1>5, <1>6, <1>7
      <4>2. CASE W = 0
        <5>1. src[j] = UNWRITTEN
          BY <4>2, <1>1, <1>2
        <5> QED BY <4>1, <4>2, <5>1, <1>4 DEF PaddedByte
      <4>3. CASE B <= W /\ W # 0
        <5>1. src[j] = out[W - B + j] /\ W - B + j \in DOMAIN out
          BY <4>3, <1>1, <1>2, <1>4
        <5>2. W - B + j <= Len(in)
          BY <2>1, <1>4
        <5>3. out[W - B + j] = in[W - B + j]
          BY <5>1, <5>2, <1>2 DEF PaddedByte
        <5>4. ~(W + j <= B) /\ ~(W + j <= Len(in)) /\ (W + j) - B = W - B + j
          BY <4>1, <4>3, <1>4
        <5>5. PaddedByte(W + j) = in[W - B + j]
          BY <5>4 DEF PaddedByte
        <5> QED BY <4>1, <5>1, <5>3, <5>5
      <4> QED BY <4>2, <4>3, <1>11
    <3> QED BY <3>1, <3>2, <1>6
  <2>3. copy_at' = "write" /\ B > 0
    BY <1>12, <1>4, <1>5, <1>6
  <2>4. position' = IF W + B < Len(in) THEN W + B ELSE Len(in)
    BY <2>1, <1>4, <1>5
  <2>5. src' # <<>>
    BY <2>3, <1>9
  <2>6. BufferInv'
    BY <1>1, <1>2, <1>3, <1>5, <1>9, <1>10, <2>1, <2>2, <2>3, <2>4, <2>5 DEF BufferInv
  <2> QED BY <1>1, <1>5, <1>9, <2>6 DEF CopyInv, MemmapInv
<1>13. CASE ~(read_num' > 0)
  <2>1. read_num' = 0 /\ copy_at' = "done" /\ position' = position
    BY <1>13, <1>4, <1>5, <1>6
  <2>2. B = 0 \/ Len(in) <= W
    BY <2>1, <1>2, <1>4, <1>5 DEF Copied
  <2>3. src' = src
    <3>1. \A j \in 1..B : src'[j] = src[j]
      BY <2>1, <1>7
    <3> QED BY <3>1, <1>1, <1>9
  <2>4. src = <<>> \/ Len(in) <= W
    BY <2>2, <1>1
  <2>5. BufferInv'
    BY <1>1, <1>2, <1>3, <1>5, <1>10, <2>1, <2>3, <2>4 DEF BufferInv, Copied
  <2> QED BY <1>1, <1>5, <1>9, <2>5 DEF CopyInv, MemmapInv
<1> QED BY <1>12, <1>13

\* The whole buffer is written behind what was written before.
LEMMA WriteKeeps == ASSUME CopyInv, Write PROVE CopyInv'
<1> DEFINE B == Len(src)
           W == Len(out)
<1>1. /\ copy_at = "write" /\ copier = "read_write"
      /\ in \in Seq(Nat) /\ out \in Seq(Nat \cup {UNWRITTEN}) /\ src \in Seq(Nat \cup {UNWRITTEN})
  BY DEF Write, CopyInv, MemmapInv
<1>2. /\ out' = out \o src /\ copy_at' = "read"
      /\ copier' = copier /\ in' = in /\ position' = position /\ src' = src
  BY DEF Write
<1>3. /\ W < Len(in) /\ src # <<>>
      /\ position = IF W + B < Len(in) THEN W + B ELSE Len(in)
      /\ \A j \in DOMAIN src : src[j] = PaddedByte(W + j)
      /\ \A k \in DOMAIN out : out[k] = PaddedByte(k)
  BY <1>1 DEF CopyInv, BufferInv
<1>4. PICK m \in Nat : W = m * B
  BY <1>1 DEF CopyInv, BufferInv
<1>5. B \in Nat \ {0} /\ W \in Nat /\ Len(in) \in Nat
  BY <1>1, <1>3
<1>6. /\ out' \in Seq(Nat \cup {UNWRITTEN}) /\ Len(out') = W + B
      /\ \A k \in 1..(W + B) : out'[k] = IF k <= W THEN out[k] ELSE src[k - W]
  BY <1>1, <1>2
<1>7. W + B = (m + 1) * B
  BY <1>4, <1>5
<1>8. \A k : PaddedByte(k)' = PaddedByte(k)
  BY <1>2 DEF PaddedByte
<1>9. \A k \in 1..(W + B) : out'[k] = PaddedByte(k)
  <2> SUFFICES ASSUME NEW k \in 1..(W + B) PROVE out'[k] = PaddedByte(k)
    OBVIOUS
  <2>1. CASE k <= W
    <3>1. k \in DOMAIN out
      BY <2>1, <1>1, <1>5
    <3> QED BY <2>1, <3>1, <1>3, <1>6
  <2>2. CASE k > W
    <3>1. k - W \in DOMAIN src /\ W + (k - W) = k
      BY <2>2, <1>1, <1>5
    <3>2. src[k - W] = PaddedByte(k)
      BY <3>1, <1>3
    <3>3. ~(k <= W)
      BY <2>2, <1>5
    <3> QED BY <3>2, <3>3, <1>6
  <2> QED BY <2>1, <2>2, <1>5
<1>10. \A j \in 1..B : src[j] = out'[(W + B) - B + j]
  <2> SUFFICES ASSUME NEW j \in 1..B PROVE src[j] = out'[(W + B) - B + j]
    OBVIOUS
  <2>1. /\ (W + B) - B + j = W + j /\ W + j \in 1..(W + B)
        /\ ~(W + j <= W) /\ (W + j) - W = j
    BY <1>5
  <2> QED BY <2>1, <1>6
<1>11. BufferInv'
  <2>1. DOMAIN src = 1..B /\ DOMAIN out' = 1..(W + B)
    BY <1>1, <1>6
  <2>2. position = (IF Len(out') < Len(in) THEN Len(out') ELSE Len(in))
    BY <1>3, <1>6
  <2>3. Len(out') # 0 /\ Len(out') < Len(in) + B /\ m + 1 \in Nat
    BY <1>3, <1>5, <1>6
  <2> HIDE DEF B, W
  <2> QED BY <1>1, <1>2, <1>6, <1>7, <1>8, <1>9, <1>10, <2>1, <2>2, <2>3
          DEF BufferInv, Copied, B
<1> QED BY <1>1, <1>2, <1>6, <1>11 DEF CopyInv, MemmapInv

LEMMA MemmapKeeps == ASSUME CopyInv, Stretch \/ Memcpy PROVE CopyInv'
<1>1. /\ copier = "memmap" /\ copier' = copier /\ in' = in /\ src' = src
      /\ in \in Seq(Nat) /\ out \in Seq(Nat \cup {UNWRITTEN}) /\ src \in Seq(Nat \cup {UNWRITTEN})
  BY DEF Stretch, Memcpy, CopyInv, BufferInv
<1>2. Len(in) \in Nat
  BY <1>1
<1>3. CASE Stretch
  <2>1. CASE in = <<>>
    BY <1>1, <1>3, <2>1 DEF Stretch, CopyInv, MemmapInv, BufferInv
  <2>2. CASE in # <<>>
    <3>1. out' = [k \in 1..Len(in) |-> UNWRITTEN] /\ copy_at' = "copy"
      BY <1>3, <2>2 DEF Stretch
    <3>2. out' \in Seq(Nat \cup {UNWRITTEN}) /\ Len(out') = Len(in)
      BY <1>2, <3>1
    <3> QED BY <1>1, <2>2, <3>1, <3>2 DEF CopyInv, MemmapInv, BufferInv
  <2> QED BY <2>1, <2>2
<1>4. CASE Memcpy
  <2>1. Len(out) = Len(in) /\ in # <<>>
    BY <1>1, <1>4 DEF Memcpy, CopyInv, MemmapInv
  <2>2. out' = [k \in 1..Len(in) |-> IF k <= Len(in) THEN in[k] ELSE out[k]] /\ copy_at' = "done"
    BY <1>1, <1>4, <2>1 DEF Memcpy
  <2>3. out' = in
    <3>1. \A k \in 1..Len(in) : out'[k] = in[k]
      BY <1>2, <2>2
    <3>2. out' \in Seq(Nat)
      BY <1>1, <1>2, <2>2, <3>1
    <3>3. Len(out') = Len(in)
      BY <1>2, <2>2
    <3> QED BY <1>1, <3>1, <3>2, <3>3
  <2>4. in \in Seq(Nat \cup {UNWRITTEN})
    BY <1>1
  <2> QED BY <1>1, <2>1, <2>2, <2>3, <2>4 DEF CopyInv, MemmapInv, BufferInv
<1> QED BY <1>3, <1>4

LEMMA CopyInvHolds == CopyInit /\ [][CopyNext]_copyVars => []CopyInv
<1>1. CopyInv /\ [CopyNext]_copyVars => CopyInv'
  <2> SUFFICES ASSUME CopyInv, [CopyNext]_copyVars PROVE CopyInv'
    OBVIOUS
  <2>1. CASE UNCHANGED copyVars
    BY <2>1 DEF copyVars, CopyInv, MemmapInv, BufferInv, Copied, PaddedByte
  <2> QED BY <2>1, ReadKeeps, WriteKeeps, MemmapKeeps DEF CopyNext
<1> QED BY <1>1, InitialCopy, PTL

\* What memmap leaves is the file, and what read_write leaves is the file
\* padded from its buffer to a multiple of the buffer's size, for every file
\* and every size.
THEOREM CopyIsThePaddedFile == CopyInit /\ [][CopyNext]_copyVars => []CopyIsFile
<1>1. CopyInv => CopyIsFile
  <2> SUFFICES ASSUME CopyInv PROVE CopyIsFile
    OBVIOUS
  <2>1. copy_at = "failed" => copier = "memmap" /\ in = <<>> /\ out = <<>>
    BY DEF CopyInv, MemmapInv, BufferInv
  <2>2. copy_at = "done" /\ copier = "memmap" => out = in /\ in # <<>>
    BY DEF CopyInv, MemmapInv
  <2>3. ASSUME copy_at = "done", copier = "read_write", src = <<>>
        PROVE  out = <<>>
    <3>1. Len(src) = 0 /\ out \in Seq(Nat \cup {UNWRITTEN})
      BY <2>3 DEF CopyInv
    <3>2. PICK m \in Nat : Len(out) = m * Len(src)
      BY <2>3 DEF CopyInv, BufferInv
    <3>3. Len(out) = 0
      BY <3>1, <3>2
    <3> QED BY <3>1, <3>3
  <2>4. ASSUME copy_at = "done", copier = "read_write", src # <<>>
        PROVE  /\ Len(out) % Len(src) = 0 /\ Len(out) - Len(in) \in 0..(Len(src) - 1)
               /\ \A k \in DOMAIN out : out[k] = PaddedByte(k)
    <3>1. /\ in \in Seq(Nat) /\ out \in Seq(Nat \cup {UNWRITTEN})
          /\ src \in Seq(Nat \cup {UNWRITTEN})
      BY DEF CopyInv
    <3>2. Len(src) \in Nat \ {0} /\ Len(in) \in Nat /\ Len(out) \in Nat
      BY <2>4, <3>1
    <3>3. PICK m \in Nat : Len(out) = m * Len(src)
      BY <2>4 DEF CopyInv, BufferInv
    <3>4. Len(out) % Len(src) = 0
      BY <3>2, <3>3, MultipleDivides
    <3>5. /\ Len(out) = 0 \/ Len(out) < Len(in) + Len(src)
          /\ Len(in) <= Len(out)
          /\ \A k \in DOMAIN out : out[k] = PaddedByte(k)
      BY <2>4 DEF CopyInv, BufferInv
    <3> QED BY <3>2, <3>4, <3>5
  <2> QED BY <2>1, <2>2, <2>3, <2>4 DEF CopyIsFile, PaddedByte
<1> QED BY <1>1, CopyInvHolds, PTL

-----------------------------------------------------------------------------
(* The counting threads of lab5 *)

\* What is proved of TotalIsExact: main gets to print no other total than that
\* with all additions in it.  (That main gets there is liveness.)
PrintedTotalIsExact == main_at[1] = "done" => total = Int32(NUM_THREADS * loop * inc)

ThreadsTypeOK ==
  /\ locking \in BOOLEAN /\ loop \in Nat /\ inc \in Int
  /\ total \in Int
  /\ thread_at \in [Threads -> {"new", "head", "locked", "add", "end"}]
  /\ rounds \in [Threads -> 0..loop]
  /\ read \in [Threads -> Int]
  /\ main_at \in ({"create", "join"} \X Threads) \cup {<<"done", 0>>}

\* One thread at most is between the lock and the unlock, and nobody changes
\* the total under it.
OneAdds ==
  \A t \in Threads :
    /\ thread_at[t] \in {"locked", "add"} => locking /\ count_mutex = t /\ rounds[t] < loop
    /\ thread_at[t] = "add" => read[t] = total

\* Threads that main has waited for have done all their rounds.
JoinedAreDone ==
  /\ \A t \in Threads : thread_at[t] = "end" => rounds[t] = loop
  /\ \A t \in Threads : main_at = <<"join", t>> => \A u \in 0..(t - 1) : thread_at[u] = "end"
  /\ main_at[1] = "done" => \A t \in Threads : thread_at[t] = "end"

\* upto[t] is the number of rounds of the threads before t.
AddsUp(upto) ==
  /\ upto \in [0..NUM_THREADS -> Nat] /\ upto[0] = 0
  /\ \A t \in Threads : upto[t + 1] = upto[t] + rounds[t]
  /\ total = Int32(upto[NUM_THREADS] * inc)

ThreadsInv == ThreadsTypeOK /\ OneAdds /\ JoinedAreDone /\ \E upto : AddsUp(upto)

\* A non-empty set of numbers has a least one: how what holds of a number and,
\* with a number, of the next one is proved of all.
LEMMA LeastNatural ==
  ASSUME NEW T \in SUBSET Nat, T # {}
  PROVE  \E x \in T : \A y \in T : x <= y
<1> PICK n \in T : TRUE
  OBVIOUS
<1> DEFINE U == {0..x : x \in {z \in T : z <= n}}
           R == StrictSubsetOrdering(0..n)
<1>1. U \subseteq SUBSET (0..n) /\ 0..n \in U
  OBVIOUS
<1>2. IsWellFoundedOn(R, SUBSET (0..n))
  <2>1. IsFiniteSet(0..n)
    BY FS_Interval
  <2>2. FiniteSubsetsOf(0..n) = SUBSET (0..n)
    BY <2>1, FS_FiniteSubsetsOfFinite
  <2>3. IsWellFoundedOn(R, FiniteSubsetsOf(0..n))
    BY FS_StrictSubsetOrderingWellFounded
  <2> HIDE DEF R
  <2> QED BY <2>2, <2>3
<1>3. PICK u \in U : \A v \in U : <<v, u>> \notin R
  BY <1>1, <1>2, WFMin
<1>4. PICK x \in T : x <= n /\ u = 0..x
  OBVIOUS
<1>5. ASSUME NEW y \in T, y < x PROVE FALSE
  <2>1. 0..y \in U
    BY <1>4, <1>5
  <2>2. 0..y \subseteq 0..x /\ 0..y # 0..x
    <3>1. x \in 0..x /\ x \notin 0..y
      BY <1>5
    <3> QED BY <3>1, <1>5
  <2> QED BY <1>1, <1>3, <1>4, <2>1, <2>2 DEF StrictSubsetOrdering
<1> QED BY <1>5

\* It does not matter whether a sum is put into an int once or at each addition.
LEMMA IntAddition ==
  ASSUME NEW x \in Int, NEW y \in Int
  PROVE  Int32(Int32(x) + y) = Int32(x + y) /\ Int32(x) \in Int
<1> DEFINE R == INT_RANGE
<1>1. R \in Nat \ {0}
  BY ThreadsAssumption
<1>2. \A z \in Int : z % R \in 0..(R - 1) /\ z \div R \in Int /\ z = R * (z \div R) + (z % R)
  <2> HIDE DEF R
  <2> QED BY <1>1, SMT
<1>3. \A z, q, r \in Int : r \in 0..(R - 1) /\ z = R * q + r => z % R = r
  <2> HIDE DEF R
  <2> SUFFICES ASSUME NEW z \in Int, NEW q \in Int, NEW r \in Int,
                      r \in 0..(R - 1), z = R * q + r
               PROVE  z % R = r
    OBVIOUS
  <2>1. PICK p \in Int, s \in 0..(R - 1) : z = R * p + s /\ z % R = s
    BY <1>2
  <2>2. R * (p - q) = r - s
    BY <2>1, <1>1
  <2>3. p - q = 0
    <3>1. CASE p - q >= 1
      <4>1. R * (p - q) >= R
        BY <3>1, <1>1, <2>1
      <4> QED BY <4>1, <2>2, <1>1, <2>1
    <3>2. CASE p - q <= -1
      <4>1. R * (p - q) <= -R
        BY <3>2, <1>1, <2>1
      <4> QED BY <4>1, <2>2, <1>1, <2>1
    <3> QED BY <3>1, <3>2, <2>1
  <2>4. R * (p - q) = 0
    BY <2>3, <1>1
  <2> QED BY <2>1, <2>2, <2>4
<1> HIDE DEF R
<1>4. PICK p \in Int : x = R * p + (x % R)
  BY <1>2
<1>5. x % R \in Int
  BY <1>1, <1>2
<1>6. PICK q \in Int, r \in 0..(R - 1) : (x % R) + y = R * q + r /\ ((x % R) + y) % R = r
  <2>1. (x % R) + y \in Int
    BY <1>5
  <2> QED BY <2>1, <1>2
<1>7. x + y = R * (p + q) + r
  BY <1>1, <1>4, <1>5, <1>6
<1>8. (x + y) % R = r
  BY <1>1, <1>3, <1>6, <1>7
<1> QED BY <1>5, <1>6, <1>8 DEF Int32, R

\* One round more of a thread and inc more in the total.
LEMMA RoundAddsUp ==
  ASSUME ThreadsTypeOK, NEW upto, AddsUp(upto), NEW t \in Threads,
         inc' = inc, rounds' = [rounds EXCEPT ![t] = @ + 1], total' = Int32(total + inc)
  PROVE  \E more : AddsUp(more)'
<1> DEFINE more == [k \in 0..NUM_THREADS |-> IF k > t THEN upto[k] + 1 ELSE upto[k]]
<1>1. NUM_THREADS \in Nat \ {0} /\ t \in 0..(NUM_THREADS - 1) /\ Threads = 0..(NUM_THREADS - 1)
  BY ThreadsAssumption DEF Threads
<1>2. /\ upto \in [0..NUM_THREADS -> Nat] /\ upto[0] = 0
      /\ \A u \in Threads : upto[u + 1] = upto[u] + rounds[u]
      /\ total = Int32(upto[NUM_THREADS] * inc)
  BY DEF AddsUp
<1>3. rounds \in [Threads -> 0..loop] /\ loop \in Nat /\ inc \in Int
  BY DEF ThreadsTypeOK
<1>4. more \in [0..NUM_THREADS -> Nat] /\ more[0] = 0
  BY <1>1, <1>2
<1>5. \A u \in Threads : more[u + 1] = more[u] + rounds'[u]
  <2> SUFFICES ASSUME NEW u \in Threads PROVE more[u + 1] = more[u] + rounds'[u]
    OBVIOUS
  <2>1. u \in 0..NUM_THREADS /\ u + 1 \in 0..NUM_THREADS
    BY <1>1
  <2> HIDE DEF more
  <2>2. rounds[u] \in Nat /\ upto[u] \in Nat /\ upto[u + 1] = upto[u] + rounds[u]
    BY <2>1, <1>2, <1>3
  <2> USE DEF more
  <2>3. CASE u = t
    BY <2>1, <2>2, <2>3, <1>1, <1>3
  <2>4. CASE u # t
    <3>1. rounds'[u] = rounds[u]
      BY <2>4, <1>3
    <3>2. u + 1 > t <=> u > t
      BY <2>1, <2>4, <1>1
    <3> QED BY <3>1, <3>2, <2>1, <2>2
  <2> QED BY <2>3, <2>4
<1>6. more[NUM_THREADS] = upto[NUM_THREADS] + 1 /\ upto[NUM_THREADS] \in Nat
  BY <1>1, <1>2
<1>7. total' = Int32(more[NUM_THREADS] * inc)
  <2>1. upto[NUM_THREADS] * inc \in Int
    BY <1>6, <1>3
  <2>2. total' = Int32(upto[NUM_THREADS] * inc + inc)
    BY <2>1, <1>2, <1>3, IntAddition
  <2>3. upto[NUM_THREADS] * inc + inc = more[NUM_THREADS] * inc
    <3> HIDE DEF more
    <3> QED BY <1>6, <1>3
  <2> QED BY <2>2, <2>3
<1> HIDE DEF more
<1>8. AddsUp(more)'
  BY <1>4, <1>5, <1>7 DEF AddsUp, Threads
<1> QED BY <1>8

\* The sum does not change with anything else.
LEMMA SumStays ==
  ASSUME \E upto : AddsUp(upto), UNCHANGED <<total, rounds, inc>>
  PROVE  \E upto : AddsUp(upto)'
<1> PICK upto : AddsUp(upto)
  OBVIOUS
<1>1. AddsUp(upto)'
  BY DEF AddsUp, Int32
<1> QED BY <1>1

\* A thread does the last steps of a round, with the lock or without it.
LEMMA AdditionKeeps ==
  ASSUME ThreadsInv, NEW t \in Threads, AtomicAdd(t) \/ WriteTotal(t)
  PROVE  ThreadsInv'
<1>1. ThreadsTypeOK /\ OneAdds /\ JoinedAreDone
  BY DEF ThreadsInv
<1>2. rounds[t] < loop /\ thread_at[t] \in {"head", "add"}
  BY <1>1 DEF AtomicAdd, WriteTotal, OneAdds
<1>3. /\ UNCHANGED <<locking, loop, inc, read, main_at>>
      /\ rounds' = [rounds EXCEPT ![t] = @ + 1]
      /\ thread_at' = [thread_at EXCEPT ![t] = "head"]
      /\ total' = Int32(total + inc)
  BY <1>1 DEF AtomicAdd, WriteTotal, Iterated, arguments, OneAdds
<1>4. ThreadsTypeOK'
  <2>1. total' \in Int
    BY <1>1, <1>3, IntAddition DEF ThreadsTypeOK
  <2>2. rounds' \in [Threads -> 0..loop]
    BY <1>1, <1>2, <1>3 DEF ThreadsTypeOK
  <2> QED BY <1>1, <1>3, <2>1, <2>2 DEF ThreadsTypeOK
<1>5. \A u \in Threads : thread_at'[u] = IF u = t THEN "head" ELSE thread_at[u]
  BY <1>1, <1>3 DEF ThreadsTypeOK
<1>6. \A u \in Threads : u # t => rounds'[u] = rounds[u]
  BY <1>1, <1>3 DEF ThreadsTypeOK
<1>7. \A u \in Threads : u # t => thread_at[u] \notin {"locked", "add"}
                                  \/ (AtomicAdd(t) /\ ~locking) \/ count_mutex = u
  BY <1>1 DEF OneAdds
<1>8. \A u \in Threads : thread_at'[u] \notin {"locked", "add"}
  <2>1. CASE AtomicAdd(t)
    BY <2>1, <1>1, <1>5 DEF AtomicAdd, OneAdds
  <2>2. CASE WriteTotal(t)
    <3>1. count_mutex = t
      BY <2>2, <1>1 DEF WriteTotal, OneAdds
    <3> QED BY <3>1, <1>1, <1>5 DEF OneAdds
  <2> QED BY <2>1, <2>2
<1>9. OneAdds'
  BY <1>8 DEF OneAdds
<1>10. JoinedAreDone'
  <2>1. \A u \in Threads : thread_at'[u] = "end" => rounds'[u] = loop'
    BY <1>1, <1>3, <1>5, <1>6 DEF JoinedAreDone
  <2>2. \A u \in Threads : thread_at[u] = "end" => thread_at'[u] = "end"
    BY <1>2, <1>5
  <2>3. \A v \in Threads : 0..(v - 1) \subseteq Threads
    BY ThreadsAssumption DEF Threads
  <2>4. \A v \in Threads : main_at' = <<"join", v>> => \A u \in 0..(v - 1) : thread_at'[u] = "end"
    BY <2>2, <2>3, <1>1, <1>3 DEF JoinedAreDone
  <2>5. main_at'[1] = "done" => \A u \in Threads : thread_at'[u] = "end"
    BY <2>2, <1>1, <1>3 DEF JoinedAreDone
  <2> QED BY <2>1, <2>4, <2>5 DEF JoinedAreDone
<1>11. \E upto : AddsUp(upto)'
  <2>1. PICK upto : AddsUp(upto)
    BY DEF ThreadsInv
  <2> QED BY <2>1, <1>1, <1>3, RoundAddsUp
<1> QED BY <1>4, <1>9, <1>10, <1>11 DEF ThreadsInv

\* The steps of a thread that add nothing.
LEMMA OtherStepKeeps ==
  ASSUME ThreadsInv, NEW t \in Threads, Lock(t) \/ ReadTotal(t) \/ EndThread(t)
  PROVE  ThreadsInv'
<1>1. ThreadsTypeOK /\ OneAdds /\ JoinedAreDone /\ \E upto : AddsUp(upto)
  BY DEF ThreadsInv
<1>2. UNCHANGED <<locking, loop, inc, total, rounds, main_at>>
  BY DEF Lock, ReadTotal, EndThread, arguments
<1>3. \E upto : AddsUp(upto)'
  BY <1>1, <1>2, SumStays
<1>4. thread_at[t] # "end"
  BY DEF Lock, ReadTotal, EndThread
<1>5. \A v \in Threads : 0..(v - 1) \subseteq Threads
  BY ThreadsAssumption DEF Threads
<1>6. CASE Lock(t)
  <2>1. \A u \in Threads : thread_at'[u] = IF u = t THEN "locked" ELSE thread_at[u]
    BY <1>1, <1>6 DEF Lock, ThreadsTypeOK
  <2>2. ThreadsTypeOK'
    BY <1>1, <1>2, <1>6 DEF Lock, ThreadsTypeOK
  <2>3. \A u \in Threads : thread_at[u] \notin {"locked", "add"}
    <3>1. count_mutex = Main /\ Main \notin Threads
      BY <1>6, ThreadsAssumption DEF Lock, Main, Threads
    <3> QED BY <3>1, <1>1 DEF OneAdds
  <2>4. OneAdds'
    BY <1>6, <2>1, <2>3, <1>2 DEF Lock, OneAdds
  <2>5. JoinedAreDone'
    BY <1>1, <1>2, <1>4, <1>5, <2>1 DEF JoinedAreDone
  <2> QED BY <2>2, <2>4, <2>5, <1>3 DEF ThreadsInv
<1>7. CASE ReadTotal(t)
  <2>1. \A u \in Threads : thread_at'[u] = IF u = t THEN "add" ELSE thread_at[u]
    BY <1>1, <1>7 DEF ReadTotal, ThreadsTypeOK
  <2>2. \A u \in Threads : read'[u] = IF u = t THEN total ELSE read[u]
    BY <1>1, <1>7 DEF ReadTotal, ThreadsTypeOK
  <2>3. ThreadsTypeOK'
    BY <1>1, <1>2, <1>7 DEF ReadTotal, ThreadsTypeOK
  <2>4. OneAdds'
    BY <1>1, <1>2, <1>7, <2>1, <2>2 DEF ReadTotal, OneAdds
  <2>5. JoinedAreDone'
    BY <1>1, <1>2, <1>4, <1>5, <2>1 DEF JoinedAreDone
  <2> QED BY <2>3, <2>4, <2>5, <1>3 DEF ThreadsInv
<1>8. CASE EndThread(t)
  <2>1. \A u \in Threads : thread_at'[u] = IF u = t THEN "end" ELSE thread_at[u]
    BY <1>1, <1>8 DEF EndThread, ThreadsTypeOK
  <2>2. ThreadsTypeOK'
    BY <1>1, <1>2, <1>8 DEF EndThread, ThreadsTypeOK
  <2>3. OneAdds'
    BY <1>1, <1>2, <1>8, <2>1 DEF EndThread, OneAdds
  <2>4. rounds[t] = loop
    BY <1>1, <1>8 DEF EndThread, ThreadsTypeOK
  <2>5. JoinedAreDone'
    BY <1>1, <1>2, <1>5, <2>1, <2>4 DEF JoinedAreDone
  <2> QED BY <2>2, <2>3, <2>5, <1>3 DEF ThreadsInv
<1> QED BY <1>6, <1>7, <1>8

\* main creates a thread, or has waited for one.
LEMMA MainKeeps ==
  ASSUME ThreadsInv, NEW t \in Threads, Create(t) \/ Join(t)
  PROVE  ThreadsInv'
<1>1. ThreadsTypeOK /\ OneAdds /\ JoinedAreDone /\ \E upto : AddsUp(upto)
  BY DEF ThreadsInv
<1>2. UNCHANGED <<locking, loop, inc, total, count_mutex, rounds, read>>
  BY DEF Create, Join, arguments
<1>3. \E upto : AddsUp(upto)'
  BY <1>1, <1>2, SumStays
<1>4. 0 \in Threads /\ (\A v \in Threads : 0..(v - 1) \subseteq Threads) /\ Threads \subseteq Int
  BY ThreadsAssumption DEF Threads
<1>5. CASE Create(t)
  <2>1. \A u \in Threads : thread_at'[u] = IF u = t THEN "head" ELSE thread_at[u]
    BY <1>1, <1>5 DEF Create, ThreadsTypeOK
  <2>2. main_at' = IF t + 1 \in Threads THEN <<"create", t + 1>> ELSE <<"join", 0>>
    BY <1>5 DEF Create
  <2>3. main_at' \in {"create", "join"} \X Threads
    BY <2>2, <1>4
  <2>4. ThreadsTypeOK'
    BY <1>1, <1>2, <1>5, <2>3 DEF Create, ThreadsTypeOK
  <2>5. OneAdds'
    BY <1>1, <1>2, <2>1 DEF OneAdds
  <2>6. \A v \in Threads : main_at' = <<"join", v>> => v = 0
    BY <2>2
  <2>7. main_at'[1] # "done"
    BY <2>2
  <2>8. 0..(0 - 1) = {}
    OBVIOUS
  <2>9. \A u \in Threads : thread_at'[u] = "end" => rounds'[u] = loop'
    BY <1>1, <1>2, <2>1 DEF JoinedAreDone
  <2>10. JoinedAreDone'
    BY <2>6, <2>7, <2>8, <2>9 DEF JoinedAreDone
  <2> QED BY <2>4, <2>5, <2>10, <1>3 DEF ThreadsInv
<1>6. CASE Join(t)
  <2>1. thread_at' = thread_at /\ thread_at[t] = "end" /\ main_at = <<"join", t>>
    BY <1>6 DEF Join
  <2>2. main_at' = IF t + 1 \in Threads THEN <<"join", t + 1>> ELSE <<"done", 0>>
    BY <1>6 DEF Join
  <2>3. main_at' \in ({"create", "join"} \X Threads) \cup {<<"done", 0>>}
    BY <2>2
  <2>4. ThreadsTypeOK'
    BY <1>1, <1>2, <2>1, <2>3 DEF ThreadsTypeOK
  <2>5. OneAdds'
    BY <1>1, <1>2, <2>1 DEF OneAdds
  <2>6. \A u \in 0..t : thread_at[u] = "end"
    <3>1. \A u \in 0..(t - 1) : thread_at[u] = "end"
      BY <1>1, <2>1 DEF JoinedAreDone
    <3> QED BY <3>1, <2>1, <1>4
  <2>7. CASE t + 1 \in Threads
    <3>1. \A v \in Threads : main_at' = <<"join", v>> => v - 1 = t
      BY <2>2, <2>7, <1>4
    <3>2. main_at'[1] # "done"
      BY <2>2, <2>7
    <3> QED BY <3>1, <3>2, <2>1, <2>4, <2>5, <2>6, <1>1, <1>2, <1>3 DEF JoinedAreDone, ThreadsInv
  <2>8. CASE t + 1 \notin Threads
    <3>1. Threads = 0..t
      BY <2>8, ThreadsAssumption DEF Threads
    <3>2. main_at'[1] = "done" /\ \A v : main_at' # <<"join", v>>
      BY <2>2, <2>8
    <3> QED BY <3>1, <3>2, <2>1, <2>4, <2>5, <2>6, <1>1, <1>2, <1>3 DEF JoinedAreDone, ThreadsInv
  <2> QED BY <2>7, <2>8
<1> QED BY <1>5, <1>6

LEMMA InitialThreads == ThreadsInit => ThreadsInv
<1> SUFFICES ASSUME ThreadsInit PROVE ThreadsInv
  OBVIOUS
<1> DEFINE zero == [k \in 0..NUM_THREADS |-> 0]
<1>1. /\ 0 \in Threads /\ \A t \in Threads : t \in 0..NUM_THREADS /\ t + 1 \in 0..NUM_THREADS
      /\ NUM_THREADS \in 0..NUM_THREADS /\ 0 \in 0..NUM_THREADS
  BY ThreadsAssumption DEF Threads
<1>2. loop \in Nat /\ inc \in Int
  BY ThreadsAssumption DEF ThreadsInit
<1>3. ThreadsTypeOK
  BY <1>1, <1>2 DEF ThreadsInit, ThreadsTypeOK
<1>4. OneAdds /\ JoinedAreDone
  BY <1>1 DEF ThreadsInit, OneAdds, JoinedAreDone
<1>5. total = Int32(0 * inc)
  <2>1. INT_RANGE \in Nat \ {0} /\ 0 * inc = 0 /\ total = 0
    BY <1>2, ThreadsAssumption DEF ThreadsInit
  <2>2. 0 % INT_RANGE = 0
    BY <2>1
  <2> QED BY <2>1, <2>2 DEF Int32
<1>6. AddsUp(zero)
  BY <1>1, <1>5 DEF AddsUp, ThreadsInit
<1> QED BY <1>3, <1>4, <1>6 DEF ThreadsInv

LEMMA ThreadsInvHolds == ThreadsInit /\ [][ThreadsNext]_threadVars => []ThreadsInv
<1>1. ThreadsInv /\ [ThreadsNext]_threadVars => ThreadsInv'
  <2> SUFFICES ASSUME ThreadsInv, [ThreadsNext]_threadVars PROVE ThreadsInv'
    OBVIOUS
  <2>1. CASE UNCHANGED threadVars
    <3>1. \E upto : AddsUp(upto)'
      BY <2>1, SumStays DEF threadVars, ThreadsInv
    <3>2. ThreadsTypeOK' /\ OneAdds' /\ JoinedAreDone'
      BY <2>1 DEF threadVars, ThreadsInv, ThreadsTypeOK, OneAdds, JoinedAreDone
    <3> QED BY <3>1, <3>2 DEF ThreadsInv
  <2>2. ASSUME NEW t \in Threads, Create(t) \/ Join(t) PROVE ThreadsInv'
    BY <2>2, MainKeeps
  <2>3. ASSUME NEW t \in Threads, ThreadStep(t) PROVE ThreadsInv'
    BY <2>3, AdditionKeeps, OtherStepKeeps DEF ThreadStep
  <2> QED BY <2>1, <2>2, <2>3 DEF ThreadsNext, MainStep
<1> QED BY <1>1, InitialThreads, PTL

\* No addition is lost, with the lock and with the atomic instruction: what main
\* prints behind the joins has all of them in it, however many threads there
\* are, however their steps come, and whether the sum fits an int or not.
THEOREM NoAdditionIsLost ==
  ThreadsInit /\ [][ThreadsNext]_threadVars => []PrintedTotalIsExact
<1>1. ThreadsInv => PrintedTotalIsExact
  <2> SUFFICES ASSUME ThreadsInv, main_at[1] = "done"
               PROVE  total = Int32(NUM_THREADS * loop * inc)
    BY DEF PrintedTotalIsExact
  <2>1. PICK upto : AddsUp(upto)
    BY DEF ThreadsInv
  <2>2. \A t \in Threads : upto[t + 1] = upto[t] + loop
    BY <2>1 DEF ThreadsInv, JoinedAreDone, AddsUp
  <2>3. loop \in Nat /\ inc \in Int /\ NUM_THREADS \in Nat \ {0}
    BY ThreadsAssumption DEF ThreadsInv, ThreadsTypeOK
  <2>4. upto \in [0..NUM_THREADS -> Nat] /\ upto[0] = 0
    BY <2>1 DEF AddsUp
  <2>5. \A k \in 0..NUM_THREADS : upto[k] = k * loop
    <3> DEFINE Wrong == {k \in 0..NUM_THREADS : upto[k] # k * loop}
    <3> SUFFICES ASSUME Wrong # {} PROVE FALSE
      OBVIOUS
    <3>1. PICK k \in Wrong : \A j \in Wrong : k <= j
      BY LeastNatural, Wrong \in SUBSET Nat
    <3>2. k # 0
      BY <2>3, <2>4
    <3>3. k - 1 \in Threads /\ k - 1 \in 0..NUM_THREADS /\ k \in Nat
      BY <3>2, <2>3 DEF Threads
    <3>4. upto[k - 1] = (k - 1) * loop
      BY <3>1, <3>3
    <3>5. upto[k] = (k - 1) * loop + loop
      BY <3>3, <3>4, <2>2
    <3> QED BY <3>1, <3>3, <3>5, <2>3
  <2>6. upto[NUM_THREADS] = NUM_THREADS * loop
    BY <2>3, <2>5
  <2> QED BY <2>1, <2>6 DEF AddsUp
<1> QED BY <1>1, ThreadsInvHolds, PTL
================================================================================
