--------------------------- MODULE AddressTranslation ---------------------------
(***************************************************************************)
(* The demand paging of lab8, VM_addr_map.c: the page table and the map of *)
(* the frames, over any sequence of logical addresses of the space.        *)
(***************************************************************************)
EXTENDS Integers

CONSTANTS num_pages, num_frames,
          PAGE_SIZE    \* the value of 2^page_size

ASSUME MemoryAssumption ==
  num_pages \in Nat \ {0} /\ num_frames \in Nat \ {0} /\ PAGE_SIZE \in Nat \ {0}

VirtualPages == 0..(num_pages - 1)
Frames == 0..(num_frames - 1)
Addresses == 0..(num_pages * PAGE_SIZE - 1)
Unmapped == -1

VARIABLES page_table, mem_map,
          logical_addr, physical_addr,  \* of the last line
          overrun                       \* memory behind mem_map was written

mapVars == <<page_table, mem_map, logical_addr, physical_addr, overrun>>

MapInit ==
  /\ page_table = [p \in VirtualPages |-> Unmapped]
  /\ mem_map = [f \in Frames |-> 0]
  /\ logical_addr = 0 /\ physical_addr = 0
  /\ overrun = FALSE

\* Mutant: the search begins behind the first frame.
IsFirstFreeFromOne(frame_num) ==
  /\ frame_num \in 1..num_frames
  /\ frame_num \in Frames => mem_map[frame_num] = 0
  /\ \A f \in Frames \ {0} : f < frame_num => mem_map[f] # 0

\* Where the search for a frame stops; num_frames if there is none.
IsFirstFree(frame_num) ==
  /\ frame_num \in 0..num_frames
  /\ frame_num \in Frames => mem_map[frame_num] = 0
  /\ \A f \in Frames : f < frame_num => mem_map[f] # 0

\* Mutant: the frame is not marked.
FaultUnmarked(page_num, frame_num) ==
  /\ page_table[page_num] = Unmapped /\ IsFirstFree(frame_num)
  /\ page_table' = [page_table EXCEPT ![page_num] = frame_num]
  /\ UNCHANGED <<mem_map, overrun>>

\* A page fault.  The program does not ask whether there was a free frame.
Fault(page_num, frame_num) ==
  /\ page_table[page_num] = Unmapped /\ IsFirstFree(frame_num)
  /\ page_table' = [page_table EXCEPT ![page_num] = frame_num]
  /\ IF frame_num \in Frames
     THEN mem_map' = [mem_map EXCEPT ![frame_num] = 1] /\ UNCHANGED overrun
     ELSE overrun' = TRUE /\ UNCHANGED mem_map

Hit(page_num, frame_num) ==
  /\ page_table[page_num] # Unmapped
  /\ frame_num = page_table[page_num]
  /\ UNCHANGED <<page_table, mem_map, overrun>>

\* A line of the input.
Translate(addr) ==
  /\ logical_addr' = addr
  /\ \E frame_num \in 0..num_frames :
       /\ \/ Fault(addr \div PAGE_SIZE, frame_num)
          \/ Hit(addr \div PAGE_SIZE, frame_num)
       /\ physical_addr' = frame_num * PAGE_SIZE + (addr % PAGE_SIZE)

MapNext == \E addr \in Addresses : Translate(addr)

MapSpec == MapInit /\ [][MapNext]_mapVars

-----------------------------------------------------------------------------
(* Properties *)

\* Two pages never share a frame: before the program writes behind mem_map, no
\* two logical addresses have the same physical address.
FramesNotShared ==
  ~overrun => \A p, q \in VirtualPages :
                page_table[p] = page_table[q] /\ p # q => page_table[p] = Unmapped

\* The frame that does not exist is handed out only when every other one holds
\* a page, and never without the write behind mem_map.
FullBeforeOverrun ==
  (\E p \in VirtualPages : page_table[p] = num_frames) =>
    overrun /\ \A f \in Frames : \E p \in VirtualPages : page_table[p] = f

\* What an address was translated to once it is translated to ever after.
NeverRemapped ==
  [][\A p \in VirtualPages :
       page_table[p] # Unmapped => page_table'[p] = page_table[p]]_mapVars
=============================================================================
