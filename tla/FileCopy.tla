-------------------------------- MODULE FileCopy --------------------------------
(***************************************************************************)
(* The two programs of lab9 that copy a file: read_write.c with a buffer   *)
(* of a size the user chooses, and memmap.c with mmap.  The blocks of a    *)
(* file, of whatever size, are told apart; calls on files that can be      *)
(* opened are successful but for those with arguments that are not valid.  *)
(***************************************************************************)
EXTENDS Integers, Sequences

CONSTANTS Files,        \* what <fromfile> contains
          BufferSizes,  \* the argument <buf_size>
          UNWRITTEN     \* what malloc's memory holds

ASSUME CopyAssumption == BufferSizes \subseteq Nat /\ \A f \in Files : f \in Seq(Nat)

VARIABLES copier,   \* the program that runs, "read_write" or "memmap"
          in, out,  \* the two files
          position, \* in the input
          src,      \* the buffer
          read_num, \* what read has returned
          copy_at   \* "read", "write", "stretch", "copy", then "done" or "failed"

copyVars == <<copier, in, out, position, src, read_num, copy_at>>

CopyInit ==
  /\ in \in Files /\ out = <<>>
  /\ position = 0 /\ read_num = 0
  /\ \/ /\ copier = "read_write" /\ copy_at = "read"
        /\ \E bufsz \in BufferSizes : src = [k \in 1..bufsz |-> UNWRITTEN]
     \/ copier = "memmap" /\ copy_at = "stretch" /\ src = <<>>

\* read returns what is left of the file, up to the size of the buffer.
Rest == Len(in) - position
Read ==
  /\ copy_at = "read"
  /\ read_num' = IF Rest < Len(src) THEN Rest ELSE Len(src)
  /\ src' = [k \in DOMAIN src |-> IF k <= read_num' THEN in[position + k] ELSE src[k]]
  /\ position' = position + read_num'
  /\ copy_at' = IF read_num' > 0 THEN "write" ELSE "done"
  /\ UNCHANGED <<copier, in, out>>

\* Mutant: the buffer is written from its second byte on.
WriteShifted ==
  /\ copy_at = "write"
  /\ out' = out \o Tail(src)
  /\ copy_at' = "read"
  /\ UNCHANGED <<copier, in, position, src, read_num>>

\* The whole buffer is written, whatever read has returned.
Write ==
  /\ copy_at = "write"
  /\ out' = out \o src
  /\ copy_at' = "read"
  /\ UNCHANGED <<copier, in, position, src, read_num>>

\* lseek to the last byte fails for an empty file; otherwise the file gets its
\* length by a byte that is written there.
Stretch ==
  /\ copy_at = "stretch"
  /\ IF in = <<>>
     THEN copy_at' = "failed" /\ UNCHANGED out
     ELSE copy_at' = "copy" /\ out' = [k \in 1..Len(in) |-> UNWRITTEN]
  /\ UNCHANGED <<copier, in, position, src, read_num>>

\* memcpy between the two mappings, which are as long as the input was.
Memcpy ==
  /\ copy_at = "copy"
  /\ out' = [k \in DOMAIN out |-> IF k <= Len(in) THEN in[k] ELSE out[k]]
  /\ copy_at' = "done"
  /\ UNCHANGED <<copier, in, position, src, read_num>>

CopyNext == Read \/ Write \/ Stretch \/ Memcpy

-----------------------------------------------------------------------------
(* Properties *)

\* What the copies are: memmap's is the file, and it has none of an empty one.
\* read_write's begins with the file, and is padded to a multiple of the buffer
\* size with what the buffer held before: the end of the block before, or what
\* malloc found in memory.  Without a buffer nothing is copied.
CopyIsFile ==
  /\ copy_at = "failed" => copier = "memmap" /\ in = <<>> /\ out = <<>>
  /\ copy_at = "done" /\ copier = "memmap" => out = in /\ in # <<>>
  /\ copy_at = "done" /\ copier = "read_write" =>
       IF src = <<>> THEN out = <<>>
       ELSE /\ Len(out) % Len(src) = 0 /\ Len(out) - Len(in) \in 0..(Len(src) - 1)
            /\ \A k \in DOMAIN out :
                 out[k] = IF k <= Len(in)       THEN in[k]
                          ELSE IF k <= Len(src) THEN UNWRITTEN
                          ELSE in[k - Len(src)]
=============================================================================
