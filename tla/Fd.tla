---------------------------------- MODULE Fd ----------------------------------
(***************************************************************************)
(* The helpers of ut.c that write texts to a descriptor and read one to     *)
(* its end, over what write and read may do: take a part, deliver a part,   *)
(* fail.  EAGAIN and EINTR, which are tried again, leave everything as it   *)
(* is.                                                                      *)
(***************************************************************************)
EXTENDS Naturals, SequencesExt

CONSTANTS
  Texts,         \* what is written: sequences of bytes
  FormatSize,    \* 2 * 2048: the buffer a text is formatted in first
  ReadSize,      \* 4096: the buffer a descriptor is read into first
  MaxReadSize,   \* bound: the memory there is
  PipeSize,      \* bytes the descriptor takes before it is read
  MaxGiven       \* bound on the bytes given to be written

VARIABLES
  pipe,          \* the bytes written and not read
  text, rest,    \* buf and sz of yut_write_to_fd
  buf, bufsz,    \* of yut_read_fd_str; bufsz is 0 outside
  given,         \* history: the bytes to be written, without those given up
  returned,      \* history: the bytes the reads returned
  lost,          \* history: how many bytes were freed with a failed read
  short, garbled \* history: a write was short, a text was formatted twice

Bytes == UNION {Range(t) : t \in Texts}
FdAssumption == Texts \subseteq Seq(Bytes) /\ ReadSize \in Nat \ {0}
ASSUME FdConstants == FdAssumption

fdVars == <<pipe, text, rest, buf, bufsz, given, returned, lost, short, garbled>>
writer == <<text, rest, given, short, garbled>>
reader == <<buf, bufsz, returned, lost>>

FdInit == /\ pipe = <<>> /\ text = <<>> /\ rest = 0 /\ buf = <<>> /\ bufsz = 0
          /\ given = <<>> /\ returned = <<>> /\ lost = 0
          /\ short = FALSE /\ garbled = FALSE

\* write_to_fd_fmt.  A second vsnprintf, into the doubled buffer, finds its
\* va_list used up: what it formats then is undefined.
Formatted(t) == IF Len(t) < FormatSize THEN {t} ELSE Texts
Format(t) ==
  /\ rest = 0
  /\ Len(given) + Len(t) <= MaxGiven
  /\ \E f \in Formatted(t) :
       /\ text' = f /\ rest' = Len(f)
       /\ given' = given \o t
       /\ garbled' = (garbled \/ f # t)
  /\ UNCHANGED <<pipe, short, reader>>

\* write, of n bytes; buf is not moved, so that after a short write the
\* beginning is written again.
WriteSome(n) ==
  /\ n \in 1..rest
  /\ Len(pipe) + n <= PipeSize
  /\ pipe' = pipe \o SubSeq(text, 1, n)
  /\ rest' = rest - n
  /\ short' = (short \/ n < rest)
  /\ UNCHANGED <<text, given, garbled, reader>>

WriteFails ==
  /\ rest > 0
  /\ rest' = 0
  /\ given' = SubSeq(given, 1, Len(given) - rest)
  /\ UNCHANGED <<pipe, text, short, garbled, reader>>

\* yut_read_fd_str begins.
BeginRead ==
  /\ bufsz = 0
  /\ bufsz' = ReadSize
  /\ UNCHANGED <<pipe, writer, buf, returned, lost>>

\* It returns what it has read, with a 0 after it.
Returns(bytes) ==
  /\ buf' = <<>> /\ bufsz' = 0
  /\ returned' = returned \o bytes
  /\ UNCHANGED lost
\* It fails, and frees what it has read.
Frees(bytes) ==
  /\ buf' = <<>> /\ bufsz' = 0
  /\ lost' = lost + Len(bytes)
  /\ UNCHANGED returned

\* A defect: the bytes already read are not copied to the larger buffer.
ExtendedEmpty(bytes) == <<>>
\* memcpy to a buffer of twice the size.
Extended(bytes) == bytes

\* read delivers n bytes.  When they fill the buffer it is doubled and the
\* loop goes on; a read that leaves room is taken for the last.
ReadSome(n) ==
  /\ bufsz > 0
  /\ n \in 1..Len(pipe) /\ n <= bufsz - Len(buf)
  /\ pipe' = SubSeq(pipe, n + 1, Len(pipe))
  /\ LET bytes == buf \o SubSeq(pipe, 1, n)
     IN  IF Len(bytes) < bufsz THEN Returns(bytes)
         ELSE \/ Frees(bytes)
              \/ /\ bufsz * 2 <= MaxReadSize
                 /\ bufsz' = bufsz * 2 /\ buf' = Extended(bytes)
                 /\ UNCHANGED <<returned, lost>>
  /\ UNCHANGED writer

\* read returns 0, at the end of what there is.
ReadEnds == bufsz > 0 /\ pipe = <<>> /\ Returns(buf) /\ UNCHANGED <<pipe, writer>>

ReadFails == bufsz > 0 /\ Frees(buf) /\ UNCHANGED <<pipe, writer>>

FdNext == \/ \E t \in Texts : Format(t)
          \/ \E n \in 1..PipeSize : WriteSome(n) \/ ReadSome(n)
          \/ WriteFails \/ BeginRead \/ ReadEnds \/ ReadFails

FdSpec == FdInit /\ [][FdNext]_fdVars

-----------------------------------------------------------------------------

(* What is read is what was written, byte by byte and once, however the     *)
(* reads cut it and the buffer grows, and the buffer has room for the 0     *)
(* after it.  After a short write the code writes other bytes, but as many; *)
(* of a text that outgrows the first buffer nothing is known.               *)
ReadsWhatWasWritten ==
  /\ Len(buf) <= bufsz
  /\ ~garbled /\ ~short /\ lost = 0 => IsPrefix(returned \o buf \o pipe, given)
  /\ ~garbled => Len(returned) + lost + Len(buf) + Len(pipe) + rest = Len(given)
=============================================================================
