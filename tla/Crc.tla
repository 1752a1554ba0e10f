---------------------------------- MODULE Crc ----------------------------------
(***************************************************************************)
(* ycrc16 of crc.c: a message is fed in pieces, each by a loop unrolled 16  *)
(* times and entered in its middle, and a table does eight divisions at     *)
(* once.  ycrc32 is the same code with the table of another polynomial,     *)
(* beyond TLC's integers.                                                   *)
(***************************************************************************)
EXTENDS Integers, SequencesExt, Bitwise

CONSTANTS
  Bytes, Lengths,    \* a piece of a message is one byte, so many times
  MaxPieces,         \* bound on the pieces of a message
  IntMax             \* INT_MAX; the length of a piece is a u32

VARIABLES
  crc,               \* the checksum so far
  byte, len,         \* the piece
  left,              \* its bytes past the pointer data
  rounds, label,     \* n___, and the case the loop is at; 0 is its condition
  calling,           \* between the call and the return
  fed, rem,          \* history: pieces so far, the remainder of their division
  cut                \* history: a piece was too long for an int

crcVars == <<crc, byte, len, left, rounds, label, calling, fed, rem, cut>>

\* 0xA001, x^16 + x^15 + x^2 + 1 from its lowest power.
Poly == 40961

RECURSIVE Shifted(_, _)
Shifted(r, k) ==
  IF k = 0 THEN r
  ELSE Shifted(IF r % 2 = 1 THEN (r \div 2) ^^ Poly ELSE r \div 2, k - 1)

\* _crc16_table
Table == [i \in 0..255 |-> Shifted(i, 8)]

\* The statement of the loop.
Divided8(c, b) == (c \div 256) ^^ Table[(c ^^ b) % 256]

\* The long division by x^16 + x^15 + x^2 + 1, bit by bit.  The coefficients
\* of a message are the bits of its bytes, from the lowest to the highest.
Bits(b) == [k \in 1..8 |-> (b \div 2^(k - 1)) % 2]
Divide(r, bit) == LET next == 2 * r + bit
                  IN  IF next >= 65536 THEN (next - 65536) ^^ 32773 ELSE next
Zeros == [k \in 1..16 |-> 0]

-----------------------------------------------------------------------------

CrcInit == /\ crc = 0 /\ byte = 0 /\ len = 0 /\ left = 0 /\ rounds = 0 /\ label = 0
           /\ calling = FALSE /\ fed = 0 /\ rem = 0 /\ cut = FALSE

\* A defect: the loop is entered at its top.
EntryAtTop(c) == IF c < 16 THEN c ELSE 0
\* switch (c___ & 0xf)
Entry(c) == c % 16

\* ycrc16, of a piece that is not empty, up to the switch.  A length beyond
\* INT_MAX becomes a negative count, and that 0: nothing of the piece is read.
Feed(b, l) ==
  /\ ~calling /\ fed < MaxPieces
  /\ byte' = b /\ len' = l /\ left' = l
  /\ LET c == IF l > IntMax THEN 0 ELSE l
     IN  rounds' = c \div 16 /\ label' = Entry(c)
  /\ calling' = TRUE /\ fed' = fed + 1
  /\ cut' = (cut \/ l > IntMax)
  /\ UNCHANGED <<crc, rem>>

Stmt == /\ calling /\ label > 0
        /\ crc' = Divided8(crc, byte)
        /\ rem' = FoldLeft(Divide, rem, Bits(byte))
        /\ left' = left - 1 /\ label' = label - 1
        /\ UNCHANGED <<byte, len, rounds, calling, fed, cut>>

\* while (n___--)
Around == /\ calling /\ label = 0 /\ rounds > 0
          /\ rounds' = rounds - 1 /\ label' = 16
          /\ UNCHANGED <<crc, byte, len, left, calling, fed, rem, cut>>

CrcReturns == /\ calling /\ label = 0 /\ rounds = 0
              /\ calling' = FALSE
              /\ UNCHANGED <<crc, byte, len, left, rounds, label, fed, rem, cut>>

CrcNext == \/ \E b \in Bytes, l \in Lengths : Feed(b, l)
           \/ Stmt \/ Around \/ CrcReturns

-----------------------------------------------------------------------------

(* However a message is cut into pieces whose lengths fit an int, the       *)
(* unrolled loop takes each byte of them once, and the table gives the      *)
(* remainder of the message's polynomial times x^16: two ends that cut it   *)
(* differently agree on its checksum.  ycrc.h promises it for any u32.      *)
IsRemainder ==
  ~cut => /\ ~calling => left = 0
          /\ FoldLeft(LAMBDA r, bit : 2 * r + bit, 0,
                      Bits(crc % 256) \o Bits(crc \div 256))
               = FoldLeft(Divide, rem, Zeros)
=============================================================================
