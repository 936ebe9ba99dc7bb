-------------------------------- MODULE Crc --------------------------------
(***************************************************************************)
(* The check bytes of a packet: crc_update of src/packet.c, with the table *)
(* of src/crctab.h, and the two bytes that PacketizeSegment appends.       *)
(* tools/packetize.c holds copies of all three.  Beside it, as reference,  *)
(* runs the shift register of the CRC-16 with generator 0x1021.            *)
(*                                                                         *)
(* A uint16_t or uint8_t is the set of the positions of its one bits, so   *)
(* that an exclusive or is a symmetric difference.                         *)
(***************************************************************************)
EXTENDS Integers, Sequences, FiniteSetsExt

CONSTANTS
  First,     \* what a message may begin with
  Others,    \* what it may go on with
  MaxLength  \* bound: bytes in a message

Octets == SUBSET (0 .. 7)
Words == SUBSET (0 .. 15)

ASSUME CrcAssumption ==
  /\ First \subseteq Octets /\ Others \subseteq Octets
  /\ MaxLength \in Nat

VARIABLES
  crc,        \* the code's
  register,   \* the reference's
  length      \* bytes so far

crc_vars == <<crc, register, length>>

High(w) == {k \in 0 .. 7 : k + 8 \in w}      \* w >> 8
Low(w) == w \cap (0 .. 7)                    \* w & 0xff
Raised(w) == {k \in 8 .. 15 : k - 8 \in w}   \* w << 8, as a uint16_t
Number(w) == MapThenSumSet(LAMBDA k : 2 ^ k, w)
Word(n) == {k \in 0 .. 15 : (n \div 2 ^ k) % 2 = 1}

\* crc_table[i] is crc_table[i + 1] here.
crc_table == <<
  \h0000, \h1021, \h2042, \h3063, \h4084, \h50a5, \h60c6, \h70e7,
  \h8108, \h9129, \ha14a, \hb16b, \hc18c, \hd1ad, \he1ce, \hf1ef,
  \h1231, \h0210, \h3273, \h2252, \h52b5, \h4294, \h72f7, \h62d6,
  \h9339, \h8318, \hb37b, \ha35a, \hd3bd, \hc39c, \hf3ff, \he3de,
  \h2462, \h3443, \h0420, \h1401, \h64e6, \h74c7, \h44a4, \h5485,
  \ha56a, \hb54b, \h8528, \h9509, \he5ee, \hf5cf, \hc5ac, \hd58d,
  \h3653, \h2672, \h1611, \h0630, \h76d7, \h66f6, \h5695, \h46b4,
  \hb75b, \ha77a, \h9719, \h8738, \hf7df, \he7fe, \hd79d, \hc7bc,
  \h48c4, \h58e5, \h6886, \h78a7, \h0840, \h1861, \h2802, \h3823,
  \hc9cc, \hd9ed, \he98e, \hf9af, \h8948, \h9969, \ha90a, \hb92b,
  \h5af5, \h4ad4, \h7ab7, \h6a96, \h1a71, \h0a50, \h3a33, \h2a12,
  \hdbfd, \hcbdc, \hfbbf, \heb9e, \h9b79, \h8b58, \hbb3b, \hab1a,
  \h6ca6, \h7c87, \h4ce4, \h5cc5, \h2c22, \h3c03, \h0c60, \h1c41,
  \hedae, \hfd8f, \hcdec, \hddcd, \had2a, \hbd0b, \h8d68, \h9d49,
  \h7e97, \h6eb6, \h5ed5, \h4ef4, \h3e13, \h2e32, \h1e51, \h0e70,
  \hff9f, \hefbe, \hdfdd, \hcffc, \hbf1b, \haf3a, \h9f59, \h8f78,
  \h9188, \h81a9, \hb1ca, \ha1eb, \hd10c, \hc12d, \hf14e, \he16f,
  \h1080, \h00a1, \h30c2, \h20e3, \h5004, \h4025, \h7046, \h6067,
  \h83b9, \h9398, \ha3fb, \hb3da, \hc33d, \hd31c, \he37f, \hf35e,
  \h02b1, \h1290, \h22f3, \h32d2, \h4235, \h5214, \h6277, \h7256,
  \hb5ea, \ha5cb, \h95a8, \h8589, \hf56e, \he54f, \hd52c, \hc50d,
  \h34e2, \h24c3, \h14a0, \h0481, \h7466, \h6447, \h5424, \h4405,
  \ha7db, \hb7fa, \h8799, \h97b8, \he75f, \hf77e, \hc71d, \hd73c,
  \h26d3, \h36f2, \h0691, \h16b0, \h6657, \h7676, \h4615, \h5634,
  \hd94c, \hc96d, \hf90e, \he92f, \h99c8, \h89e9, \hb98a, \ha9ab,
  \h5844, \h4865, \h7806, \h6827, \h18c0, \h08e1, \h3882, \h28a3,
  \hcb7d, \hdb5c, \heb3f, \hfb1e, \h8bf9, \h9bd8, \habbb, \hbb9a,
  \h4a75, \h5a54, \h6a37, \h7a16, \h0af1, \h1ad0, \h2ab3, \h3a92,
  \hfd2e, \hed0f, \hdd6c, \hcd4d, \hbdaa, \had8b, \h9de8, \h8dc9,
  \h7c26, \h6c07, \h5c64, \h4c45, \h3ca2, \h2c83, \h1ce0, \h0cc1,
  \hef1f, \hff3e, \hcf5d, \hdf7c, \haf9b, \hbfba, \h8fd9, \h9ff8,
  \h6e17, \h7e36, \h4e55, \h5e74, \h2e93, \h3eb2, \h0ed1, \h1ef0>>

-----------------------------------------------------------------------------
\* The reference: one bit leaves on the left, and takes the generator with it.
Generator == {0, 5, 12}      \* 0x1021
ShiftOnce(r) ==
  LET left == {k \in 1 .. 15 : k - 1 \in r}
  IN  IF 15 \in r THEN SymDiff(left, Generator) ELSE left

ShiftTwice(r) == ShiftOnce(ShiftOnce(r))
ShiftByte(r) == ShiftTwice(ShiftTwice(ShiftTwice(ShiftTwice(r))))
Shift(r, a) == ShiftByte(SymDiff(r, Raised(a)))

\* Each of the 256 entries is what the register makes of its index.
ASSUME TableAssumption ==
  \A x \in Octets : Word(crc_table[Number(x) + 1]) = Shift({}, x)

-----------------------------------------------------------------------------
crc_updateLow(de, a) ==      \* mutant: the wrong byte goes to the table
  LET bc == SymDiff(Low(de), a)
  IN  SymDiff(Raised(de), Word(crc_table[Number(bc) + 1]))

crc_update(de, a) ==
  LET bc == SymDiff(High(de), a)
  IN  SymDiff(Raised(de), Word(crc_table[Number(bc) + 1]))

\* What is sent of the crc, complemented, its high byte first.
CheckBytesSwapped(de) == <<(0 .. 7) \ Low(de), (0 .. 7) \ High(de)>>      \* mutant
CheckBytes(de) == <<(0 .. 7) \ High(de), (0 .. 7) \ Low(de)>>

CrcStart == crc = 0 .. 15 /\ register = 0 .. 15 /\ length = 0

Feed(a) ==
  /\ length < MaxLength
  /\ a \in IF length = 0 THEN First ELSE Others
  /\ crc' = crc_update(crc, a)
  /\ register' = Shift(register, a)
  /\ length' = length + 1

CrcNext == \E a \in First \cup Others : Feed(a)
CrcSpec == CrcStart /\ [][CrcNext]_crc_vars

-----------------------------------------------------------------------------
\* The table-driven code computes the CRC of the generator, for every entry of
\* the table and from every register it comes by.
SameRemainder == crc = register

FixedResidue == {0, 1, 2, 3, 8, 10, 11, 12}      \* 0x1D0F

\* A receiver that goes on over the two check bytes ends with the CRC's fixed
\* residue, whatever the packet held.
Residue ==
  LET c == CheckBytes(crc)
  IN  Shift(Shift(register, c[1]), c[2]) = FixedResidue
=============================================================================
