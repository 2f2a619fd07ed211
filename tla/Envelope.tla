------------------------------ MODULE Envelope ------------------------------
(***************************************************************************)
(* The envelope that reports and updates travel in (packages/contracts/src *)
(* envelope.ts): stored DEFLATE blocks (deflate.ts) in base64url           *)
(* (base64url.ts).  Its tag, its checksum and the limits on its size are   *)
(* left out: what is shown holds without the checksum.                     *)
(***************************************************************************)
EXTENDS Integers, SequencesExt

CONSTANTS
  Payload,          \* the sequences of bytes that are put into envelopes
  BlockBytes        \* bytes in a stored block: 65535

ASSUME EnvelopeAssumption == Payload \subseteq Seq(0..255) /\ BlockBytes \in 1..65535

VARIABLE wire       \* the symbols of an envelope, and whether they were sent

\* Two bytes as a number, and its complement.
Word(low, high) == low + 256 * high
Complement(n) == 65535 - n

\* A stored block; NLEN is the complement of LEN.
Block(final, bytes) ==
  <<IF final THEN 1 ELSE 0, Len(bytes) % 256, Len(bytes) \div 256,
    Complement(Len(bytes)) % 256, Complement(Len(bytes)) \div 256>> \o bytes

\* deflateRawStored where so many bytes are left, `from` what it writes where
\* fewer are: blocks of at most BlockBytes bytes, the last of them marked; an
\* empty payload is one empty block.
StoredFrom(bytes, left, from) ==
  LET at == Len(bytes) - left IN
  IF left <= BlockBytes THEN Block(TRUE, SubSeq(bytes, at + 1, at + left))
  ELSE Block(FALSE, SubSeq(bytes, at + 1, at + BlockBytes)) \o from[left - BlockBytes]
Stored(bytes) ==
  LET from[left \in 0..Len(bytes)] == StoredFrom(bytes, left, from) IN from[Len(bytes)]

Corrupt == <<-1>>
\* inflateRawStored where so many bytes are left, `from` what it reads where
\* fewer are; what follows the marked block is not looked at.
InflatedFrom(bytes, left, from) ==
  LET at == Len(bytes) - left
      size == Word(bytes[at + 2], bytes[at + 3])
      data == SubSeq(bytes, at + 6, at + 5 + size)
      rest == from[left - (5 + size)]
  IN IF \/ left < 5 \/ bytes[at + 1] \notin {0, 1}
        \/ Word(bytes[at + 4], bytes[at + 5]) # Complement(size) \/ left < 5 + size
     THEN Corrupt
     ELSE IF bytes[at + 1] = 1 THEN data
          ELSE IF rest = Corrupt THEN Corrupt ELSE data \o rest
Inflated(bytes) ==
  LET from[left \in 0..Len(bytes)] == InflatedFrom(bytes, left, from) IN from[Len(bytes)]

\* A byte or a symbol that is not there counts as zero.
OrZero(s, i) == IF i \in DOMAIN s THEN s[i] ELSE 0
\* Three bytes and four symbols as one number, and its o-th symbol and byte.
Triple(x, y, z) == 65536 * x + 256 * y + z
Quad(p, q, r, u) == 262144 * p + 4096 * q + 64 * r + u
SymbolOf(n, o) == (n \div <<262144, 4096, 64, 1>>[o]) % 64
ByteOf(n, o) == (n \div <<65536, 256, 1>>[o]) % 256

\* The symbols that n bytes take: a rest that is not three bytes takes one
\* symbol more than it has bytes; and the bytes that l symbols give.
Symbols(n) == 4 * (n \div 3) + (IF n % 3 = 0 THEN 0 ELSE (n % 3) + 1)
Octets(l) == 3 * (l \div 4) + (IF l % 4 = 0 THEN 0 ELSE (l % 4) - 1)

\* base64urlEncode.
Triples(bytes, i) ==
  Triple(OrZero(bytes, 3 * i + 1), OrZero(bytes, 3 * i + 2), OrZero(bytes, 3 * i + 3))
Encoded(bytes) ==
  [j \in 1..Symbols(Len(bytes)) |->
     SymbolOf(Triples(bytes, (j - 1) \div 4), 1 + ((j - 1) % 4))]

\* base64urlDecode: a group of one symbol is refused.
Quads(symbols, i) ==
  Quad(OrZero(symbols, 4 * i + 1), OrZero(symbols, 4 * i + 2),
       OrZero(symbols, 4 * i + 3), OrZero(symbols, 4 * i + 4))
Decoded(symbols) ==
  IF Len(symbols) % 4 = 1 THEN Corrupt
  ELSE [k \in 1..Octets(Len(symbols)) |->
          ByteOf(Quads(symbols, (k - 1) \div 3), 1 + ((k - 1) % 3))]

-----------------------------------------------------------------------------

EnvelopeInit == wire = [payload |-> <<>>, symbols |-> <<>>, sent |-> FALSE]

\* encodePayload.
Send ==
  /\ ~wire.sent
  /\ \E p \in Payload : wire' = [payload |-> p, symbols |-> Encoded(Stored(p)), sent |-> TRUE]

\* The envelope is cut short on its way.
Cut ==
  /\ wire.sent /\ wire.symbols # <<>>
  /\ wire' = [wire EXCEPT !.symbols = Front(@)]

EnvelopeNext == Send \/ Cut

EnvelopeSpec == EnvelopeInit /\ [][EnvelopeNext]_wire

\* decodePayload without its checksum, the blocks read as inflateRawStored and
\* the addon read them.
Opened(symbols) ==
  IF Decoded(symbols) = Corrupt THEN Corrupt ELSE Inflated(Decoded(symbols))

\* An envelope is opened as what was put into it, and one that lost its end is
\* not opened, whatever the checksum says of it (decodePayload).
EnvelopeWhole ==
  wire.sent =>
    Opened(wire.symbols)
      = IF wire.symbols = Encoded(Stored(wire.payload)) THEN wire.payload ELSE Corrupt
=============================================================================
