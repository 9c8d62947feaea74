------------------------------ MODULE Packets -------------------------------
(***************************************************************************)
(* The packets of srej.c byte by byte, with the checksum of checksum.c, on *)
(* a little-endian machine.  A packet is the sequence of its bytes: the    *)
(* number in network order, the checksum, the flag, the payload.           *)
(*                                                                         *)
(* Network and Window abstract from all this: a packet is a record, and a  *)
(* packet with an inverted byte is recognised.  Wire shows that they may.  *)
(***************************************************************************)
EXTENDS Integers, Sequences

Byte == 0 .. 255

HeaderSize == 7

\* The flags of srej.h that an exchange of data uses.
RR   == 5
DATA == 3
SREJ == 6
END_OF_FILE == 10

\* A 32-bit number as its four bytes in network order, and back.
htonl(x) == << x \div 16777216, (x \div 65536) % 256, (x \div 256) % 256, x % 256 >>
ntohl(b) == b[1] * 16777216 + b[2] * 65536 + b[3] * 256 + b[4]

-----------------------------------------------------------------------------
\* The i-th 16-bit word of p in memory; an odd last byte counts as a word.
WordAt(p, i) == p[2 * i - 1] + IF 2 * i <= Len(p) THEN 256 * p[2 * i] ELSE 0

\* sum after each turn of the loop and, for an odd byte, after it is mopped up.
NumWords(p) == (Len(p) + 1) \div 2
Sums(p) ==
    LET sum[n \in 0 .. NumWords(p)] == IF n = 0 THEN 0 ELSE sum[n - 1] + WordAt(p, n)
    IN  sum

\* The ones' complement of the ones' complement sum s of words, folded twice.
FoldCarries(s) ==
    LET once  == (s \div 65536) + (s % 65536)
        twice == once + (once \div 65536)
    IN  65535 - (twice % 65536)

\* Mutated form of in_cksum, used by the mutation checks only: the odd byte
\* is not mopped up.
in_cksum_even(p) == FoldCarries(Sums(p)[Len(p) \div 2])

in_cksum(p) == FoldCarries(Sums(p)[NumWords(p)])

-----------------------------------------------------------------------------
\* The checksum as its two bytes in memory.
Stored(checksum) == << checksum % 256, checksum \div 256 >>

\* The checksum is computed over the packet with a checksum of 0.
createHeader(flag, seq, payload) ==
    LET sealed(c) == htonl(seq) \o c \o << flag >> \o payload
    IN  sealed(Stored(in_cksum(sealed(<<0, 0>>))))

CRC_ERROR == [flag |-> -145, seq |-> 0, payload |-> << >>]

\* What recv_buf hands to its caller.
retrieveHeader(p) ==
    IF in_cksum(p) # 0 THEN CRC_ERROR
    ELSE [flag    |-> p[7],
          seq     |-> ntohl(SubSeq(p, 1, 4)),
          payload |-> SubSeq(p, HeaderSize + 1, Len(p))]

\* errorFlipBits: byte i (from 1) is inverted.
FlipByte(p, i) == [p EXCEPT ![i] = 255 - @]

-----------------------------------------------------------------------------
\* The number an RR carries is copied from the header in the window, which is
\* in network order; the number of an SREJ is converted.
RRPayload(pdu) == SubSeq(pdu, 1, 4)

\* Mutated form of SREJPayload, used by the mutation checks only: as
\* RRPayload the number is copied, but from memory in host order.
SREJPayload_unswapped(seq) == << htonl(seq)[4], htonl(seq)[3], htonl(seq)[2], htonl(seq)[1] >>

SREJPayload(seq) == htonl(seq)

\* process_rr and process_srej.
RequestedNumber(payload) == ntohl(payload)
=============================================================================
