----------------------------- MODULE UdpChecksum -----------------------------
(***************************************************************************)
(* udp_checksum of module3/cross1 (checksum.c) on a little-endian machine, *)
(* and the condition a receiver would check (RFC 768).  A datagram's       *)
(* words are the pseudo header, the UDP header and the payload; bytes are  *)
(* numbers below 256.                                                      *)
(***************************************************************************)
EXTENDS Naturals, Sequences, SequencesExt

Word(hi, lo) == 256 * hi + lo

\* The pseudo header and the header with a zero checksum: addresses, protocol
\* 17, length, ports, length.
HeaderWords(saddr, daddr, source, dest, len) ==
    saddr \o daddr \o <<17, 8 + len, source, dest, 8 + len, 0>>

\* Mutant of AddWord: the carry is dropped.
AddNoCarry(sum, w) == (sum + w) % 65536

\* sum += word, with the end-around carry the code applies to bit 16.
AddWord(sum, w) == LET s == sum + w IN IF s >= 65536 THEN (s + 1) % 65536 ELSE s

\* The payload's words: its whole pairs, and for an odd length the word that
\* starts with the last byte, masked with 0xFF00.  In memory order that mask
\* keeps the byte after the payload, the NUL that ends the string, and drops
\* the payload's last byte.
Pairs(data) == [i \in 1 .. Len(data) \div 2 |-> Word(data[2 * i - 1], data[2 * i])]
OddWord(data) == IF Len(data) % 2 = 1 THEN <<Word(0, 0)>> ELSE <<>>

udp_checksum(header, data) ==
    LET words == header \o Pairs(data) \o OddWord(data)
        sum[i \in 0 .. Len(words)] == IF i = 0 THEN 0 ELSE AddWord(sum[i - 1], words[i])
    IN 65535 - sum[Len(words)]

\* Reference: the one's complement sum of all words, the last one padded with
\* a zero byte, with the checksum is all ones, that is zero modulo 65535.
Padded(data) == IF Len(data) % 2 = 1 THEN Append(data, 0) ELSE data
Verifies(header, data, check) ==
    LET words == header \o Pairs(Padded(data))
        sum[i \in 0 .. Len(words)] == IF i = 0 THEN check ELSE sum[i - 1] + words[i]
    IN sum[Len(words)] % 65535 = 0
=============================================================================
