-------------------------------- MODULE Crc32 --------------------------------
(***************************************************************************)
(* CCRC32, the checksum of a message's body (misc/ngx_c_crc32.cxx), and    *)
(* what it should be.  A word is the set of the positions of its one bits, *)
(* so that ^ is the symmetric difference.                                  *)
(***************************************************************************)
EXTENDS Integers, Sequences, SequencesExt

Word == 0..31
Byte == 0..7

Shl(w, n) == {b + n : b \in w} \cap Word
Shr(w, n) == {b - n : b \in w} \cap Word

(* 0x04c11db7                                                              *)
ulPolynomial == {0, 1, 2, 4, 5, 7, 8, 10, 11, 12, 16, 22, 23, 26}

Reflect(ref, ch) == {ch - 1 - b : b \in ref \cap 0..ch - 1}

(* Eight times: shift, and subtract the polynomial if a bit was lost.      *)
ShiftOne(e) == SymDiff(Shl(e, 1), IF 31 \in e THEN ulPolynomial ELSE {})
Shifted(i) ==
  LET entry[j \in 0..8] ==
        IF j = 0 THEN Shl(Reflect(i, 8), 24) ELSE ShiftOne(entry[j - 1])
  IN entry[8]

(* Mutant: the entries are not reflected back.                             *)
UnreflectedTable == [i \in SUBSET Byte |-> Shifted(i)]

crc32_table == [i \in SUBSET Byte |-> Reflect(Shifted(i), 32)]

NextCrc(crc, byte) == SymDiff(Shr(crc, 8), crc32_table[SymDiff(crc \cap Byte, byte)])
Get_CRC(buffer) ==
  LET crc[n \in 0..Len(buffer)] ==
        IF n = 0 THEN Word ELSE NextCrc(crc[n - 1], buffer[n])
  IN SymDiff(Word, crc[Len(buffer)])

-----------------------------------------------------------------------------
(* CRC-32 as it is defined: the bits of the message, each byte's lowest    *)
(* first, are the coefficients of a polynomial, highest first; 32 zeros    *)
(* follow and the first 32 coefficients are inverted.  What the division   *)
(* by x^32 + ulPolynomial leaves is reflected and inverted.                *)
Coefficients(body) ==
  UNION {{8 * Len(body) + 31 - (8 * (i - 1) + b) : b \in body[i]} : i \in DOMAIN body}
Dividend(body) == SymDiff(Coefficients(body), 8 * Len(body)..8 * Len(body) + 31)

Reduce(rest, top) ==
  IF top \in rest THEN SymDiff(rest, {top} \cup {top - 32 + b : b \in ulPolynomial})
  ELSE rest

Remainder(body) ==
  LET n == 8 * Len(body)
      rest[j \in 0..n] ==
        IF j = 0 THEN Dividend(body) ELSE Reduce(rest[j - 1], n + 32 - j)
  IN SymDiff(Word, Reflect(rest[n], 32))

=============================================================================
