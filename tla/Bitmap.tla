------------------------------- MODULE Bitmap -------------------------------
(***************************************************************************)
(* BitMap (core util/bitmap.rs): nbits bits kept in whole words.  The      *)
(* methods are the operators of the code over the words; the bits beyond   *)
(* nbits in the last word exist, and the methods must not show them.       *)
(***************************************************************************)
EXTENDS Integers, FiniteSets, FiniteSetsExt

CONSTANTS
    WordBits,       \* 64
    MaxBits,
    NoBit           \* Option::None

VARIABLES
    bits,       \* the bits of all words
    nbits,
    ones        \* the indexes that a user of the bitmap has set

bitVars == <<bits, nbits, ones>>

Words(n) == (n + WordBits - 1) \div WordBits
InWords(n) == 0 .. Words(n) * WordBits - 1

\* BitMap::repeat: every word filled, then the unused bits of the last one cleared.
repeat(value, n) == [i \in InWords(n) |-> value /\ i < n]

\* iter_ones and iter_zeros over the words from the one that holds `from`.
FromWord(from) == {i \in DOMAIN bits : i >= (from \div WordBits) * WordBits}
iter_ones(from) == {i \in FromWord(from) : bits[i]}
iter_zeros(from) == {i \in FromWord(from) : ~bits[i]}

Least(s) == IF s = {} THEN NoBit ELSE Min(s)
take(s, count) == {i \in s : Cardinality({j \in s : j < i}) < count}
AllOf(s, count) == IF Cardinality(s) = count THEN s ELSE {NoBit}

bits_not_in_use == Cardinality(DOMAIN bits) - nbits
count_ones == Cardinality(iter_ones(0))
count_zeros == Cardinality(iter_zeros(0)) - bits_not_in_use
first_one(from) == Least({i \in iter_ones(from) : i >= from})
first_ones(from, count) == AllOf(take({i \in iter_ones(from) : i >= from}, count), count)
last_one == IF iter_ones(0) = {} THEN NoBit ELSE Max(iter_ones(0))
first_zeroAny(from) == Least({i \in iter_zeros(from) : i >= from})
first_zero(from) == Least({i \in iter_zeros(from) : i >= from /\ i < nbits})
first_zeros(from, count) ==
    AllOf(take({i \in iter_zeros(from) : i >= from /\ i < nbits}, count), count)
\* From the back, the first bits_not_in_use zeros are skipped.
last_zero ==
    LET zeros == {i \in iter_zeros(0) :
                     Cardinality({j \in iter_zeros(0) : j > i}) >= bits_not_in_use}
    IN  IF zeros = {} THEN NoBit ELSE Max(zeros)

BitInit ==
    \E n \in 0 .. MaxBits, value \in BOOLEAN :
        /\ nbits = n /\ bits = repeat(value, n)
        /\ ones = IF value THEN 0 .. n - 1 ELSE {}

\* check_index lets only indexes below nbits through; set is set_bit or clear_bit.
SetBit(i) ==
    /\ i < nbits
    /\ bits' = [bits EXCEPT ![i] = TRUE] /\ ones' = ones \cup {i}
    /\ UNCHANGED nbits
ClearBit(i) ==
    /\ i < nbits
    /\ bits' = [bits EXCEPT ![i] = FALSE] /\ ones' = ones \ {i}
    /\ UNCHANGED nbits

BitNext == \E i \in 0 .. MaxBits : SetBit(i) \/ ClearBit(i)
BitSpec == BitInit /\ [][BitNext]_bitVars

--------------------------------------------------------------------------
zeroBits == (0 .. nbits - 1) \ ones

\* Every search returns what its doc says of the bits the user set ("Find the index
\* of the first one bit, starting from the given index (inclusively)", "Return
\* `None` if fewer than `count` zero bits are found", ...): the unused bits of the
\* last word never show.
SearchesExact ==
    /\ last_one = (IF ones = {} THEN NoBit ELSE Max(ones))
    /\ last_zero = (IF zeroBits = {} THEN NoBit ELSE Max(zeroBits))
    /\ \A from \in 0 .. nbits - 1 :
          LET onesFrom  == {i \in ones : i >= from}
              zerosFrom == {i \in zeroBits : i >= from}
          IN  /\ first_one(from) = Least(onesFrom)
              /\ first_zero(from) = Least(zerosFrom)
              /\ \A count \in 1 .. nbits - from :
                    /\ first_ones(from, count) = AllOf(take(onesFrom, count), count)
                    /\ first_zeros(from, count) = AllOf(take(zerosFrom, count), count)

\* "Get the number of one bits in the bitmap", and of the zero bits.
BitCountsExact == count_ones = Cardinality(ones) /\ count_zeros = Cardinality(zeroBits)
============================================================================
