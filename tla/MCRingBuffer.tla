---------------------------- MODULE MCRingBuffer ----------------------------
(* Instances of RingBuffer for TLC: three byte values, among them the NUL  *)
(* that rb_write accepts but no string contains, and strings long enough   *)
(* to fill the buffer in the middle of one call.                           *)
EXTENDS RingBuffer, Bitwise

MCByte == 0..2
MCCalls == {<<b>> : b \in MCByte} \cup {<<1, 2>>, <<2, 1, 1>>}

(* The mask of circular.c is the remainder of the model for every size     *)
(* that is a power of two, for the sums and the (wrapped) differences of   *)
(* two indices.                                                            *)
ASSUME MaskIsRemainder ==
  \A size \in {1, 2, 4, 8, 16} : \A i, j \in 0..(size - 1) :
    /\ (i + 1) & (size - 1) = (i + 1) % size
    /\ (i - j + 256) & (size - 1) = (i - j) % size
=============================================================================
