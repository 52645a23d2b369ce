-------------------------------- MODULE Buffer --------------------------------
(***************************************************************************)
(* The growing arrays of the support library: a text buffer (t_strbuf)     *)
(* keeps its terminator within its capacity, a vector of strings           *)
(* (t_strvec) has one slot more than its capacity for it.  Both double     *)
(* their capacity until what is asked for fits.                            *)
(***************************************************************************)
EXTENDS Integers, Sequences

CONSTANTS
  TextLeast,              (* the capacity a text buffer starts with (16)   *)
  VectorLeast             (* and a vector (4)                              *)

ASSUME LeastAssumption ==
  TextLeast \in Nat \ {0} /\ VectorLeast \in Nat \ {0}

(* The while loop: the first doubling of a capacity that exceeds n.        *)
DoubledAbove(capacity, n) ==
  LET doubled[k \in Nat] == IF k = 0 THEN capacity ELSE 2 * doubled[k - 1]
      turns == CHOOSE k \in 0..n + 1 :
                 doubled[k] > n /\ \A j \in 0..k-1 : doubled[j] <= n
  IN doubled[turns]

EmptyText   == [data |-> <<>>, capacity |-> TextLeast]
EmptyVector == [data |-> <<>>, capacity |-> VectorLeast]

(* Mutant: the terminator is forgotten: what fits exactly is let be.       *)
TextAppendExactly(buf, text) ==
  LET needed == Len(buf.data) + Len(text) IN
  [data     |-> buf.data \o text,
   capacity |-> IF buf.capacity >= needed THEN buf.capacity
                ELSE DoubledAbove(buf.capacity, needed - 1)]

(* sh_strbuf_append, of one or of more characters.                         *)
TextAppend(buf, text) ==
  LET needed == Len(buf.data) + Len(text) IN
  [data     |-> buf.data \o text,
   capacity |-> IF buf.capacity > needed THEN buf.capacity
                ELSE DoubledAbove(buf.capacity, needed)]

(* sh_strvec_push.                                                         *)
VectorPush(vec, string) ==
  LET needed == Len(vec.data) + 1 IN
  [data     |-> Append(vec.data, string),
   capacity |-> IF vec.capacity >= needed THEN vec.capacity
                ELSE DoubledAbove(vec.capacity, needed - 1)]

(* The data and the terminator after it lie inside what was allocated.     *)
TextHolds(buf)   == Len(buf.data) + 1 <= buf.capacity
VectorHolds(vec) == Len(vec.data) + 1 <= vec.capacity + 1
=============================================================================
