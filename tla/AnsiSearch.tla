----------------------------- MODULE AnsiSearch -----------------------------
(****************************************************************************)
(* qsort of src/src/tk_ansi_search.c, which sortByPrio of mqueue.c calls.   *)
(* An array is a function on an interval of integers.                       *)
(****************************************************************************)
EXTENDS Integers

CONSTANT Before(_, _)      \* cmp(a, b) < 0; irreflexive

Arrays(array) == [DOMAIN array -> {array[k] : k \in DOMAIN array}]

_swap(a, l, r) == [a EXCEPT ![l] = a[r], ![r] = a[l]]

(* The two scans towards each other, which step before they compare.  The   *)
(* pivot a[r] ends the upward one.                                          *)
ScanUp(a, r, i) ==
  CHOOSE k \in i + 1 .. r :
    ~Before(a[k], a[r]) /\ \A h \in i + 1 .. k - 1 : Before(a[h], a[r])

(* Nothing ends the downward one inside the range when the pivot comes      *)
(* first: it goes on to a[l - 1], an earlier pivot, or, where the array     *)
(* starts at l, to memory in front of the array.  Wherever it stops there,  *)
(* the loop ends; l - 1 stands for all of those places.                     *)
ScanDown(a, l, r, j) ==
  CHOOSE k \in l - 1 .. j - 1 :
    /\ k = l - 1 \/ ~Before(a[r], a[k])
    /\ \A h \in k + 1 .. j - 1 : Before(a[r], a[h])

(* The loop of _tk_quicksort, whose pivot is the last element of the range, *)
(* and the swap after it.                                                   *)
Parted(array, l, r) ==
  LET loop[s \in [arr : Arrays(array), i : l - 1 .. r - 1, j : l .. r]] ==
        LET up   == ScanUp(s.arr, r, s.i)
            down == ScanDown(s.arr, l, r, s.j)
        IN IF up >= down THEN [arr |-> _swap(s.arr, up, r), pivot |-> up]
           ELSE loop[[arr |-> _swap(s.arr, up, down), i |-> up, j |-> down]]
  IN loop[[arr |-> array, i |-> l - 1, j |-> r]]

_tk_quicksort(array, left, right) ==
  LET sort[s \in [arr : Arrays(array), l : left .. right + 1, r : left - 1 .. right]] ==
        IF s.r <= s.l THEN s.arr
        ELSE LET parted == Parted(s.arr, s.l, s.r)
                 lower  == sort[[arr |-> parted.arr, l |-> s.l, r |-> parted.pivot - 1]]
             IN sort[[arr |-> lower, l |-> parted.pivot + 1, r |-> s.r]]
  IN sort[[arr |-> array, l |-> left, r |-> right]]

qsort(array, count) == _tk_quicksort(array, 0, count - 1)
=============================================================================
