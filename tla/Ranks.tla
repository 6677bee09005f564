------------------------------- MODULE Ranks -------------------------------
(***************************************************************************)
(* The manual order: rank.ts.  A rank is a sequence of digits, compared as *)
(* strings are; << >> stands for an end that is open.                      *)
(***************************************************************************)
EXTENDS Integers, Sequences, FiniteSetsExt

CONSTANTS
  Base   \* how many digits there are (DIGITS.length)

ASSUME BaseAssumption == Base \in Nat /\ Base >= 2

Digits == 0 .. Base - 1
Rank == Seq(Digits)
Open == << >>

\* How strings compare: the first digit that differs decides, and a rank
\* comes after each of its prefixes.
Below(a, b) ==
  \E k \in 1 .. Len(b) :
    /\ \A j \in 1 .. k - 1 : j <= Len(a) /\ a[j] = b[j]
    /\ k <= Len(a) => a[k] < b[k]

\* Digit i of the lower end, zeros after its last.
low(before, i) == IF i <= Len(before) THEN before[i] ELSE 0

\* At digit i the ends are still equal before it, so the upper end bounds it.
bounded(before, after, i) ==
  /\ i <= Len(after)
  /\ \A j \in 1 .. i - 1 : low(before, j) = after[j]

high(before, after, i) ==
  IF bounded(before, after, i) THEN after[i] ELSE Base

\* There is a rank between the two: the upper end is open, or above the lower
\* one by more than zeros.
Apart(before, after) ==
  \/ after = Open
  \/ \E i \in 1 .. Len(after) :
       bounded(before, after, i) /\ low(before, i) < after[i]

\* The digit at which the new rank leaves the lower end: the first with room
\* for one in between.
Room(before, after, i) == high(before, after, i) - low(before, i) > 1

rankBetween(before, after) ==
  LET last == CHOOSE i \in 1 .. Len(before) + Len(after) + 1 :
                /\ Room(before, after, i)
                /\ \A j \in 1 .. i - 1 : ~Room(before, after, j)
  IN  [i \in 1 .. last |->
         IF i < last THEN low(before, i)
                     ELSE (low(before, i) + high(before, after, i)) \div 2]

----------------------------------------------------------------------------

\* n ranks in between, ascending, by halving.
ranksBetween[before \in Rank, after \in Rank, n \in Nat] ==
  IF n = 0 THEN << >>
  ELSE LET mid == rankBetween(before, after)
           left == (n - 1) \div 2
       IN  ranksBetween[before, mid, left] \o << mid >>
             \o ranksBetween[mid, after, n - 1 - left]

tied(lower, upper) == ~Below(lower, upper) \/ ~Apart(lower, upper)

\* What `moved' is put after is the gap-th of `ordered' (0: it becomes the
\* first).  When the neighbours tie, the tied run is ranked anew with it.
rankWrites(ordered, rankOf, moved, gap) ==
  LET n == Len(ordered)
      at(k) == IF k \in 1 .. n THEN rankOf[ordered[k]] ELSE Open
      lower == at(gap)
      run == IF gap = 0 \/ gap = n \/ ~tied(lower, at(gap + 1)) THEN gap
             ELSE Max({k \in gap + 1 .. n : \A j \in gap + 1 .. k :
                                              tied(lower, at(j))})
      ids == << moved >> \o SubSeq(ordered, gap + 1, run)
      ranks == ranksBetween[lower, at(run + 1), Len(ids)]
  IN  [k \in 1 .. Len(ids) |-> [id |-> ids[k], rank |-> ranks[k]]]
=============================================================================
