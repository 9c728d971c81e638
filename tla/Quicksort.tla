----------------------------- MODULE Quicksort -----------------------------
(***************************************************************************)
(* quicksort (libs/util/stdlib.c), made for the blocks of a long file      *)
(* name.  The pivot is a place and not a value, the places are ints, and   *)
(* the bounds of a call are unsigned: one below 0 is the largest there is. *)
(* A read outside of the array leaves what the model says: pc is "wild".   *)
(***************************************************************************)
EXTENDS Integers, Sequences

CONSTANTS
  SIZE,   \* values of a size_t (2^32)
  Inputs  \* arrays: sequences of the keys compar compares

ASSUME QuicksortAssumption ==
  /\ SIZE \in Nat \ {0} /\ SIZE % 2 = 0
  /\ Inputs # {} /\ \A s \in Inputs : s \in Seq(Int) /\ Len(s) \in 1 .. (SIZE \div 2) - 1

VARIABLES
  input, base,  \* the array as it was and as it is, element k at index k + 1
  calls,        \* quicksort_internal(left, right) that are still to run
  left, right, sortI, j,
  sortPc

sortVars == <<input, base, calls, left, right, sortI, j, sortPc>>

Inside(k) == k \in 0 .. Len(base) - 1
At(k) == base[k + 1]
pivot == left
AsInt(u) == IF u < SIZE \div 2 THEN u ELSE u - SIZE

SortStart ==
  /\ base = input
  /\ calls = << <<0, Len(input) - 1>> >>
  /\ left = 0 /\ right = 0 /\ sortI = 0 /\ j = 0
  /\ sortPc = "call"

SortInit == input \in Inputs /\ SortStart

\* The next call: it returns at once if there is nothing between its bounds.
SortCall ==
  /\ sortPc = "call" /\ calls # <<>>
  /\ calls' = Tail(calls)
  /\ left' = Head(calls)[1] /\ right' = Head(calls)[2]
  /\ sortI' = AsInt(left') /\ j' = AsInt(right')
  /\ sortPc' = IF left' >= right' THEN "call" ELSE "up"
  /\ UNCHANGED <<input, base>>

\* Bug: the scan passes elements that equal the pivot.
BugUp ==
  /\ sortPc = "up"
  /\ IF ~Inside(sortI) THEN sortPc' = "wild" /\ UNCHANGED sortI
     ELSE IF At(sortI) <= At(pivot) THEN sortI' = sortI + 1 /\ UNCHANGED sortPc
     ELSE sortPc' = "down" /\ UNCHANGED sortI
  /\ UNCHANGED <<input, base, calls, left, right, j>>

\* The loop upwards to an element that is not below the pivot, and the one downwards.
Up ==
  /\ sortPc = "up"
  /\ IF ~Inside(sortI) THEN sortPc' = "wild" /\ UNCHANGED sortI
     ELSE IF At(sortI) < At(pivot) THEN sortI' = sortI + 1 /\ UNCHANGED sortPc
     ELSE sortPc' = "down" /\ UNCHANGED sortI
  /\ UNCHANGED <<input, base, calls, left, right, j>>

Down ==
  /\ sortPc = "down"
  /\ IF ~Inside(j) THEN sortPc' = "wild" /\ UNCHANGED j
     ELSE IF At(pivot) < At(j) THEN j' = j - 1 /\ UNCHANGED sortPc
     ELSE sortPc' = "swap" /\ UNCHANGED j
  /\ UNCHANGED <<input, base, calls, left, right, sortI>>

\* Bug: the places stay where they are after the swap.
BugSwap ==
  /\ sortPc = "swap" /\ sortI < j /\ sortPc' = "up"
  /\ base' = [base EXCEPT ![sortI + 1] = At(j), ![j + 1] = At(sortI)]
  /\ UNCHANGED <<input, calls, left, right, sortI, j>>

Swap ==
  /\ sortPc = "swap" /\ sortI < j /\ sortPc' = "up"
  /\ base' = [base EXCEPT ![sortI + 1] = At(j), ![j + 1] = At(sortI)]
  /\ sortI' = sortI + 1 /\ j' = j - 1
  /\ UNCHANGED <<input, calls, left, right>>

\* Bug: the left part ends one further down.
BugSplit ==
  /\ sortPc = "swap" /\ sortI >= j /\ sortPc' = "call"
  /\ calls' = << <<left, (sortI - 2) % SIZE>>, <<j + 1, right>> >> \o calls
  /\ UNCHANGED <<input, base, left, right, sortI, j>>

\* Bug: the right part begins before the place the scans met.
BugSplitRight ==
  /\ sortPc = "swap" /\ sortI >= j /\ sortPc' = "call"
  /\ calls' = << <<left, (sortI - 1) % SIZE>>, <<j - 1, right>> >> \o calls
  /\ UNCHANGED <<input, base, left, right, sortI, j>>

\* The scans have met: the two parts are sorted, the left one first.
Split ==
  /\ sortPc = "swap" /\ sortI >= j /\ sortPc' = "call"
  /\ calls' = << <<left, (sortI - 1) % SIZE>>, <<j + 1, right>> >> \o calls
  /\ UNCHANGED <<input, base, left, right, sortI, j>>

SortNext == SortCall \/ Up \/ Down \/ Swap \/ Split

SortSpec == SortInit /\ [][SortNext]_sortVars /\ WF_sortVars(SortNext)

-----------------------------------------------------------------------------
QuicksortTypeOK ==
  /\ DOMAIN base = DOMAIN input
  /\ \A k \in DOMAIN calls : calls[k] \in (0 .. SIZE - 1) \X (0 .. SIZE - 1)
  /\ sortI \in -1 .. Len(base) /\ j \in -1 .. Len(base)
  /\ sortPc \in {"call", "up", "down", "swap", "wild"}

Returned == sortPc = "call" /\ calls = <<>>

\* What quicksort returns is in order and has each element as often as it was given.
Sorts ==
  Returned => /\ \A k \in 1 .. Len(base) - 1 : base[k] <= base[k + 1]
              /\ \E f \in [DOMAIN input -> DOMAIN input] :
                   /\ \A k, m \in DOMAIN input : f[k] = f[m] => k = m
                   /\ \A k \in DOMAIN input : base[k] = input[f[k]]

\* It leaves the array only if the first element is the smallest and the only such: the
\* left part then ends at -1.  The blocks of a long file name lie last first on a disk,
\* so the smallest is the last one.
LeavesForSmallestFirst ==
  sortPc = "wild" => Len(input) > 1 /\ \A k \in 2 .. Len(input) : input[1] < input[k]

\* It always comes to an end.
SortEnds == <>(Returned \/ sortPc = "wild")
=============================================================================
