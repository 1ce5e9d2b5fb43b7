------------------------------ MODULE StableSort ----------------------------
(***************************************************************************)
(* stable.js, the merge sort every recorded page installs as               *)
(* Array.prototype.sort: an engine's own sort may order equal elements as  *)
(* it likes, and a replay that meets them in another order than the        *)
(* recording is a different program.  comp[a, b] is negative, zero or      *)
(* positive; positions count from 0 as in the code.                        *)
(***************************************************************************)
EXTENDS Integers, Sequences, SequencesExt

LOCAL Least(a, b) == IF a < b THEN a ELSE b

\* The loop over one pair of chunks, arr[li .. r) and arr[ri .. e).
merge(arr, comp, l, r, e) ==
    LET m[i \in 0 .. e - l, li \in l .. r] ==
            LET ri == r + (i - (li - l))
                takeLeft == li < r /\ (ri >= e \/ comp[arr[li + 1], arr[ri + 1]] <= 0)
            IN  IF i = e - l THEN <<>>
                ELSE IF takeLeft THEN <<arr[li + 1]>> \o m[i + 1, li + 1]
                ELSE <<arr[ri + 1]>> \o m[i + 1, li]
    IN  m[0, l]

\* One pass over the pairs of chunks of size chk.
pass(arr, comp, chk) ==
    LET len == Len(arr)
        p[l \in 0 .. len + 2 * chk] ==
            IF l >= len THEN <<>>
            ELSE LET r == Least(l + chk, len)
                     e == Least(r + chk, len)
                 IN  merge(arr, comp, l, r, e) \o p[l + 2 * chk]
    IN  p[0]

stable(arr, comp) ==
    LET s[chk \in 1 .. 2 * Len(arr)] ==
            LET before == IF chk = 1 THEN arr ELSE s[chk \div 2]
            IN  pass(before, comp, chk)
        lastChk == CHOOSE c \in {2^k : k \in 0 .. Len(arr)} : c < Len(arr) /\ 2 * c >= Len(arr)
    IN  IF Len(arr) <= 1 THEN arr ELSE s[lastChk]

\* The comparator used when the caller passes none; the elements stand for
\* strings through their place in the order of strings.
byString == [a, b \in Int |-> a - b]

\* What a stable sort is: the permutation that is ordered and keeps the
\* order of the elements that compare equal.
IsStableSortOf(out, arr, comp) ==
    \E p \in [DOMAIN arr -> DOMAIN arr] :
        /\ \A i, j \in DOMAIN arr : i < j =>
              /\ p[i] # p[j]
              /\ comp[arr[p[i]], arr[p[j]]] < 0 \/ (comp[arr[p[i]], arr[p[j]]] = 0 /\ p[i] < p[j])
        /\ out = [i \in DOMAIN arr |-> arr[p[i]]]
=============================================================================
