---------------------------- MODULE SequenceFolds ---------------------------
(***************************************************************************)
(* Selecting from and concatenating sequences, with a set of elements      *)
(* where SelectSeq takes an operator, so that what they return can be      *)
(* stated once (module SequenceFacts) and cited for every use.             *)
(***************************************************************************)
EXTENDS Naturals, Sequences

\* For every n, the elements of S among the first n of s, in their order.
FilteredTo(s, S) ==
    LET F[n \in 0 .. Len(s)] ==
            IF n = 0 THEN <<>>
            ELSE IF s[n] \in S THEN Append(F[n - 1], s[n]) ELSE F[n - 1]
    IN F

Filter(s, S) == FilteredTo(s, S)[Len(s)]

Elements(s) == {s[i] : i \in DOMAIN s}

\* SelectSeq by that filter.
Where(s, test(_)) == Filter(s, {x \in Elements(s) : test(x)})

\* For every n, the first n of the sequences ss one after the other.
JoinedTo(ss) ==
    LET F[n \in 0 .. Len(ss)] == IF n = 0 THEN <<>> ELSE F[n - 1] \o ss[n]
    IN F

Flatten(ss) == JoinedTo(ss)[Len(ss)]
=============================================================================
