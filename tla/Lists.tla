-------------------------------- MODULE Lists --------------------------------
(***************************************************************************)
(* Lists and what Vec::retain and Iterator::filter do to them.  Filter is  *)
(* a recursive function, about which more can be proved than about         *)
(* SelectSeq.                                                              *)
(***************************************************************************)
EXTENDS Integers, Sequences

NoRepeats(s) == \A i, j \in 1..Len(s) : s[i] = s[j] => i = j
Elems(s) == {s[i] : i \in 1..Len(s)}

(* The elements of s that are in S, in the order of s.                     *)
Kept(s, S) ==
    LET kept[i \in 0..Len(s)] == IF i = 0 THEN <<>>
                                 ELSE IF s[i] \in S THEN Append(kept[i - 1], s[i])
                                 ELSE kept[i - 1]
    IN  kept
Filter(s, S) == Kept(s, S)[Len(s)]
Without(s, S) == Filter(s, Elems(s) \ S)

(* The elements of s that are not in S, each where it comes first.         *)
Firsts(s, S) == {i \in 1..Len(s) : s[i] \notin S /\ \A j \in 1..(i - 1) : s[j] # s[i]}
NewOnes(s, S) ==
    LET at == Filter([i \in 1..Len(s) |-> i], Firsts(s, S))
    IN  [i \in 1..Len(at) |-> s[at[i]]]
=============================================================================
