---------------------------- MODULE BoundedQueue ----------------------------
(***************************************************************************)
(* What FreeRTOS queues promise: bounded sequences.  An item goes to the   *)
(* back or to the front of one that has space, or replaces what a queue of *)
(* length one holds; the first is taken, once, and recorded.               *)
(***************************************************************************)
EXTENDS Naturals, Sequences

CONSTANTS Length,    \* Length[q]: how many items queue q holds
          Items      \* what may be put

VARIABLES contents,  \* contents[q]: its items, the next to be taken first
          taken      \* taken[q]: the items taken so far

Put(q, s) ==
    /\ \E item \in {s[i] : i \in DOMAIN s} \cap Items :
        \/ s = Append(contents[q], item)
        \/ s = <<item>> \o contents[q]
        \/ s = <<item>> /\ Length[q] = 1
    /\ Len(s) <= Length[q]
    /\ contents' = [contents EXCEPT ![q] = s]
    /\ UNCHANGED taken

Take(q) ==
    /\ contents[q] # <<>>
    /\ contents' = [contents EXCEPT ![q] = Tail(@)]
    /\ taken' = [taken EXCEPT ![q] = Append(@, Head(contents[q]))]

Init == /\ contents = [q \in DOMAIN Length |-> <<>>]
        /\ taken = [q \in DOMAIN Length |-> <<>>]

Next == \E q \in DOMAIN Length : Put(q, contents'[q]) \/ Take(q)

Spec == Init /\ [][Next]_<<contents, taken>>

=============================================================================
