------------------------------ MODULE Retention ------------------------------
(***************************************************************************)
(* What the storage of a video store promises about each segment: it is    *)
(* recorded, completed, listed in the index, condemned when it is the      *)
(* oldest that is listed, and deleted, in this order.  Nothing is deleted  *)
(* unseen but a recording that was never completed, and nothing comes      *)
(* back, except that losing the index un-lists what it held.               *)
(***************************************************************************)
EXTENDS Integers

CONSTANT Segment   \* the start times of the segments

VARIABLES
    life,    \* "gone", "recording", "complete", "listed" or "condemned"
    latest   \* the segment recorded last: none is recorded twice

abstractVars == <<life, latest>>

In(stage) == {f \in Segment : life[f] = stage}

Init == /\ life = [f \in Segment |-> "gone"]
        /\ latest = 0

Moves(f, from, to) ==
    /\ life[f] = from
    /\ life' = [life EXCEPT ![f] = to]

Record(f) ==
    /\ f > latest
    /\ latest' = f
    /\ Moves(f, "gone", "recording")

Complete(f) == Moves(f, "recording", "complete") /\ UNCHANGED latest
List(f)     == Moves(f, "complete", "listed")    /\ UNCHANGED latest

(***************************************************************************)
(* The oldest segment of the index, and no other, may be condemned.        *)
(***************************************************************************)
Condemn(f) ==
    /\ \A g \in In("listed") : f <= g
    /\ Moves(f, "listed", "condemned")
    /\ UNCHANGED latest

Delete(f)   == Moves(f, "condemned", "gone") /\ UNCHANGED latest
Discard(f)  == Moves(f, "recording", "gone") /\ UNCHANGED latest

(***************************************************************************)
(* The index is lost and what it held has to be listed again.              *)
(***************************************************************************)
Forget ==
    /\ UNCHANGED latest
    /\ life' = [f \in Segment |->
                   IF life[f] \in {"listed", "condemned"} THEN "complete" ELSE life[f]]

Next ==
    \/ \E f \in Segment : \/ Record(f) \/ Complete(f) \/ List(f)
                          \/ Condemn(f) \/ Delete(f) \/ Discard(f)
    \/ Forget

Spec == Init /\ [][Next]_abstractVars
=============================================================================
