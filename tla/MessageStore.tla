---------------------------- MODULE MessageStore ----------------------------
(***************************************************************************)
(* What IMessageStore promises a session about the state that survives a   *)
(* restart: two sequence numbers and the outbound frames a ResendRequest   *)
(* can be served from.  Every operation changes one of the two in one      *)
(* indivisible step or not at all, and a process that dies changes neither. *)
(***************************************************************************)
EXTENDS Integers

CONSTANTS MaxSeq, Frames

VARIABLES nums,   \* NextSenderMsgSeqNum and NextTargetMsgSeqNum
          frames  \* the frame kept under each number

vars == <<nums, frames>>

Nothing == [n \in 1 .. MaxSeq |-> "none"]

First == [sender |-> 1, target |-> 1]

Init == nums = First /\ frames = Nothing

\* next_sender_seq_num_incr.
Claim ==
    /\ nums.sender < MaxSeq
    /\ nums' = [nums EXCEPT !.sender = @ + 1]
    /\ UNCHANGED frames

\* set_next_sender_seq_num, as Session uses it: the last claim is given back.
GiveBack ==
    /\ nums.sender > 1
    /\ nums' = [nums EXCEPT !.sender = @ - 1]
    /\ UNCHANGED frames

\* set_next_target_seq_num and advance_next_target_seq_num.
SetTarget(n) == nums' = [nums EXCEPT !.target = n] /\ UNCHANGED frames

\* store_outbound, under a number that has been claimed.
Store(n, f) == n < nums.sender /\ frames' = [frames EXCEPT ![n] = f] /\ UNCHANGED nums

\* reset: the numbers start again only once the old frames are gone.
Purge == frames' = Nothing /\ UNCHANGED nums

Renumber == frames = Nothing /\ nums' = First /\ UNCHANGED frames

Next ==
    \/ Claim
    \/ GiveBack
    \/ \E n \in 1 .. MaxSeq : SetTarget(n) \/ \E f \in Frames : Store(n, f)
    \/ Purge
    \/ Renumber

Spec == Init /\ [][Next]_vars
=============================================================================
