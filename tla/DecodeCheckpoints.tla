-------------------------- MODULE DecodeCheckpoints --------------------------
(***************************************************************************)
(* The decode checkpoints of one generation (DecodeCheckpoints of          *)
(* src/serve/session.rs) and the decode loop that asks for them at every   *)
(* point of rest (src/generate.rs).  A speculative step confirms several   *)
(* tokens at once, so positions between two rests are never asked about.   *)
(***************************************************************************)
EXTENDS DecodeSpacing, Sequences

CONSTANTS Intervals,   \* the intervals a generation may be given; 0: none
          Maxima,      \* the numbers of checkpoints it may hold
          Starts,      \* where its prefill may end
          Drafts,      \* the numbers of draft tokens a step may verify
          LastPos      \* bound: where the generation ends at the latest

ASSUME DecodeAssumption ==
    /\ Intervals \subseteq Nat /\ Maxima \subseteq Nat /\ Starts \subseteq Nat
    /\ Drafts \subseteq Nat /\ LastPos \in Nat

VARIABLES
    interval,  \* what the generation was given (the code keeps only `stride`)
    max, start,
    drafts,    \* a step confirms up to one token more
    stride,    \* tokens between two checkpoints, so far
    snapshots, \* the positions of the ones held
    pos,       \* tokens the state holds
    loop       \* "step", "ask" (a point of rest ahead), "rest" (one is due)

vars == <<interval, max, start, drafts, stride, snapshots, pos, loop>>

LastFromZero(held) == IF held = <<>> THEN 0 ELSE held[Len(held)] \* mutant: counts from 0
last_pos(held) == IF held = <<>> THEN start ELSE held[Len(held)]
next_at(held, every) == last_pos(held) + every

(* Mutants: the newest half is dropped; the oldest of each two stays. *)
ThinEven(held) == [i \in 1 .. (Len(held) + 1) \div 2 |-> held[2 * i - 1]]

(* Every other one goes, the oldest first. *)
thin(held) == [i \in 1 .. Len(held) \div 2 |-> held[2 * i]]

Init ==
    /\ interval \in Intervals /\ max \in Maxima /\ start \in Starts /\ drafts \in Drafts
    /\ stride = interval /\ snapshots = <<>> /\ pos = start /\ loop = "step"

(* The loop feeds `n` more tokens. *)
Step(n) ==
    /\ loop = "step" /\ pos + n =< LastPos
    /\ pos' = pos + n /\ loop' = "ask"
    /\ UNCHANGED <<interval, max, start, drafts, stride, snapshots>>

FullAlways == TRUE                 \* mutant: thins whenever it is asked
Full == Len(snapshots) >= max
MayBeDue == stride # 0 /\ max # 0 /\ pos >= next_at(snapshots, stride)

(* due: thins when one more is due with all of them held.  The loop may    *)
(* ask again (before and after it drained its pipeline).                   *)
due ==
    /\ loop \in {"ask", "rest"}
    /\ IF MayBeDue /\ Full
       THEN /\ snapshots' = thin(snapshots) /\ stride' = 2 * stride
            /\ loop' = IF pos >= next_at(thin(snapshots), 2 * stride) THEN "rest" ELSE "step"
       ELSE loop' = (IF MayBeDue THEN "rest" ELSE "step") /\ UNCHANGED <<snapshots, stride>>
    /\ UNCHANGED <<interval, max, start, drafts, pos>>

take ==
    /\ loop = "rest"
    /\ snapshots' = Append(snapshots, pos) /\ loop' = "step"
    /\ UNCHANGED <<interval, max, start, drafts, stride, pos>>

(* The generation ends where it is. *)
Ended == loop = "step" /\ UNCHANGED vars

Next == (\E n \in 1 .. drafts + 1 : Step(n)) \/ due \/ take \/ Ended

Spec == Init /\ [][Next]_vars
-----------------------------------------------------------------------------
(* Every checkpoint is at a position this generation has fed. *)
DecodeTypeOK ==
    /\ {interval, max, start, drafts, stride, pos} \subseteq Nat
    /\ snapshots \in Seq(start + 1 .. pos)
    /\ loop \in {"step", "ask", "rest"}

(* What admission counts for a request is never exceeded, however many     *)
(* tokens the steps confirm (decode_checkpoints_within).                   *)
AdmissionCovers ==
    /\ Len(snapshots) =< max
    /\ Len(snapshots) * interval =< pos - start

(* The ensures of take: a checkpoint that is due lies behind the last one. *)
TakeInOrder == loop = "rest" => last_pos(snapshots) < pos /\ Len(snapshots) < max

(* Checkpoints fit: into what admission reserved, and behind each other.   *)
CheckpointsFit == AdmissionCovers /\ TakeInOrder

(* Resume points stay evenly spread: no gap, nor the stretch since the     *)
(* last of them, exceeds the stride by more than what the steps skipped.   *)
EvenlySpread ==
    loop = "step" /\ stride # 0 /\ max # 0 =>
        \A i \in 1 .. Len(snapshots) + 1 :
            LET from == IF i = 1 THEN start ELSE snapshots[i - 1]
                to   == IF i > Len(snapshots) THEN pos ELSE snapshots[i]
            IN  /\ to - from < stride + (stride \div interval) * (drafts + 1)
                /\ i =< Len(snapshots) => to - from >= stride

(* Asked again about the same position, the answer is the same.            *)
SameAnswer == [][due /\ loop = "rest" => loop' = "rest"]_vars

(* Step by step, the checkpoints are where decode_positions says: that is  *)
(* what SessionStore takes for a whole generation.                         *)
AgreesWithPositions ==
    drafts = 0 /\ loop = "step" =>
        {snapshots[i] : i \in 1 .. Len(snapshots)} = decode_positions(interval, max, start, pos)

(* Both: where an answer can be resumed, and where the store expects it.   *)
WellSpaced == DecodeTypeOK /\ EvenlySpread /\ AgreesWithPositions
=============================================================================
