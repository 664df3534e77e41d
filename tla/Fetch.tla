-------------------------------- MODULE Fetch --------------------------------
(***************************************************************************)
(* What a download promises, without connections, threads or a log: blocks *)
(* of the remote file are gathered into a partial file, never lost and     *)
(* never misplaced, and the target appears only by publishing a partial    *)
(* file that holds every block.                                            *)
(***************************************************************************)
EXTENDS Integers

CONSTANT Size           \* length of the remote file in blocks

VARIABLES
  stored,               \* offsets the partial file holds correctly
  target                \* the finished file: "absent", "whole" or "damaged"

fetchVars == <<stored, target>>

Offset == 0 .. (Size - 1)

Init ==
  /\ stored = {}
  /\ target = "absent"

(* More blocks arrive; whatever was stored stays. *)
Store ==
  /\ stored' \in SUBSET Offset
  /\ stored \subseteq stored'
  /\ UNCHANGED target

(* The whole partial file becomes the target; the next download of the     *)
(* same URL starts from nothing.                                           *)
Publish ==
  /\ stored = Offset
  /\ stored' = {}
  /\ target' = "whole"

Next == Store \/ Publish

Spec == Init /\ [][Next]_fetchVars

(* The target, once there, is the whole remote file: no step of a later    *)
(* download of the same URL damages it.                                    *)
TargetWhole == target # "damaged"
=============================================================================
