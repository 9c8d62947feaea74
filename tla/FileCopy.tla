------------------------------ MODULE FileCopy ------------------------------
(***************************************************************************)
(* What a run of rcopy promises, whatever the network does: the output is  *)
(* written block by block in the order of the file, a transfer that ends   *)
(* as complete has written all of it, and one that is aborted leaves a     *)
(* prefix.                                                                 *)
(***************************************************************************)
EXTENDS Naturals, Sequences

CONSTANT Source         \* the file, a sequence of blocks

VARIABLES
    written,            \* the blocks written so far
    outcome             \* "copying", "complete" or "aborted"

copyVars == <<written, outcome>>

Init == written = << >> /\ outcome = "copying"

CopyBlock ==
    /\ outcome = "copying"
    /\ Len(written) < Len(Source)
    /\ written' = Append(written, Source[Len(written) + 1])
    /\ UNCHANGED outcome

Complete ==
    /\ outcome = "copying"
    /\ written = Source
    /\ outcome' = "complete"
    /\ UNCHANGED written

Abort ==
    /\ outcome = "copying"
    /\ outcome' = "aborted"
    /\ UNCHANGED written

Next == CopyBlock \/ Complete \/ Abort

Spec == Init /\ [][Next]_copyVars
=============================================================================
