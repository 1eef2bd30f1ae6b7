------------------------- MODULE OneTimeCalculation -------------------------
(***************************************************************************)
(* What a one-time calculation promises: its input is on disk from its     *)
(* start until it is erased, and never again, and an account keeps it, with *)
(* a result, at most once.                                                 *)
(***************************************************************************)
EXTENDS Sequences

CONSTANTS Calculations, \* one-time calculations that may be started
          Inputs        \* contents of the courses a person may confirm

VARIABLES onDisk,  \* calculations whose input is in the temporary store
          erased,  \* calculations whose input was deleted
          kept     \* what accounts keep of them

vars == <<onDisk, erased, kept>>

Init == /\ onDisk = {}
        /\ erased = {}
        /\ kept = <<>>

Start(c) == /\ c \notin onDisk \cup erased
            /\ onDisk' = onDisk \cup {c}
            /\ UNCHANGED <<erased, kept>>

Keep(c) == /\ c \in onDisk \cup erased
           /\ \A i \in DOMAIN kept : kept[i].calc # c
           /\ \E rows, result \in Inputs :
                kept' = Append(kept, [calc |-> c, rows |-> rows, result |-> result])
           /\ UNCHANGED <<onDisk, erased>>

Erase(c) == /\ c \in onDisk
            /\ onDisk' = onDisk \ {c}
            /\ erased' = erased \cup {c}
            /\ UNCHANGED kept

Next == \E c \in Calculations : Start(c) \/ Keep(c) \/ Erase(c)

Spec == Init /\ [][Next]_vars
=============================================================================
