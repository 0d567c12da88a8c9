-------------------------------- MODULE Feed --------------------------------
(***************************************************************************)
(* What watch.nativeBackend promises its caller, whatever the operating    *)
(* system: a change made under a watched root is told (onChange is called  *)
(* with its path after the change), or it is declared lost (logged, and    *)
(* left to the full rescan); and once Close has returned nothing is told.  *)
(* onChange makes the receiver read the file, so one call covers every     *)
(* change the file had when it was made.                                   *)
(***************************************************************************)
EXTENDS Naturals

CONSTANT Files

VARIABLES
    version,   \* [Files -> Nat]: changes made to the file
    told,      \* [Files -> Nat]: the version the last onChange found
    lost,      \* [Files -> Nat]: the version last left to the full rescan
    shut       \* Close has returned

vars == <<version, told, lost, shut>>

Init ==
    /\ version = [f \in Files |-> 0]
    /\ told = version
    /\ lost = version
    /\ shut = FALSE

Change ==
    /\ \E f \in Files : version' = [version EXCEPT ![f] = @ + 1]
    /\ \E S \in SUBSET Files :
          lost' = [f \in Files |-> IF f \in S THEN version'[f] ELSE lost[f]]
    /\ UNCHANGED <<told, shut>>

Tell ==
    /\ ~shut
    /\ \E f \in Files : told' = [told EXCEPT ![f] = version[f]]
    /\ UNCHANGED <<version, lost, shut>>

Lose ==
    /\ \E S \in SUBSET Files :
          lost' = [f \in Files |-> IF f \in S THEN version[f] ELSE lost[f]]
    /\ UNCHANGED <<version, told, shut>>

Shut ==
    /\ shut' = TRUE
    /\ UNCHANGED <<version, told, lost>>

Next == Change \/ Tell \/ Lose \/ Shut

Spec == Init /\ [][Next]_vars

=============================================================================
