--------------------------- MODULE ExportRegister ---------------------------
(***************************************************************************)
(* What the export repository promises: for every key a register that is   *)
(* written at most once, with a complete export, and whose writers are     *)
(* told either what it holds or that they failed.                          *)
(***************************************************************************)
CONSTANTS Keys, Writers, Nothing, Failed

VARIABLES
    register,   \* the export published under each key, or Nothing
    told        \* what a writer was told: Nothing, Failed, or an export

RegisterInit ==
    /\ register = [k \in Keys |-> Nothing]
    /\ told = [w \in Writers |-> Nothing]

\* A key that holds nothing gets an export.
Publish == \E k \in Keys :
    /\ register[k] = Nothing
    /\ register'[k] # Nothing
    /\ \A other \in Keys \ {k} : register'[other] = register[other]

\* A writer is told what a key holds now, or that it failed.
Tell == \E w \in Writers :
    /\ told[w] = Nothing
    /\ \/ told'[w] = Failed
       \/ \E k \in Keys : register'[k] # Nothing /\ told'[w] = register'[k]
    /\ \A other \in Writers \ {w} : told'[other] = told[other]

RegisterNext ==
    /\ Publish \/ register' = register
    /\ Tell \/ told' = told

RegisterSpec == RegisterInit /\ [][RegisterNext]_<<register, told>>
=============================================================================
