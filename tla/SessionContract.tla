-------------------------- MODULE SessionContract --------------------------
(***************************************************************************)
(* What a host may rely on: sessions follow one another; each ends; one in *)
(* which words were heard and that nobody cancelled is delivered, once,    *)
(* and no other is.                                                        *)
(***************************************************************************)
EXTENDS Naturals

CONSTANT MaxSessions

VARIABLES session,   \* sessions begun
          listening, \* is the last of them still running?
          heard,     \* was anything recognised in it?
          outcome    \* how each session ended

contractVars == <<session, listening, heard, outcome>>

Outcomes == {"none", "delivered", "cancelled", "silent"}

ContractInit ==
    /\ session = 0 /\ listening = FALSE /\ heard = FALSE
    /\ outcome = [s \in 0..MaxSessions |-> "none"]

Listen ==
    /\ ~listening /\ session < MaxSessions
    /\ session' = session + 1 /\ listening' = TRUE /\ heard' = FALSE
    /\ UNCHANGED outcome

Hear == listening /\ heard' = TRUE /\ UNCHANGED <<session, listening, outcome>>

End(result) ==
    /\ listening
    /\ listening' = FALSE /\ heard' = FALSE
    /\ outcome' = [outcome EXCEPT ![session] = result]
    /\ UNCHANGED session

Deliver == heard /\ End("delivered")
Cancel == End("cancelled")
GiveUp == ~heard /\ End("silent")

ContractNext == Listen \/ Hear \/ Deliver \/ Cancel \/ GiveUp

ContractSafety == ContractInit /\ [][ContractNext]_contractVars

\* Every session ends.
ContractSpec == ContractSafety /\ WF_contractVars(Deliver \/ Cancel \/ GiveUp)
=============================================================================
