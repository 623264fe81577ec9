---------------------------- MODULE ImportClaims ----------------------------
(***************************************************************************)
(* What the download workers promise about imports, whatever the requests  *)
(* do to the rows meanwhile: an import is carried out under a claim, the   *)
(* claims of one run are settled before another run claims, no row is      *)
(* claimed while it counts as imported, and only a claim imports.          *)
(***************************************************************************)

CONSTANT Rows

VARIABLES imported, claimed

claimVars == <<imported, claimed>>

ClaimsTypeOK == imported \subseteq Rows /\ claimed \subseteq Rows

ClaimsInit == imported = {} /\ claimed = {}

\* A run queues its imports.
Claim(S) == /\ claimed = {} /\ S \cap imported = {}
            /\ claimed' = S
            /\ UNCHANGED imported

\* One import ends well.
Import(d) == /\ d \in claimed
             /\ imported' = imported \union {d}
             /\ claimed' = claimed \ {d}

\* Imports end badly, one of them or all that are left.
GiveUp(S) == /\ claimed' = claimed \ S
             /\ UNCHANGED imported

\* Someone deletes an imported row, discards it or asks for it again.
Withdraw(S) == /\ imported' = imported \ S
               /\ UNCHANGED claimed

ClaimsNext == \/ \E S \in SUBSET Rows : Claim(S) \/ GiveUp(S) \/ Withdraw(S)
              \/ \E d \in Rows : Import(d)

ClaimsSpec == ClaimsInit /\ [][ClaimsNext]_claimVars

\* A row that counts as imported is not being imported again.
ClaimsDisjoint == imported \cap claimed = {}

=============================================================================
