----------------------------- MODULE VaultCalls -----------------------------
(***************************************************************************)
(* The vault together with a history variable: the account whose signature *)
(* carried the last step.  Two calls that change the vault alike (a        *)
(* transfer by the owner, one by a spender) are told apart by it, so what  *)
(* an account consented to can be stated.                                  *)
(***************************************************************************)
EXTENDS Vault

VARIABLE caller          \* NoOne for an admin call or a step of the environment

SignedCall(from) ==
  /\ PricedCall(from) \/ UnpricedCall(from)
  /\ UNCHANGED quote
  /\ caller' = from

Unsigned ==
  /\ (Lifecycle /\ UNCHANGED quote) \/ Environment
  /\ caller' = NoOne

CallsInit == Init /\ caller = NoOne
CallsNext == Unsigned \/ \E from \in Signers : SignedCall(from)
CallsSpec == CallsInit /\ [][CallsNext]_<<vaultVars, caller>>

-----------------------------------------------------------------------------
(* Properties *)

\* Shares leave an account only in a call its owner signs, or in one signed by
\* a spender whose live allowance covers them and shrinks by exactly as much
\* (`require_auth` on `from` in withdraw and transfer, on `spender` before
\* spend_allowance in transfer_from).
AllowanceUsed(owner, n) ==
  \E spender \in Signers : /\ caller' = spender
                          /\ Allowance(<<owner, spender>>) >= n
                          /\ Allowance(<<owner, spender>>)' = Allowance(<<owner, spender>>) - n
SharesLeaveByConsent ==
  [][\A a \in Accounts :
       bal'[a] < bal[a] => caller' = a \/ AllowanceUsed(a, bal[a] - bal'[a])
    ]_<<vaultVars, caller>>
=============================================================================
