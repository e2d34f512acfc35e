---------------------------- MODULE Verification ----------------------------
(***************************************************************************)
(* The codes and action tokens of one user in Redis (verification.service) *)
(* : a code is stored for a context and mailed; the code, typed in, is     *)
(* exchanged for an action token of the context; the token is consumed by  *)
(* the action.  A code is the number of its issue, and a token has the     *)
(* number of the code it was given for; 0 is none.  Each operator is one   *)
(* call of Redis: the service makes several, and awaits each.              *)
(***************************************************************************)
EXTENDS Naturals

CONSTANT Contexts      \* what a code can be asked for

VARIABLES
  code,          \* verification:user:context, for 5 minutes
  actionToken    \* action-token:user:context, for 90 seconds

verificationVars == <<code, actionToken>>

VerificationTypeOK ==
  /\ code \in [Contexts -> Nat]
  /\ actionToken \in [Contexts -> Nat]

VerificationInit ==
  /\ code = [c \in Contexts |-> 0]
  /\ actionToken = [c \in Contexts |-> 0]

\* A code replaces the one before it.
SetCode(c, n) == code' = [code EXCEPT ![c] = n] /\ UNCHANGED actionToken

CodeMatches(c, n) == n # 0 /\ code[c] = n

\* Whatever code is there by now.
DeleteCode(c) == SetCode(c, 0)

SetToken(c, n) ==
  actionToken' = [actionToken EXCEPT ![c] = n] /\ UNCHANGED code

TokenMatches(c, n) == n # 0 /\ actionToken[c] = n

DeleteToken(c) == SetToken(c, 0)

\* Redis forgets what is past its time.
Expire(c) ==
  \/ code[c] # 0 /\ DeleteCode(c)
  \/ actionToken[c] # 0 /\ DeleteToken(c)

=============================================================================
