--------------------------- MODULE AccountsProofs ---------------------------
(***************************************************************************)
(* Proofs about Accounts for any handlers and bounds.                      *)
(***************************************************************************)
EXTENDS Accounts, TLAPS

\* The numbers that were issued for each purpose.
Of == [c \in Purposes |-> {n \in Numbers : issued[n] = c}]

\* TypeOK in its parts; the links that the row takes were issued.
UserOK ==
  user \in [registered : BOOLEAN, emailVerified : BOOLEAN,
            isTwoFactorEnabled : BOOLEAN, verifyLink : 0..Len(issued),
            resetLink : 0..Len(issued)]

SecretsOK ==
  /\ VerificationTypeOK
  /\ issued \in Seq(Purposes)
  /\ Len(issued) <= MaxIssued
  /\ mailed \subseteq Numbers
  /\ granted \subseteq mailed
  /\ expired \subseteq Numbers

HandlersOK ==
  task \in [Procs -> [op : Ops, purpose : Purposes, n : 0..MaxIssued,
                      goal : Goals]]

SessionsOK ==
  /\ sessions \subseteq [claim : Claims, n : 0..MaxIssued]
  /\ crashes \in Nat

Typed == UserOK /\ SecretsOK /\ HandlersOK /\ SessionsOK

\* What is in Redis under a context was issued for it.
StoredInv ==
  \A c \in Contexts : /\ code[c] # 0 => code[c] \in Of[c]
                      /\ actionToken[c] # 0 => actionToken[c] \in Of[c]

\* What a handler knows of the secret that it makes.
Making(t) ==
  /\ t.op \in {"link_write", "link_mail"} => t.purpose \in Links
  /\ t.op \in {"code_set", "code_mail"} => t.purpose \in Contexts
  /\ t.op \in {"link_mail", "code_mail"} => t.n \in Of[t.purpose]

\* What it knows of the code that it verifies, before and after it compares.
Verifying(t) ==
  /\ t.op \in {"verify_get", "verify_delete", "verify_grant"} =>
       /\ t.n \in mailed
       /\ t.goal \in {"confirm", "enable", "disable", "login"}
       /\ t.purpose \in Contexts
       /\ t.goal = "disable" => t.purpose = "DISABLE_2FA"
       /\ t.goal \in {"enable", "login"} => t.purpose = "LOGIN_2FA"
  /\ t.op \in {"verify_delete", "verify_grant"} => t.n \in Of[t.purpose]

\* What it knows of the secret on the strength of which it writes.
Using(t) ==
  /\ t.op = "two_factor_write" =>
       \/ t.goal = "enable" /\ t.n \in Of["LOGIN_2FA"]
       \/ t.goal = "disable" /\ t.n \in Of["DISABLE_2FA"]
  /\ t.op = "session" => t.n \in Of["LOGIN_2FA"]
  /\ t.op \in {"consume_delete", "profile_write"} =>
       t.n \in Of["UPDATE_USER_PROFILE"]
  /\ t.op = "verify_write" => t.n \in Of["verify"]
  /\ t.op = "reset_write" => t.n \in Of["reset"]

Good(t) == Making(t) /\ Verifying(t) /\ Using(t)

TasksInv == \A p \in Procs : Good(task[p])

\* UsedAsIssued, for the purposes that there are.
Need(for) ==
  CASE for = "disable"              -> "DISABLE_2FA"
    [] for \in {"enable", "login"} -> "LOGIN_2FA"
    [] for = "profile"              -> "UPDATE_USER_PROFILE"
    [] OTHER                         -> for

Deeds == {"enable", "disable", "login", "profile"} \cup Links

UsesInv ==
  /\ uses \subseteq [of : 0..MaxIssued, for : Deeds]
  /\ \A u \in uses : u.of \in Of[Need(u.for)]

\* NewestLinkWorks, from the moment that the row takes the link: before it is
\* mailed, too.
LinkInv ==
  \A n \in Of["verify"] \ expired :
    \/ user.verifyLink = n
    \/ user.emailVerified
    \/ \E m \in Of["verify"] : m > n

IInv ==
  /\ Typed
  /\ StoredInv
  /\ TasksInv
  /\ UsesInv
  /\ SecondFactorWasGiven
  /\ LinkInv

\* Nothing is taken back: numbers keep their purpose, and what was mailed
\* stays mailed.
Keeps ==
  /\ mailed \subseteq mailed'
  /\ \A c \in Purposes : Of[c] \subseteq Of'[c]

-----------------------------------------------------------------------------

\* At first nothing is issued.
LEMMA InitInv == Init => IInv
<1> SUFFICES ASSUME Init PROVE IInv
  OBVIOUS
<1> USE AccountsAssumption DEF Init, VerificationInit, IdleTask
<1>1. issued \in Seq(Purposes) /\ Len(issued) = 0 /\ Len(issued) <= MaxIssued
  OBVIOUS
<1>2. Typed
  BY <1>1
     DEF Typed, UserOK, SecretsOK, HandlersOK, SessionsOK,
         VerificationTypeOK, Ops, Goals, Purposes, Links, Numbers
<1>3. StoredInv /\ UsesInv /\ SecondFactorWasGiven
  BY DEF StoredInv, UsesInv, SecondFactorWasGiven
<1>4. TasksInv
  BY DEF TasksInv, Good, Making, Verifying, Using
<1>5. LinkInv
  <2>1. "verify" \in Purposes
    BY DEF Purposes, Links
  <2>2. Of["verify"] = {}
    BY <1>1, <2>1 DEF Of, Numbers
  <2> QED
    BY <2>2 DEF LinkInv
<1> QED
  BY <1>2, <1>3, <1>4, <1>5 DEF IInv

\* The next number is issued for its purpose, and the others keep theirs.
LEMMA Issuing ==
  ASSUME Typed, NEW c \in Purposes, Issue(c)
  PROVE  /\ issued' \in Seq(Purposes)
         /\ Len(issued') = Fresh
         /\ Fresh \in 1..MaxIssued
         /\ Fresh \in Of'[c]
         /\ Numbers \subseteq Numbers'
         /\ \A d \in Purposes : Of[d] \subseteq Of'[d]
<1> USE AccountsAssumption DEF Typed, SecretsOK, Issue, Fresh, Numbers
<1>1. issued \in Seq(Purposes) /\ Len(issued) \in Nat
  OBVIOUS
<1>2. /\ issued' \in Seq(Purposes)
      /\ Len(issued') = Len(issued) + 1
      /\ issued'[Len(issued) + 1] = c
      /\ \A n \in 1..Len(issued) : issued'[n] = issued[n]
  BY <1>1
<1>3. Fresh \in Of'[c] /\ \A d \in Purposes : Of[d] \subseteq Of'[d]
  BY <1>1, <1>2 DEF Of
<1> QED
  BY <1>1, <1>2, <1>3

\* Where nothing is issued or mailed, nothing changes.
LEMMA Same ==
  ASSUME UNCHANGED issued, mailed \subseteq mailed'
  PROVE  Keeps
BY DEF Keeps, Of, Numbers

\* No step takes anything back.
LEMMA StepKeeps == Typed /\ TasksInv /\ [Next]_vars => Keeps
<1> SUFFICES ASSUME Typed, TasksInv, [Next]_vars
             PROVE  Keeps
  OBVIOUS
<1>1. ASSUME NEW p \in Procs, LinkWrite(p) \/ CodeSet(p)
      PROVE  Keeps
  <2>1. task[p].purpose \in Purposes
    BY <1>1 DEF Typed, HandlersOK
  <2>2. Issue(task[p].purpose) /\ UNCHANGED mailed
    BY <1>1 DEF LinkWrite, CodeSet
  <2> QED
    BY <2>1, <2>2, Issuing DEF Keeps
<1>2. ASSUME NEW p \in Procs, LinkMail(p) \/ CodeMail(p)
      PROVE  Keeps
  BY <1>2, Same DEF LinkMail, CodeMail
<1>3. CASE UNCHANGED <<issued, mailed>>
  BY <1>3, Same
<1>4. ASSUME NEW p \in Procs, Begin(p)
      PROVE  Keeps
  BY <1>3, <1>4
     DEF Begin, StartRegister, StartTenant, StartVerifyLink, StartResetLink,
         Link, StartVerifyEmail, StartReset, Find, StartCode, StartVerify,
         StartSecondStep, StartUpdate
<1>5. ASSUME NEW p \in Procs, Step(p)
      PROVE  Keeps
  BY <1>1, <1>2, <1>3, <1>5
     DEF Step, RegisterFind, RegisterCreate, VerifyWrite, ResetWrite,
         VerifyGet, VerifyDelete, VerifyGrant, TwoFactorWrite, LoginSession,
         ConsumeDelete, ProfileWrite
<1> QED
  BY <1>3, <1>4, <1>5
     DEF Next, vars, Crash, ExpireLink, Login, Refresh, ExpireSecret

-----------------------------------------------------------------------------
(* Tasks.                                                                  *)

\* The next task of a handler is as good as its last.
LEMMA NextGood ==
  ASSUME IInv, Keeps, NEW p \in Procs, Begin(p) \/ Step(p) \/ Crash(p)
  PROVE  Good(task[p])'
<1>i. Typed /\ StoredInv /\ TasksInv
  BY DEF IInv
<1>t. task \in [Procs -> [op : Ops, purpose : Purposes, n : 0..MaxIssued,
                          goal : Goals]]
  BY <1>i DEF Typed, HandlersOK
<1>g. Good(task[p])
  BY <1>i DEF TasksInv
<1>k. Keeps
  OBVIOUS
<1>d. ASSUME task' = [task EXCEPT ![p] = IdleTask]
      PROVE  Good(task[p])'
  BY <1>d, <1>t DEF IdleTask, Good, Making, Verifying, Using
<1> USE AccountsAssumption
    DEF At, Start, Continue, Finish, Proceed, IdleTask, Purposes, Links
<1>1. CASE StartRegister(p) \/ StartTenant(p)
  <2>1. StartRegister(p) => task'[p].op = "register_find"
    BY <1>t DEF StartRegister
  <2>2. StartTenant(p) => task'[p].op = "register_find"
    BY <1>t DEF StartTenant
  <2>3. task'[p].op = "register_find"
    BY <1>1, <2>1, <2>2
  <2> QED
    BY <2>3 DEF Good, Making, Verifying, Using
<1>2. CASE StartVerifyLink(p) \/ StartResetLink(p)
  <2>1. PICK link \in Links : Link(p, link)
    BY <1>2 DEF StartVerifyLink, StartResetLink
  <2>2. task'[p].op = "link_write" /\ task'[p].purpose = link
    BY <1>t, <2>1 DEF Link
  <2> QED
    BY <2>1, <2>2 DEF Good, Making, Verifying, Using
<1>3. ASSUME NEW n \in Numbers, StartVerifyEmail(p, n) \/ StartReset(p, n)
      PROVE  Good(task[p])'
  <2>1. StartVerifyEmail(p, n) => n \in Of'["verify"]
    BY <1>k DEF StartVerifyEmail, Find, Received, Of, Keeps
  <2>2. StartReset(p, n) => n \in Of'["reset"]
    BY <1>k DEF StartReset, Find, Received, Of, Keeps
  <2>3. CASE StartVerifyEmail(p, n)
    <3>1. task'[p] = [op |-> "verify_write", purpose |-> "verify", n |-> n,
                      goal |-> "none"]
      BY <1>t, <2>3 DEF StartVerifyEmail, Find
    <3> QED
      BY <2>1, <2>3, <3>1 DEF Good, Making, Verifying, Using
  <2>4. CASE StartReset(p, n)
    <3>1. task'[p] = [op |-> "reset_write", purpose |-> "reset", n |-> n,
                      goal |-> "none"]
      BY <1>t, <2>4 DEF StartReset, Find
    <3> QED
      BY <2>2, <2>4, <3>1 DEF Good, Making, Verifying, Using
  <2> QED
    BY <1>3, <2>3, <2>4
<1>4. ASSUME NEW c \in Contexts, NEW goal, StartCode(p, c, goal)
      PROVE  Good(task[p])'
  BY <1>4, <1>t DEF StartCode, Good, Making, Verifying, Using
<1>5. ASSUME NEW c \in Contexts, NEW n \in Numbers,
             NEW goal \in {"confirm", "enable", "disable", "login"},
             StartVerify(p, c, goal, n)
      PROVE  Good(task[p])'
  BY <1>5, <1>t, <1>k
     DEF StartVerify, ContextsFor, Keeps, Good, Making, Verifying, Using
<1>6. ASSUME NEW n \in Numbers, StartUpdate(p, n)
      PROVE  Good(task[p])'
  <2>1. n \in Of'["UPDATE_USER_PROFILE"]
    BY <1>6, <1>i, <1>k DEF StartUpdate, TokenMatches, StoredInv, Keeps
  <2> QED
    BY <1>6, <1>t, <2>1 DEF StartUpdate, Good, Making, Verifying, Using
<1>7. CASE RegisterFind(p) \/ RegisterCreate(p)
  <2>1. \/ Finish(p)
        \/ Proceed(p, "register_create")
        \/ task' = [task EXCEPT ![p] =
                      [op |-> "link_write", purpose |-> "verify", n |-> 0,
                       goal |-> "register"]]
    BY <1>7 DEF RegisterFind, RegisterCreate
  <2>2. CASE Proceed(p, "register_create")
    BY <1>t, <2>2 DEF Good, Making, Verifying, Using
  <2>3. CASE task' = [task EXCEPT ![p] =
                       [op |-> "link_write", purpose |-> "verify", n |-> 0,
                        goal |-> "register"]]
    BY <1>t, <2>3 DEF Good, Making, Verifying, Using
  <2> QED
    BY <1>d, <2>1, <2>2, <2>3
<1>8. CASE LinkWrite(p) \/ CodeSet(p)
  <2>1. Issue(task[p].purpose) /\ task[p].purpose \in Purposes
    BY <1>8, <1>t DEF LinkWrite, CodeSet
  <2>2. Fresh \in Of'[task[p].purpose]
    BY <2>1, <1>i, Issuing
  <2>3. /\ task'[p].purpose = task[p].purpose
        /\ task'[p].n = Fresh
    BY <1>8, <1>t DEF LinkWrite, CodeSet
  <2>4. \/ task'[p].op = "link_mail" /\ task[p].purpose \in Links
        \/ task'[p].op = "code_mail" /\ task[p].purpose \in Contexts
    <3>1. CASE LinkWrite(p)
      BY <1>t, <1>g, <3>1 DEF LinkWrite, Good, Making
    <3>2. CASE CodeSet(p)
      BY <1>t, <1>g, <3>2 DEF CodeSet, Good, Making
    <3> QED
      BY <1>8, <3>1, <3>2
  <2> QED
    BY <1>t, <2>2, <2>3, <2>4 DEF Good, Making, Verifying, Using
<1>9. CASE VerifyGet(p)
  <2>1. task[p].purpose \in Contexts
    BY <1>9, <1>g DEF VerifyGet, Good, Verifying
  <2>2. CodeMatches(task[p].purpose, task[p].n) =>
          task[p].n \in Of'[task[p].purpose]
    BY <2>1, <1>i, <1>k DEF CodeMatches, StoredInv, Keeps
  <2> QED
    BY <1>9, <1>t, <1>g, <1>k, <1>d, <2>2
       DEF VerifyGet, Good, Making, Verifying, Using, Keeps
<1>10. CASE VerifyDelete(p)
  BY <1>10, <1>t, <1>g, <1>k
     DEF VerifyDelete, Good, Making, Verifying, Using, Keeps
<1>11. CASE VerifyGrant(p)
  BY <1>11, <1>t, <1>g, <1>k, <1>d
     DEF VerifyGrant, Good, Making, Verifying, Using, Keeps
<1>12. CASE ConsumeDelete(p)
  BY <1>12, <1>t, <1>g, <1>k
     DEF ConsumeDelete, Good, Making, Verifying, Using, Keeps
<1>13. CASE Finish(p)
  BY <1>13, <1>d
<1>14. CASE Begin(p)
  BY <1>1, <1>2, <1>3, <1>4, <1>5, <1>6, <1>14 DEF Begin, StartSecondStep
<1>15. CASE Step(p)
  BY <1>7, <1>8, <1>9, <1>10, <1>11, <1>12, <1>13, <1>15
     DEF Step, LinkMail, VerifyWrite, ResetWrite, CodeMail, TwoFactorWrite,
         LoginSession, ProfileWrite
<1>16. CASE Crash(p)
  BY <1>13, <1>16 DEF Crash
<1> QED
  BY <1>14, <1>15, <1>16

\* A step of a handler leaves the tasks of the others alone.
LEMMA OneTask ==
  ASSUME NEW p \in Procs, Begin(p) \/ Step(p) \/ Crash(p), Typed
  PROVE  \A q \in Procs \ {p} : task'[q] = task[q]
<1> USE DEF Start, Continue, Finish, Proceed
<1>t. task \in [Procs -> [op : Ops, purpose : Purposes, n : 0..MaxIssued,
                          goal : Goals]]
  BY DEF Typed, HandlersOK
<1>1. CASE Begin(p)
  BY <1>1, <1>t
     DEF Begin, StartRegister, StartTenant, StartVerifyLink, StartResetLink,
         Link, StartVerifyEmail, StartReset, Find, StartCode, StartVerify,
         StartSecondStep, StartUpdate
<1>2. CASE Step(p)
  BY <1>2, <1>t
     DEF Step, RegisterFind, RegisterCreate, VerifyWrite, ResetWrite,
         LinkWrite, LinkMail, CodeSet, CodeMail,
         VerifyGet, VerifyDelete, VerifyGrant, TwoFactorWrite, LoginSession,
         ConsumeDelete, ProfileWrite
<1>3. CASE Crash(p)
  BY <1>3, <1>t DEF Crash
<1> QED
  BY <1>1, <1>2, <1>3

\* Tasks stay good, whatever other handlers do meanwhile.
LEMMA TasksStep == IInv /\ [Next]_vars => TasksInv'
<1> SUFFICES ASSUME IInv, [Next]_vars, NEW q \in Procs
             PROVE  Good(task[q])'
  BY DEF TasksInv
<1>i. Typed /\ TasksInv
  BY DEF IInv
<1>k. Keeps
  BY <1>i, StepKeeps
<1>1. ASSUME task'[q] = task[q]
      PROVE  Good(task[q])'
  <2>1. Good(task[q]) /\ task[q].purpose \in Purposes
    BY <1>i DEF TasksInv, Typed, HandlersOK
  <2> QED
    BY <1>1, <1>k, <2>1, AccountsAssumption
       DEF Good, Making, Verifying, Using, Keeps, Purposes, Links
<1>2. ASSUME NEW p \in Procs, Begin(p) \/ Step(p) \/ Crash(p)
      PROVE  Good(task[q])'
  <2>1. CASE p = q
    BY <1>2, <1>k, <2>1, NextGood
  <2>2. CASE p # q
    BY <1>2, <1>i, <1>1, <2>2, OneTask
  <2> QED
    BY <2>1, <2>2
<1>3. CASE UNCHANGED task
  BY <1>1, <1>3
<1> QED
  BY <1>2, <1>3 DEF Next, vars, ExpireLink, Login, Refresh, ExpireSecret

-----------------------------------------------------------------------------
(* What was stored and used.                                               *)

\* A code is stored under the context it was made for, and a token under the
\* context of its code.
LEMMA StoredStep == IInv /\ [Next]_vars => StoredInv'
<1> SUFFICES ASSUME IInv, [Next]_vars
             PROVE  StoredInv'
  OBVIOUS
<1>i. Typed /\ StoredInv /\ TasksInv
  BY DEF IInv
<1>k. Keeps
  BY <1>i, StepKeeps
<1>t. code \in [Contexts -> Nat] /\ actionToken \in [Contexts -> Nat]
  BY <1>i DEF Typed, SecretsOK, VerificationTypeOK
<1>s. ASSUME NEW c \in Contexts,
             \/ SetCode(c, 0)
             \/ SetToken(c, 0)
      PROVE  StoredInv'
  BY <1>s, <1>i, <1>k, <1>t DEF SetCode, SetToken, StoredInv, Keeps, Purposes
<1>1. CASE UNCHANGED verificationVars
  BY <1>1, <1>i, <1>k DEF verificationVars, StoredInv, Keeps, Purposes
<1>2. ASSUME NEW p \in Procs, CodeSet(p)
      PROVE  StoredInv'
  <2>1. task[p].purpose \in Contexts
    BY <1>2, <1>i DEF CodeSet, At, TasksInv, Good, Making
  <2>2. Fresh \in Of'[task[p].purpose]
    BY <1>2, <1>i, <2>1, Issuing DEF CodeSet, Purposes
  <2> QED
    BY <1>2, <1>i, <1>k, <1>t, <2>1, <2>2
       DEF CodeSet, SetCode, StoredInv, Keeps, Purposes
<1>3. ASSUME NEW p \in Procs, VerifyDelete(p) \/ ConsumeDelete(p)
      PROVE  StoredInv'
  <2>1. VerifyDelete(p) => task[p].purpose \in Contexts
    BY <1>i DEF VerifyDelete, At, TasksInv, Good, Verifying
  <2>2. "UPDATE_USER_PROFILE" \in Contexts
    BY AccountsAssumption
  <2> QED
    BY <1>3, <1>s, <2>1, <2>2
       DEF VerifyDelete, ConsumeDelete, DeleteCode, DeleteToken
<1>4. ASSUME NEW p \in Procs, VerifyGrant(p)
      PROVE  StoredInv'
  <2>1. /\ task[p].purpose \in Contexts
        /\ task[p].n \in Of[task[p].purpose]
    BY <1>4, <1>i DEF VerifyGrant, At, TasksInv, Good, Verifying
  <2> QED
    BY <1>4, <1>i, <1>k, <1>t, <2>1
       DEF VerifyGrant, SetToken, StoredInv, Keeps, Purposes
<1>5. CASE ExpireSecret
  BY <1>5, <1>s DEF ExpireSecret, Expire, DeleteCode, DeleteToken
<1>6. ASSUME NEW p \in Procs, Begin(p)
      PROVE  StoredInv'
  BY <1>1, <1>6
     DEF Begin, StartRegister, StartTenant, StartVerifyLink, StartResetLink,
         Link, StartVerifyEmail, StartReset, Find, StartCode, StartVerify,
         StartSecondStep, StartUpdate
<1>7. ASSUME NEW p \in Procs, Step(p)
      PROVE  StoredInv'
  BY <1>1, <1>2, <1>3, <1>4, <1>7
     DEF Step, RegisterFind, RegisterCreate, LinkWrite, LinkMail, VerifyWrite,
         ResetWrite, CodeMail, VerifyGet, TwoFactorWrite, LoginSession,
         ProfileWrite
<1> QED
  BY <1>1, <1>5, <1>6, <1>7
     DEF Next, vars, Crash, ExpireLink, Login, Refresh

\* A use is of a secret for what it was issued for.
LEMMA UsesStep == IInv /\ [Next]_vars => UsesInv'
<1> SUFFICES ASSUME IInv, [Next]_vars
             PROVE  UsesInv'
  OBVIOUS
<1>i. Typed /\ TasksInv /\ UsesInv
  BY DEF IInv
<1>k. Keeps
  BY <1>i, StepKeeps
<1>n. /\ Need("disable") = "DISABLE_2FA"
      /\ Need("enable") = "LOGIN_2FA"
      /\ Need("login") = "LOGIN_2FA"
      /\ Need("profile") = "UPDATE_USER_PROFILE"
      /\ Need("verify") = "verify"
      /\ Need("reset") = "reset"
  BY DEF Need
<1>d. \A f \in Deeds : Need(f) \in Purposes
  BY <1>n, AccountsAssumption DEF Deeds, Purposes, Links
<1>1. CASE UNCHANGED uses
  <2>1. \A u \in uses : u.for \in Deeds
    BY <1>i DEF UsesInv
  <2> QED
    BY <1>1, <1>i, <1>k, <1>d, <2>1 DEF UsesInv, Keeps
<1>2. ASSUME NEW p \in Procs, NEW f \in Deeds, Use(task[p].n, f),
             task[p].n \in Of[Need(f)]
      PROVE  UsesInv'
  <2>1. \A u \in uses : u.for \in Deeds /\ u.of \in Of'[Need(u.for)]
    BY <1>i, <1>k, <1>d DEF UsesInv, Keeps
  <2>2. task[p].n \in Of'[Need(f)] /\ task[p].n \in 0..MaxIssued
    BY <1>2, <1>i, <1>k, <1>d DEF Keeps, Typed, HandlersOK
  <2>3. uses' = uses \cup {[of |-> task[p].n, for |-> f]}
    BY <1>2 DEF Use
  <2>4. uses' \subseteq [of : 0..MaxIssued, for : Deeds]
    BY <1>i, <2>2, <2>3 DEF UsesInv
  <2>5. \A u \in uses' : u.of \in Of'[Need(u.for)]
    BY <2>1, <2>2, <2>3
  <2> QED
    BY <2>4, <2>5 DEF UsesInv
<1>3. ASSUME NEW p \in Procs, VerifyWrite(p)
      PROVE  UsesInv'
  <2>1. task[p].n \in Of["verify"]
    BY <1>3, <1>i DEF VerifyWrite, At, TasksInv, Good, Using
  <2> QED
    BY <1>2, <1>3, <1>n, <2>1 DEF VerifyWrite, Deeds, Links
<1>4. ASSUME NEW p \in Procs, ResetWrite(p)
      PROVE  UsesInv'
  <2>1. task[p].n \in Of["reset"]
    BY <1>4, <1>i DEF ResetWrite, At, TasksInv, Good, Using
  <2> QED
    BY <1>2, <1>4, <1>n, <2>1 DEF ResetWrite, Deeds, Links
<1>5. ASSUME NEW p \in Procs, TwoFactorWrite(p)
      PROVE  UsesInv'
  <2>1. \/ task[p].goal = "enable" /\ task[p].n \in Of["LOGIN_2FA"]
        \/ task[p].goal = "disable" /\ task[p].n \in Of["DISABLE_2FA"]
    BY <1>5, <1>i DEF TwoFactorWrite, At, TasksInv, Good, Using
  <2>2. Use(task[p].n, task[p].goal)
    BY <1>5 DEF TwoFactorWrite
  <2> QED
    BY <1>2, <1>n, <2>1, <2>2 DEF Deeds
<1>6. ASSUME NEW p \in Procs, LoginSession(p)
      PROVE  UsesInv'
  <2>1. task[p].n \in Of["LOGIN_2FA"]
    BY <1>6, <1>i DEF LoginSession, At, TasksInv, Good, Using
  <2> QED
    BY <1>2, <1>6, <1>n, <2>1 DEF LoginSession, Deeds
<1>7. ASSUME NEW p \in Procs, ProfileWrite(p)
      PROVE  UsesInv'
  <2>1. task[p].n \in Of["UPDATE_USER_PROFILE"]
    BY <1>7, <1>i DEF ProfileWrite, At, TasksInv, Good, Using
  <2> QED
    BY <1>2, <1>7, <1>n, <2>1 DEF ProfileWrite, Deeds
<1> USE DEF history
<1>8. ASSUME NEW p \in Procs, Begin(p)
      PROVE  UsesInv'
  BY <1>1, <1>8
     DEF Begin, StartRegister, StartTenant, StartVerifyLink, StartResetLink,
         Link, StartVerifyEmail, StartReset, Find, StartCode, StartVerify,
         StartSecondStep, StartUpdate
<1>9. ASSUME NEW p \in Procs, Step(p)
      PROVE  UsesInv'
  BY <1>1, <1>3, <1>4, <1>5, <1>6, <1>7, <1>9
     DEF Step, RegisterFind, RegisterCreate, LinkWrite, LinkMail, CodeSet,
         CodeMail, VerifyGet, VerifyDelete, VerifyGrant, ConsumeDelete
<1> QED
  BY <1>1, <1>8, <1>9
     DEF Next, vars, Crash, ExpireLink, Login, Refresh, ExpireSecret

\* A session of a given factor is made only with its code's use; a refresh
\* claims nothing.
LEMMA SessionsStep ==
  IInv /\ [Next]_vars => SessionsOK' /\ SecondFactorWasGiven'
<1> SUFFICES ASSUME IInv, [Next]_vars
             PROVE  SessionsOK' /\ SecondFactorWasGiven'
  OBVIOUS
<1>i. SessionsOK /\ HandlersOK /\ SecondFactorWasGiven
  BY DEF IInv, Typed
<1> USE AccountsAssumption DEF history
<1>u. uses \subseteq uses'
  <2>1. CASE UNCHANGED uses
    BY <2>1
  <2>2. ASSUME NEW p \in Procs, Begin(p)
        PROVE  uses \subseteq uses'
    BY <2>1, <2>2
       DEF Begin, StartRegister, StartTenant, StartVerifyLink,
           StartResetLink, Link, StartVerifyEmail, StartReset, Find,
           StartCode, StartVerify, StartSecondStep, StartUpdate
  <2>3. ASSUME NEW p \in Procs, Step(p)
        PROVE  uses \subseteq uses'
    BY <2>1, <2>3
       DEF Step, RegisterFind, RegisterCreate, LinkWrite, LinkMail, CodeSet,
           CodeMail, VerifyGet, VerifyDelete, VerifyGrant, ConsumeDelete,
           VerifyWrite, ResetWrite, TwoFactorWrite, LoginSession,
           ProfileWrite, Use
  <2> QED
    BY <2>1, <2>2, <2>3
       DEF Next, vars, Crash, ExpireLink, Login, Refresh, ExpireSecret
<1>c. crashes' \in Nat
  <2>1. CASE UNCHANGED crashes
    BY <1>i, <2>1 DEF SessionsOK
  <2>2. ASSUME NEW p \in Procs, Crash(p)
        PROVE  crashes' \in Nat
    BY <1>i, <2>2 DEF SessionsOK, Crash
  <2>3. ASSUME NEW p \in Procs, Begin(p)
        PROVE  crashes' \in Nat
    BY <2>1, <2>3
       DEF Begin, StartRegister, StartTenant, StartVerifyLink,
           StartResetLink, Link, StartVerifyEmail, StartReset, Find,
           StartCode, StartVerify, StartSecondStep, StartUpdate
  <2>4. ASSUME NEW p \in Procs, Step(p)
        PROVE  crashes' \in Nat
    BY <2>1, <2>4
       DEF Step, RegisterFind, RegisterCreate, LinkWrite, LinkMail, CodeSet,
           CodeMail, VerifyGet, VerifyDelete, VerifyGrant, ConsumeDelete,
           VerifyWrite, ResetWrite, TwoFactorWrite, LoginSession,
           ProfileWrite
  <2> QED
    BY <2>1, <2>2, <2>3, <2>4
       DEF Next, vars, ExpireLink, Login, Refresh, ExpireSecret
<1>1. CASE UNCHANGED sessions
  BY <1>1, <1>i, <1>u, <1>c DEF SessionsOK, SecondFactorWasGiven
<1>2. ASSUME NEW claim \in Claims \ {"given"}, GiveSession(claim, 0)
      PROVE  SessionsOK' /\ SecondFactorWasGiven'
  BY <1>2, <1>i, <1>u, <1>c DEF GiveSession, SessionsOK, SecondFactorWasGiven
<1>3. ASSUME NEW p \in Procs, LoginSession(p)
      PROVE  SessionsOK' /\ SecondFactorWasGiven'
  <2>1. PICK claim \in Claims : GiveSession(claim, task[p].n)
    BY <1>3 DEF LoginSession, Claim, Claims
  <2>2. /\ sessions' = sessions \cup {[claim |-> claim, n |-> task[p].n]}
        /\ uses' = uses \cup {[of |-> task[p].n, for |-> "login"]}
    BY <1>3, <2>1 DEF LoginSession, GiveSession, Use
  <2>3. SessionsOK'
    BY <1>i, <1>c, <2>2 DEF SessionsOK, HandlersOK
  <2>4. SecondFactorWasGiven'
    <3> SUFFICES ASSUME NEW t \in sessions', t.claim = "given"
                 PROVE  \E u \in uses' : u.of = t.n /\ u.for = "login"
      BY DEF SecondFactorWasGiven
    <3>1. CASE t \in sessions
      BY <1>i, <1>u, <3>1 DEF SecondFactorWasGiven
    <3>2. CASE t = [claim |-> claim, n |-> task[p].n]
      <4>1. [of |-> task[p].n, for |-> "login"] \in uses'
        BY <2>2
      <4> QED
        BY <3>2, <4>1
    <3> QED
      BY <2>2, <3>1, <3>2
  <2> QED
    BY <2>3, <2>4
<1>4. ASSUME NEW p \in Procs, LinkMail(p) \/ CodeMail(p)
      PROVE  SessionsOK' /\ SecondFactorWasGiven'
  BY <1>1, <1>2, <1>4 DEF LinkMail, CodeMail, Claims
<1>5. CASE Login \/ Refresh
  BY <1>2, <1>5 DEF Login, Refresh, Claim, Claims
<1>6. ASSUME NEW p \in Procs, Begin(p)
      PROVE  SessionsOK' /\ SecondFactorWasGiven'
  BY <1>1, <1>6
     DEF Begin, StartRegister, StartTenant, StartVerifyLink, StartResetLink,
         Link, StartVerifyEmail, StartReset, Find, StartCode, StartVerify,
         StartSecondStep, StartUpdate
<1>7. ASSUME NEW p \in Procs, Step(p)
      PROVE  SessionsOK' /\ SecondFactorWasGiven'
  BY <1>1, <1>3, <1>4, <1>7
     DEF Step, RegisterFind, RegisterCreate, LinkWrite, CodeSet, VerifyWrite,
         ResetWrite, VerifyGet, VerifyDelete, VerifyGrant, ConsumeDelete,
         TwoFactorWrite, ProfileWrite
<1> QED
  BY <1>1, <1>5, <1>6, <1>7 DEF Next, vars, Crash, ExpireLink, ExpireSecret

-----------------------------------------------------------------------------
(* Types.                                                                  *)

\* A link that the row takes was issued.
LEMMA UserStep == IInv /\ [Next]_vars => UserOK'
<1> SUFFICES ASSUME IInv, [Next]_vars
             PROVE  UserOK'
  OBVIOUS
<1>i. Typed /\ UserOK /\ TasksInv
  BY DEF IInv, Typed
<1>l. Len(issued) \in Nat
  BY <1>i DEF Typed, SecretsOK
<1>1. CASE UNCHANGED <<user, issued>>
  BY <1>1, <1>i DEF UserOK
<1>2. ASSUME NEW p \in Procs, LinkWrite(p)
      PROVE  UserOK'
  <2>1. task[p].purpose \in Links
    BY <1>2, <1>i DEF LinkWrite, At, TasksInv, Good, Making
  <2>2. Len(issued') = Len(issued) + 1
    BY <1>2, <1>i, <2>1, Issuing DEF LinkWrite, Purposes, Fresh
  <2>3. \/ user' = [user EXCEPT !.verifyLink = Fresh]
        \/ user' = [user EXCEPT !.resetLink = Fresh]
    BY <1>2, <2>1 DEF LinkWrite, Column, Links
  <2> QED
    BY <1>i, <1>l, <2>2, <2>3 DEF UserOK, Fresh
<1>3. ASSUME NEW p \in Procs, CodeSet(p)
      PROVE  UserOK'
  <2>1. task[p].purpose \in Contexts
    BY <1>3, <1>i DEF CodeSet, At, TasksInv, Good, Making
  <2>2. Len(issued') = Len(issued) + 1
    BY <1>3, <1>i, <2>1, Issuing DEF CodeSet, Purposes, Fresh
  <2> QED
    BY <1>3, <1>i, <1>l, <2>2 DEF CodeSet, UserOK
<1>4. ASSUME NEW p \in Procs,
             \/ RegisterCreate(p)
             \/ VerifyWrite(p)
             \/ ResetWrite(p)
             \/ TwoFactorWrite(p)
      PROVE  UserOK'
  <2>1. CASE RegisterCreate(p)
    BY <1>i, <2>1 DEF RegisterCreate, UserOK
  <2>2. CASE VerifyWrite(p)
    <3> DEFINE cleared == [user EXCEPT !.verifyLink = 0]
    <3>1. cleared \in [registered : BOOLEAN, emailVerified : BOOLEAN,
                       isTwoFactorEnabled : BOOLEAN,
                       verifyLink : 0..Len(issued),
                       resetLink : 0..Len(issued)]
      BY <1>i, <1>l DEF UserOK
    <3>2. user' = [cleared EXCEPT !.emailVerified = TRUE]
      BY <1>i, <2>2 DEF VerifyWrite, UserOK
    <3>3. UNCHANGED issued
      BY <2>2 DEF VerifyWrite
    <3> HIDE DEF cleared
    <3> QED
      BY <3>1, <3>2, <3>3 DEF UserOK
  <2>3. CASE ResetWrite(p)
    BY <1>i, <1>l, <2>3 DEF ResetWrite, UserOK
  <2>4. CASE TwoFactorWrite(p)
    BY <1>i, <2>4 DEF TwoFactorWrite, UserOK
  <2> QED
    BY <1>4, <2>1, <2>2, <2>3, <2>4
<1>5. ASSUME NEW link \in Links, ExpireLink(link)
      PROVE  UserOK'
  <2>1. \/ user' = [user EXCEPT !.verifyLink = 0]
        \/ user' = [user EXCEPT !.resetLink = 0]
    BY <1>5 DEF ExpireLink, Column, Links
  <2> QED
    BY <1>5, <1>i, <1>l, <2>1 DEF ExpireLink, UserOK
<1>6. ASSUME NEW p \in Procs, Begin(p)
      PROVE  UserOK'
  BY <1>1, <1>6
     DEF Begin, StartRegister, StartTenant, StartVerifyLink, StartResetLink,
         Link, StartVerifyEmail, StartReset, Find, StartCode, StartVerify,
         StartSecondStep, StartUpdate
<1>7. ASSUME NEW p \in Procs, Step(p)
      PROVE  UserOK'
  BY <1>1, <1>2, <1>3, <1>4, <1>7
     DEF Step, RegisterFind, LinkMail, CodeMail, VerifyGet, VerifyDelete,
         VerifyGrant, LoginSession, ConsumeDelete, ProfileWrite
<1> QED
  BY <1>1, <1>5, <1>6, <1>7
     DEF Next, vars, Crash, Login, Refresh, ExpireSecret

\* What is mailed was issued, and tokens are granted for codes that were
\* mailed.
LEMMA SecretsStep == IInv /\ [Next]_vars => SecretsOK'
<1> SUFFICES ASSUME IInv, [Next]_vars
             PROVE  SecretsOK'
  OBVIOUS
<1>i. Typed /\ SecretsOK /\ UserOK /\ TasksInv
  BY DEF IInv, Typed
<1> USE AccountsAssumption DEF history
<1>t. /\ code \in [Contexts -> Nat]
      /\ actionToken \in [Contexts -> Nat]
      /\ issued \in Seq(Purposes)
      /\ Len(issued) <= MaxIssued
      /\ mailed \subseteq Numbers
      /\ granted \subseteq mailed
      /\ expired \subseteq Numbers
      /\ Len(issued) \in Nat
  BY <1>i DEF SecretsOK, VerificationTypeOK
<1>h. \A p \in Procs : task[p].purpose \in Purposes /\ task[p].n \in Nat
  BY <1>i DEF Typed, HandlersOK
<1>1. CASE UNCHANGED <<issued, mailed, granted, verificationVars, expired>>
  BY <1>1, <1>t
     DEF verificationVars, SecretsOK, VerificationTypeOK, Numbers
<1>2. ASSUME NEW c \in Contexts, NEW n \in Nat,
             SetCode(c, n) \/ SetToken(c, n),
             UNCHANGED <<issued, mailed, expired>>,
             granted' \subseteq mailed
      PROVE  SecretsOK'
  BY <1>2, <1>t DEF SetCode, SetToken, SecretsOK, VerificationTypeOK, Numbers
<1>3. ASSUME NEW p \in Procs, LinkWrite(p)
      PROVE  SecretsOK'
  BY <1>3, <1>i, <1>t, <1>h, Issuing
     DEF LinkWrite, verificationVars, SecretsOK, VerificationTypeOK
<1>4. ASSUME NEW p \in Procs, CodeSet(p)
      PROVE  SecretsOK'
  <2>1. task[p].purpose \in Contexts
    BY <1>4, <1>i DEF CodeSet, At, TasksInv, Good, Making
  <2>2. /\ code' \in [Contexts -> Nat]
        /\ actionToken' \in [Contexts -> Nat]
    BY <1>4, <1>t, <2>1 DEF CodeSet, SetCode, Fresh
  <2>3. Issue(task[p].purpose) /\ UNCHANGED <<mailed, granted, expired>>
    BY <1>4 DEF CodeSet
  <2>4. /\ issued' \in Seq(Purposes)
        /\ Len(issued') <= MaxIssued
        /\ Numbers \subseteq Numbers'
    BY <1>i, <1>h, <2>3, Issuing
  <2> QED
    BY <1>t, <2>2, <2>3, <2>4 DEF SecretsOK, VerificationTypeOK
<1>5. ASSUME NEW p \in Procs, LinkMail(p) \/ CodeMail(p)
      PROVE  SecretsOK'
  <2>1. task[p].n \in Of[task[p].purpose]
    BY <1>5, <1>i DEF LinkMail, CodeMail, At, TasksInv, Good, Making
  <2>2. task[p].n \in Numbers
    BY <1>h, <2>1 DEF Of
  <2>3. /\ UNCHANGED <<issued, granted, code, actionToken, expired>>
        /\ mailed' = mailed \cup {task[p].n}
    BY <1>5 DEF LinkMail, CodeMail, verificationVars
  <2> QED
    BY <1>t, <2>2, <2>3 DEF SecretsOK, VerificationTypeOK, Numbers
<1>6. ASSUME NEW p \in Procs, VerifyDelete(p) \/ ConsumeDelete(p)
      PROVE  SecretsOK'
  <2>1. VerifyDelete(p) => task[p].purpose \in Contexts
    BY <1>i DEF VerifyDelete, At, TasksInv, Good, Verifying
  <2> QED
    BY <1>2, <1>6, <1>t, <2>1
       DEF VerifyDelete, ConsumeDelete, DeleteCode, DeleteToken
<1>7. ASSUME NEW p \in Procs, VerifyGrant(p)
      PROVE  SecretsOK'
  <2>1. task[p].purpose \in Contexts /\ task[p].n \in mailed
    BY <1>7, <1>i DEF VerifyGrant, At, TasksInv, Good, Verifying
  <2> QED
    BY <1>2, <1>7, <1>t, <1>h, <2>1 DEF VerifyGrant
<1>8. ASSUME NEW link \in Links, ExpireLink(link)
      PROVE  SecretsOK'
  <2>1. user[Column(link)] \in Numbers
    BY <1>8, <1>i, <1>t DEF ExpireLink, Column, Links, UserOK, Numbers
  <2> QED
    BY <1>8, <1>t, <2>1
       DEF ExpireLink, verificationVars, SecretsOK, VerificationTypeOK,
           Numbers
<1>9. CASE ExpireSecret
  BY <1>2, <1>9, <1>t DEF ExpireSecret, Expire, DeleteCode, DeleteToken
<1>10. ASSUME NEW p \in Procs, Begin(p)
       PROVE  SecretsOK'
  BY <1>1, <1>10
     DEF Begin, StartRegister, StartTenant, StartVerifyLink, StartResetLink,
         Link, StartVerifyEmail, StartReset, Find, StartCode, StartVerify,
         StartSecondStep, StartUpdate
<1>11. ASSUME NEW p \in Procs, Step(p)
       PROVE  SecretsOK'
  BY <1>1, <1>3, <1>4, <1>5, <1>6, <1>7, <1>11
     DEF Step, RegisterFind, RegisterCreate, VerifyWrite, ResetWrite,
         VerifyGet, TwoFactorWrite, LoginSession, ProfileWrite
<1> QED
  BY <1>1, <1>8, <1>9, <1>10, <1>11 DEF Next, vars, Crash, Login, Refresh

\* Handlers go from task to task.
LEMMA HandlersStep == IInv /\ [Next]_vars => HandlersOK'
<1> SUFFICES ASSUME IInv, [Next]_vars
             PROVE  HandlersOK'
  OBVIOUS
<1> DEFINE Task == [op : Ops, purpose : Purposes, n : 0..MaxIssued,
                    goal : Goals]
<1>i. Typed /\ TasksInv
  BY DEF IInv
<1>t. task \in [Procs -> Task]
  BY <1>i DEF Typed, HandlersOK
<1>n. Numbers \subseteq 0..MaxIssued
  BY <1>i, AccountsAssumption DEF Typed, SecretsOK, Numbers
<1>z. 0 \in 0..MaxIssued
  BY AccountsAssumption
<1>p. Contexts \cup Links = Purposes /\ "verify" \in Links
      /\ "UPDATE_USER_PROFILE" \in Contexts
  BY AccountsAssumption DEF Purposes, Links
<1>1. ASSUME NEW p \in Procs, NEW t \in Task, Continue(p, t)
      PROVE  HandlersOK'
  BY <1>1, <1>t DEF Continue, HandlersOK
<1>2. CASE UNCHANGED task
  BY <1>2, <1>t DEF HandlersOK
<1> HIDE DEF Task
<1>f. ASSUME NEW p \in Procs, Finish(p)
      PROVE  HandlersOK'
  <2>1. IdleTask \in Task
    BY <1>z, <1>p DEF Task, IdleTask, Ops, Goals
  <2> QED
    BY <1>1, <1>f, <2>1 DEF Finish
<1>o. ASSUME NEW p \in Procs, NEW op \in Ops, Proceed(p, op)
      PROVE  HandlersOK'
  <2>1. [task[p] EXCEPT !.op = op] \in Task
    BY <1>t DEF Task
  <2> QED
    BY <1>1, <1>o, <2>1 DEF Proceed
<1>3. ASSUME NEW op \in Ops, NEW c \in Purposes, NEW n \in 0..MaxIssued,
             NEW goal \in Goals
      PROVE  /\ [IdleTask EXCEPT !.op = op, !.goal = goal] \in Task
             /\ [IdleTask EXCEPT !.op = op, !.purpose = c] \in Task
             /\ [IdleTask EXCEPT !.op = op, !.purpose = c,
                                 !.n = n] \in Task
             /\ [IdleTask EXCEPT !.op = op, !.purpose = c,
                                 !.goal = goal] \in Task
             /\ [op |-> op, purpose |-> c, n |-> n, goal |-> goal] \in Task
  BY <1>z, <1>p DEF Task, IdleTask, Goals
<1>4. ASSUME NEW p \in Procs, Begin(p)
      PROVE  HandlersOK'
  <2>1. CASE StartRegister(p) \/ StartTenant(p)
    BY <1>1, <1>3, <1>z, <1>p, <2>1
       DEF StartRegister, StartTenant, Start, Ops, Goals
  <2>2. ASSUME NEW link \in Links, Link(p, link)
        PROVE  HandlersOK'
    BY <1>1, <1>3, <1>z, <1>p, <2>2 DEF Link, Start, Ops, Goals
  <2>3. ASSUME NEW link \in Links, NEW n \in Numbers,
               NEW op \in {"verify_write", "reset_write"},
               Find(p, link, n, op)
        PROVE  HandlersOK'
    BY <1>1, <1>3, <1>n, <1>p, <2>3 DEF Find, Start, Ops, Goals
  <2>4. ASSUME NEW c \in Contexts, NEW goal \in {"confirm", "enable", "login"},
               StartCode(p, c, goal)
        PROVE  HandlersOK'
    BY <1>1, <1>3, <1>z, <1>p, <2>4 DEF StartCode, Start, Ops, Goals
  <2>5. ASSUME NEW c \in Contexts, NEW n \in Numbers,
               NEW goal \in {"confirm", "enable", "disable", "login"},
               StartVerify(p, c, goal, n)
        PROVE  HandlersOK'
    BY <1>1, <1>3, <1>n, <1>p, <2>5 DEF StartVerify, Start, Ops, Goals
  <2>6. ASSUME NEW n \in Numbers, StartUpdate(p, n)
        PROVE  HandlersOK'
    BY <1>1, <1>3, <1>n, <1>p, <2>6 DEF StartUpdate, Start, Ops, Goals
  <2>7. StartVerifyLink(p) \/ StartResetLink(p) => HandlersOK'
    BY <2>2 DEF StartVerifyLink, StartResetLink, Links
  <2>8. ASSUME NEW n \in Numbers, StartVerifyEmail(p, n) \/ StartReset(p, n)
        PROVE  HandlersOK'
    BY <2>3, <2>8 DEF StartVerifyEmail, StartReset, Links
  <2>9. ASSUME NEW n \in Numbers, StartSecondStep(p, n)
        PROVE  HandlersOK'
    BY <2>5, <2>9, AccountsAssumption DEF StartSecondStep
  <2> QED
    BY <1>4, <2>1, <2>4, <2>5, <2>6, <2>7, <2>8, <2>9 DEF Begin
<1>5. ASSUME NEW p \in Procs, LinkWrite(p) \/ CodeSet(p)
      PROVE  HandlersOK'
  <2>1. task[p] \in Task /\ task[p].purpose \in Purposes
    BY <1>t DEF Task
  <2>2. Fresh \in 0..MaxIssued
    BY <1>5, <1>i, <2>1, Issuing DEF LinkWrite, CodeSet
  <2>3. ASSUME NEW op \in Ops
        PROVE  [task[p] EXCEPT !.op = op, !.n = Fresh] \in Task
    BY <2>1, <2>2 DEF Task
  <2> QED
    BY <1>1, <1>5, <2>3 DEF LinkWrite, CodeSet, Ops
<1>6. ASSUME NEW p \in Procs, RegisterFind(p) \/ RegisterCreate(p)
      PROVE  HandlersOK'
  BY <1>1, <1>3, <1>f, <1>o, <1>z, <1>p, <1>6
     DEF RegisterFind, RegisterCreate, Ops, Goals
<1>7. ASSUME NEW p \in Procs, Step(p)
      PROVE  HandlersOK'
  BY <1>5, <1>6, <1>f, <1>o, <1>7
     DEF Step, LinkMail, VerifyWrite, ResetWrite, CodeMail, VerifyGet,
         VerifyDelete, VerifyGrant, TwoFactorWrite, LoginSession,
         ConsumeDelete, ProfileWrite, Ops
<1> QED
  BY <1>2, <1>4, <1>7, <1>f
     DEF Next, vars, Crash, ExpireLink, Login, Refresh, ExpireSecret

-----------------------------------------------------------------------------
(* The link that verifies the address.                                     *)

\* Where another purpose than "verify" is issued for, no link is.
LEMMA IssuingOther ==
  ASSUME Typed, NEW c \in Purposes, c # "verify", Issue(c)
  PROVE  Of'["verify"] = Of["verify"]
<1>1. issued \in Seq(Purposes) /\ Len(issued) \in Nat
  BY DEF Typed, SecretsOK
<1>2. /\ Len(issued') = Len(issued) + 1
      /\ issued'[Len(issued) + 1] = c
      /\ \A n \in 1..Len(issued) : issued'[n] = issued[n]
  BY <1>1 DEF Issue
<1>3. "verify" \in Purposes
  BY DEF Purposes, Links
<1>4. \A n \in 1..(Len(issued) + 1) :
        n \in 1..Len(issued) \/ n = Len(issued) + 1
  BY <1>1
<1> QED
  BY <1>2, <1>3, <1>4, <1>1 DEF Of, Numbers

\* The row takes the newest link, until it is used or its time is over.
LEMMA LinkStep == IInv /\ [Next]_vars => LinkInv'
<1> SUFFICES ASSUME IInv, [Next]_vars
             PROVE  LinkInv'
  OBVIOUS
<1>i. Typed /\ TasksInv /\ LinkInv /\ UserOK /\ SecretsOK /\ HandlersOK
  BY DEF IInv, Typed
<1>v. "verify" \in Purposes
  BY DEF Purposes, Links
<1>s. ASSUME Of'["verify"] = Of["verify"],
             expired \subseteq expired',
             user.verifyLink \notin expired' =>
               user'.verifyLink = user.verifyLink,
             user.emailVerified => user'.emailVerified
      PROVE  LinkInv'
  BY <1>s, <1>i DEF LinkInv
<1>1. ASSUME UNCHANGED <<issued, expired>>,
             user'.verifyLink = user.verifyLink,
             user.emailVerified => user'.emailVerified
      PROVE  LinkInv'
  BY <1>1, <1>s DEF Of, Numbers
<1>2. CASE UNCHANGED <<user, issued, expired>>
  BY <1>1, <1>2
<1>3. ASSUME NEW p \in Procs, LinkWrite(p)
      PROVE  LinkInv'
  <2>1. task[p].purpose \in Links /\ task[p].purpose \in Purposes
    BY <1>3, <1>i DEF LinkWrite, At, TasksInv, Good, Making, Purposes
  <2>2. Issue(task[p].purpose)
    BY <1>3 DEF LinkWrite
  <2>3. UNCHANGED expired
    BY <1>3 DEF LinkWrite, history
  <2>4. CASE task[p].purpose = "verify"
    <3>1. user' = [user EXCEPT !.verifyLink = Fresh]
      BY <1>3, <2>4 DEF LinkWrite, Column
    <3>2. user'.verifyLink = Fresh
      BY <1>i, <3>1 DEF UserOK
    <3>3. Fresh \in Of'["verify"] /\ Len(issued') = Fresh /\ Fresh \in Nat
      BY <1>i, <1>v, <2>2, <2>4, Issuing
    <3>4. \A n \in Of'["verify"] : n = Fresh \/ Fresh > n
      BY <1>v, <3>3 DEF Of, Numbers
    <3> QED
      BY <3>2, <3>3, <3>4 DEF LinkInv
  <2>5. CASE task[p].purpose = "reset"
    <3>1. user' = [user EXCEPT !.resetLink = Fresh]
      BY <1>3, <2>5 DEF LinkWrite, Column
    <3>2. /\ user'.verifyLink = user.verifyLink
          /\ user.emailVerified => user'.emailVerified
      BY <1>i, <3>1 DEF UserOK
    <3>3. Of'["verify"] = Of["verify"]
      BY <1>i, <2>1, <2>2, <2>5, IssuingOther
    <3> QED
      BY <1>s, <2>3, <3>2, <3>3
  <2> QED
    BY <2>1, <2>4, <2>5 DEF Links
<1>4. ASSUME NEW p \in Procs, CodeSet(p)
      PROVE  LinkInv'
  <2>1. task[p].purpose \in Contexts /\ task[p].purpose \in Purposes
    BY <1>4, <1>i DEF CodeSet, At, TasksInv, Good, Making, Purposes
  <2>2. task[p].purpose # "verify"
    BY <2>1, AccountsAssumption
  <2>3. Issue(task[p].purpose) /\ UNCHANGED <<user, expired>>
    BY <1>4 DEF CodeSet, history
  <2>4. Of'["verify"] = Of["verify"]
    BY <1>i, <2>1, <2>2, <2>3, IssuingOther
  <2> QED
    BY <1>s, <2>3, <2>4
<1>5. ASSUME NEW p \in Procs,
             RegisterCreate(p) \/ ResetWrite(p) \/ TwoFactorWrite(p)
      PROVE  LinkInv'
  <2>1. /\ user'.verifyLink = user.verifyLink
        /\ user.emailVerified => user'.emailVerified
    BY <1>5, <1>i DEF RegisterCreate, ResetWrite, TwoFactorWrite, UserOK
  <2>2. UNCHANGED <<issued, expired>>
    BY <1>5 DEF RegisterCreate, ResetWrite, TwoFactorWrite, history
  <2> QED
    BY <1>1, <2>1, <2>2
<1>6. ASSUME NEW p \in Procs, VerifyWrite(p)
      PROVE  LinkInv'
  <2>1. user'.emailVerified
    BY <1>6, <1>i DEF VerifyWrite, UserOK
  <2> QED
    BY <2>1 DEF LinkInv
<1>7. ASSUME NEW link \in Links, ExpireLink(link)
      PROVE  LinkInv'
  <2>1. UNCHANGED issued /\ expired' = expired \cup {user[Column(link)]}
    BY <1>7 DEF ExpireLink
  <2>2. Of'["verify"] = Of["verify"]
    BY <2>1 DEF Of, Numbers
  <2>3. user.emailVerified => user'.emailVerified
    BY <1>7, <1>i DEF ExpireLink, Column, Links, UserOK
  <2>4. \/ user'.verifyLink = user.verifyLink
        \/ user.verifyLink \in expired'
    BY <1>7, <1>i, <2>1 DEF ExpireLink, Column, Links, UserOK
  <2> QED
    BY <1>s, <2>1, <2>2, <2>3, <2>4
<1>8. ASSUME NEW p \in Procs, Begin(p)
      PROVE  LinkInv'
  BY <1>2, <1>8
     DEF Begin, StartRegister, StartTenant, StartVerifyLink, StartResetLink,
         Link, StartVerifyEmail, StartReset, Find, StartCode, StartVerify,
         StartSecondStep, StartUpdate, history
<1>9. ASSUME NEW p \in Procs, Step(p)
      PROVE  LinkInv'
  BY <1>2, <1>3, <1>4, <1>5, <1>6, <1>9
     DEF Step, RegisterFind, LinkMail, CodeMail, VerifyGet, VerifyDelete,
         VerifyGrant, LoginSession, ConsumeDelete, ProfileWrite, history
<1> QED
  BY <1>2, <1>7, <1>8, <1>9
     DEF Next, vars, Crash, Login, Refresh, ExpireSecret, history

-----------------------------------------------------------------------------

\* The invariant is inductive.
LEMMA StepInv == IInv /\ [Next]_vars => IInv'
BY StoredStep, TasksStep, UsesStep, SessionsStep, UserStep, SecretsStep,
   HandlersStep, LinkStep
   DEF IInv, Typed

\* The invariant holds always.
LEMMA Invariant == Spec => []IInv
BY InitInv, StepInv, PTL DEF Spec

\* What was used was issued, for what it was used for.
LEMMA Used == IInv => UsedAsIssued
<1> SUFFICES ASSUME IInv, NEW u \in uses
             PROVE  issued[u.of] = Need(u.for)
  BY DEF UsedAsIssued, Need
<1>1. u.for \in Deeds /\ u.of \in Of[Need(u.for)]
  BY DEF IInv, UsesInv
<1>2. Need(u.for) \in Purposes
  BY <1>1, AccountsAssumption DEF Need, Deeds, Purposes, Links
<1> QED
  BY <1>1, <1>2 DEF Of

\* The variables of Accounts keep their types, for any handlers, codes, links
\* and failures: what is mailed, granted or used was issued.
THEOREM TypeCorrect == Spec => []TypeOK
<1>1. IInv => TypeOK
  <2> SUFFICES ASSUME IInv
               PROVE  TypeOK
    OBVIOUS
  <2>1. UserOK /\ SecretsOK /\ HandlersOK /\ SessionsOK
    BY DEF IInv, Typed
  <2>2. user \in [registered : BOOLEAN, emailVerified : BOOLEAN,
                  isTwoFactorEnabled : BOOLEAN, verifyLink : 0..MaxIssued,
                  resetLink : 0..MaxIssued]
    <3>1. 0..Len(issued) \subseteq 0..MaxIssued
      BY <2>1, AccountsAssumption DEF SecretsOK
    <3> QED
      BY <2>1, <3>1 DEF UserOK
  <2>3. uses \subseteq [of : Numbers, for : Goals \cup Links \cup {"profile"}]
    <3>1. \A c \in Purposes : Of[c] \subseteq Numbers
      BY DEF Of
    <3>2. \A f \in Deeds : Need(f) \in Purposes
      BY AccountsAssumption DEF Need, Deeds, Purposes, Links
    <3>3. Deeds \subseteq Goals \cup Links \cup {"profile"}
      BY DEF Deeds, Goals
    <3> QED
      BY <3>1, <3>2, <3>3 DEF IInv, UsesInv
  <2> QED
    BY <2>1, <2>2, <2>3 DEF TypeOK, SecretsOK, HandlersOK, SessionsOK
<1> QED
  BY <1>1, Invariant, PTL

\* Whatever is done, a secret that was issued for it confirms it, though codes
\* and tokens are read and deleted in separate calls of Redis.
THEOREM SecretsAreUsedAsIssued == Spec => []UsedAsIssued
BY Used, Invariant, PTL

\* A session says that the second factor was given only after a login's code
\* was used for it; a refresh never says so.
THEOREM SecondFactor == Spec => []SecondFactorWasGiven
<1>1. IInv => SecondFactorWasGiven
  BY DEF IInv
<1> QED
  BY <1>1, Invariant, PTL

\* The newest link that was sent to verify the address works until the address
\* is verified, its time is over or another is made, whichever handlers make,
\* send and use links at once, and wherever they fail.
THEOREM NewestLink == Spec => []NewestLinkWorks
<1>1. IInv => NewestLinkWorks
  <2> SUFFICES ASSUME IInv, NEW n \in Received("verify") \ expired
               PROVE  \/ user.verifyLink = n
                      \/ user.emailVerified
                      \/ \E m \in Numbers : m > n /\ issued[m] = "verify"
    BY DEF NewestLinkWorks
  <2>1. "verify" \in Purposes
    BY DEF Purposes, Links
  <2>2. n \in Of["verify"]
    BY <2>1 DEF Received, Of, IInv, Typed, SecretsOK
  <2>3. \A m \in Of["verify"] : m \in Numbers /\ issued[m] = "verify"
    BY <2>1 DEF Of
  <2> QED
    BY <2>2, <2>3 DEF IInv, LinkInv
<1> QED
  BY <1>1, Invariant, PTL

=============================================================================
