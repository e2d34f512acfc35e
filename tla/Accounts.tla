------------------------------ MODULE Accounts ------------------------------
(***************************************************************************)
(* One account: its registration (auth, users), the links by which its     *)
(* e-mail address is verified and its password is reset, its logins and    *)
(* refreshes, its second factor (two-factor-auth), and the updates of its  *)
(* profile, confirmed by codes (verification).                             *)
(*                                                                         *)
(* Handlers are split at their awaits.  Codes and links are numbers, each  *)
(* fresh; a mail is out when its job is on the e-mail queue.  "Variant"    *)
(* operators are used by no other definition.                              *)
(***************************************************************************)
EXTENDS Verification, Sequences, FiniteSets

CONSTANTS
  Procs,        \* handlers that can be in flight at once
  MaxIssued,    \* bound on the codes and links
  MaxCrashes    \* bound on the failures that end handlers

ASSUME AccountsAssumption ==
  /\ {MaxIssued, MaxCrashes} \subseteq Nat
  /\ Contexts = {"LOGIN_2FA", "DISABLE_2FA", "UPDATE_USER_PROFILE"}

VARIABLES
  user,       \* registered, emailVerified, isTwoFactorEnabled, and the links
              \* the row accepts: verifyLink, resetLink
  issued,     \* what each number was issued for
  mailed,     \* the numbers that were mailed
  granted,    \* the action tokens that clients were given
  task,       \* the handlers in flight
  sessions,   \* what the tokens of the sessions say of the second factor
  uses,       \* history: what each number brought about
  expired,    \* history: the links that are past their time
  crashes     \* failures so far

history == <<uses, expired>>
vars == <<user, issued, mailed, granted, task, sessions, verificationVars,
          history, crashes>>

\* What a number is issued for; and the column of the user that takes a link.
Links == {"verify", "reset"}
Purposes == Contexts \cup Links

Column(link) == IF link = "verify" THEN "verifyLink" ELSE "resetLink"

\* A task is named for the step it will do next.
Ops == {"idle", "register_find", "register_create", "link_write",
        "link_mail", "code_set", "code_mail", "verify_get", "verify_delete",
        "verify_grant", "two_factor_write", "session", "consume_delete",
        "profile_write", "verify_write", "reset_write"}

Goals == {"none", "register", "tenant", "confirm", "enable", "disable",
          "login"}

\* purpose and n: the secret it handles; goal: what it is handled for.
IdleTask == [op |-> "idle", purpose |-> "verify", n |-> 0, goal |-> "none"]

\* What a session says: no second factor at login, or whether it was given;
\* or it is the partial token of a login half way.
Claims == {"not_enabled", "not_given", "given", "partial"}

Numbers == 1..Len(issued)

TypeOK ==
  /\ VerificationTypeOK
  /\ user \in [registered : BOOLEAN, emailVerified : BOOLEAN,
               isTwoFactorEnabled : BOOLEAN, verifyLink : 0..MaxIssued,
               resetLink : 0..MaxIssued]
  /\ issued \in Seq(Purposes)
  /\ mailed \subseteq Numbers
  /\ granted \subseteq mailed
  /\ task \in [Procs -> [op : Ops, purpose : Purposes, n : 0..MaxIssued,
                         goal : Goals]]
  /\ sessions \subseteq [claim : Claims, n : 0..MaxIssued]
  /\ uses \subseteq [of : Numbers, for : Goals \cup Links \cup {"profile"}]
  /\ expired \subseteq Numbers
  /\ crashes \in Nat

Init ==
  /\ VerificationInit
  /\ user = [registered |-> FALSE, emailVerified |-> FALSE,
             isTwoFactorEnabled |-> FALSE, verifyLink |-> 0, resetLink |-> 0]
  /\ issued = <<>>
  /\ mailed = {}
  /\ granted = {}
  /\ task = [p \in Procs |-> IdleTask]
  /\ sessions = {}
  /\ uses = {}
  /\ expired = {}
  /\ crashes = 0

-----------------------------------------------------------------------------
(* Tasks, and what is issued and used.                                     *)

At(p, op) == task[p].op = op

Continue(p, t) == task' = [task EXCEPT ![p] = t]

Start(p, t) == At(p, "idle") /\ Continue(p, t)

Proceed(p, op) == Continue(p, [task[p] EXCEPT !.op = op])

Finish(p) == Continue(p, IdleTask)

\* The next number, for a purpose.
Issue(purpose) ==
  /\ Len(issued) < MaxIssued
  /\ issued' = Append(issued, purpose)

Fresh == Len(issued) + 1

\* The secrets of a purpose that a client has read.
Received(purpose) == {n \in mailed : issued[n] = purpose}

\* The client gets the tokens of a session, in cookies.
GiveSession(claim, n) == sessions' = sessions \cup {[claim |-> claim, n |-> n]}

Use(n, for) == uses' = uses \cup {[of |-> n, for |-> for]}

-----------------------------------------------------------------------------
(* Registration, and the tenant that a landlord registers.                 *)

StartRegister(p) ==
  /\ Start(p, [IdleTask EXCEPT !.op = "register_find", !.goal = "register"])
  /\ UNCHANGED <<user, issued, mailed, granted, sessions, verificationVars,
                 history, crashes>>

\* findOrCreateTenant, with a password: the new tenant of a new contract.
StartTenant(p) ==
  /\ Start(p, [IdleTask EXCEPT !.op = "register_find", !.goal = "tenant"])
  /\ UNCHANGED <<user, issued, mailed, granted, sessions, verificationVars,
                 history, crashes>>

\* A conflict, or on to the password's hash.
RegisterFind(p) ==
  /\ At(p, "register_find")
  /\ IF user.registered THEN Finish(p) ELSE Proceed(p, "register_create")
  /\ UNCHANGED <<user, issued, mailed, granted, sessions, verificationVars,
                 history, crashes>>

\* The e-mail address and the CPF are unique: one of two at once throws.
\* A tenant that a landlord registers is sent no link.
RegisterCreate(p) ==
  /\ At(p, "register_create")
  /\ user' = [user EXCEPT !.registered = TRUE]
  /\ IF user.registered \/ task[p].goal = "tenant" THEN Finish(p)
     ELSE Continue(p, [IdleTask EXCEPT !.op = "link_write",
                                       !.goal = "register"])
  /\ UNCHANGED <<issued, mailed, granted, sessions, verificationVars,
                 history, crashes>>

-----------------------------------------------------------------------------
(* Links.                                                                  *)

Link(p, link) ==
  /\ user.registered
  /\ Start(p, [IdleTask EXCEPT !.op = "link_write", !.purpose = link])
  /\ UNCHANGED <<user, issued, mailed, granted, sessions, verificationVars,
                 history, crashes>>

\* resendVerificationEmail.
StartVerifyLink(p) == ~user.emailVerified /\ Link(p, "verify")

\* requestPasswordReset.
StartResetLink(p) == Link(p, "reset")

\* Variant: the link is mailed before the row accepts it.
LinkMailFirst(p) ==
  /\ At(p, "link_write")
  /\ Issue(task[p].purpose)
  /\ mailed' = mailed \cup {Fresh}
  /\ Continue(p, [task[p] EXCEPT !.op = "link_mail", !.n = Fresh])
  /\ UNCHANGED <<user, granted, sessions, verificationVars, history,
                 crashes>>

\* The row takes one link at a time.
LinkWrite(p) ==
  /\ At(p, "link_write")
  /\ Issue(task[p].purpose)
  /\ user' = [user EXCEPT ![Column(task[p].purpose)] = Fresh]
  /\ Continue(p, [task[p] EXCEPT !.op = "link_mail", !.n = Fresh])
  /\ UNCHANGED <<mailed, granted, sessions, verificationVars, history,
                 crashes>>

\* A registration ends in a session.
LinkMail(p) ==
  /\ At(p, "link_mail")
  /\ mailed' = mailed \cup {task[p].n}
  /\ IF task[p].goal = "register"
     THEN GiveSession("not_enabled", 0)
     ELSE UNCHANGED sessions
  /\ Finish(p)
  /\ UNCHANGED <<user, issued, granted, verificationVars, history, crashes>>

\* The row is found by its link, and written by its id.
Find(p, link, n, op) ==
  /\ n \in Received(link)
  /\ user[Column(link)] = n
  /\ Start(p, [IdleTask EXCEPT !.op = op, !.purpose = link, !.n = n])
  /\ UNCHANGED <<user, issued, mailed, granted, sessions, verificationVars,
                 history, crashes>>

\* verifyEmail.
StartVerifyEmail(p, n) == Find(p, "verify", n, "verify_write")

\* resetPassword, which hashes the password in between.
StartReset(p, n) == Find(p, "reset", n, "reset_write")

\* Whatever link the row has by now is cleared.
VerifyWrite(p) ==
  /\ At(p, "verify_write")
  /\ user' = [user EXCEPT !.emailVerified = TRUE, !.verifyLink = 0]
  /\ Use(task[p].n, "verify")
  /\ Finish(p)
  /\ UNCHANGED <<issued, mailed, granted, sessions, verificationVars,
                 expired, crashes>>

ResetWrite(p) ==
  /\ At(p, "reset_write")
  /\ user' = [user EXCEPT !.resetLink = 0]
  /\ Use(task[p].n, "reset")
  /\ Finish(p)
  /\ UNCHANGED <<issued, mailed, granted, sessions, verificationVars,
                 expired, crashes>>

\* 12 hours, or one.
ExpireLink(link) ==
  /\ user[Column(link)] # 0
  /\ user' = [user EXCEPT ![Column(link)] = 0]
  /\ expired' = expired \cup {user[Column(link)]}
  /\ UNCHANGED <<issued, mailed, granted, task, sessions, verificationVars,
                 uses, crashes>>

-----------------------------------------------------------------------------
(* Codes: generateAndSendCode, verifyCode.                                 *)

\* verification/request; 2fa/enable, which refuses if it is on; and the
\* first step of a login, if it is on.
StartCode(p, c, goal) ==
  /\ user.registered
  /\ goal \in {"enable", "login"} => c = "LOGIN_2FA"
  /\ goal = "enable" => ~user.isTwoFactorEnabled
  /\ goal = "login" => user.isTwoFactorEnabled
  /\ Start(p, [IdleTask EXCEPT !.op = "code_set", !.purpose = c,
                               !.goal = goal])
  /\ UNCHANGED <<user, issued, mailed, granted, sessions, verificationVars,
                 history, crashes>>

CodeSet(p) ==
  /\ At(p, "code_set")
  /\ Issue(task[p].purpose)
  /\ SetCode(task[p].purpose, Fresh)
  /\ Continue(p, [task[p] EXCEPT !.op = "code_mail", !.n = Fresh])
  /\ UNCHANGED <<user, mailed, granted, sessions, history, crashes>>

\* Variant: the code in the mail is not the one that is stored.
CodeMailAnew(p) ==
  /\ At(p, "code_mail")
  /\ mailed' = mailed \cup {Fresh}
  /\ Finish(p)
  /\ UNCHANGED <<user, issued, granted, sessions, verificationVars, history,
                 crashes>>

\* The first step of a login ends in a partial token.
CodeMail(p) ==
  /\ At(p, "code_mail")
  /\ mailed' = mailed \cup {task[p].n}
  /\ IF task[p].goal = "login" THEN GiveSession("partial", 0)
     ELSE UNCHANGED sessions
  /\ Finish(p)
  /\ UNCHANGED <<user, issued, granted, verificationVars, history, crashes>>

\* Variant: a login's code turns the second factor off.
ContextsLax(goal) ==
  IF goal = "confirm" THEN Contexts ELSE {"LOGIN_2FA"}

\* Which context a code is verified in.
ContextsFor(goal) ==
  CASE goal = "confirm" -> Contexts
    [] goal = "disable" -> {"DISABLE_2FA"}
    [] OTHER            -> {"LOGIN_2FA"}

\* A code is sent to verification/confirm, 2fa/confirm-enable, or 2fa/disable,
\* which refuses if it is off.
StartVerify(p, c, goal, n) ==
  /\ c \in ContextsFor(goal)
  /\ n \in mailed
  /\ goal = "disable" => user.isTwoFactorEnabled
  /\ Start(p, [op |-> "verify_get", purpose |-> c, n |-> n, goal |-> goal])
  /\ UNCHANGED <<user, issued, mailed, granted, sessions, verificationVars,
                 history, crashes>>

\* The second step of a login: any token of the user's will do.
StartSecondStep(p, n) ==
  /\ sessions # {}
  /\ StartVerify(p, "LOGIN_2FA", "login", n)

VerifyGet(p) ==
  /\ At(p, "verify_get")
  /\ IF CodeMatches(task[p].purpose, task[p].n)
     THEN Proceed(p, "verify_delete")
     ELSE Finish(p)
  /\ UNCHANGED <<user, issued, mailed, granted, sessions, verificationVars,
                 history, crashes>>

VerifyDelete(p) ==
  /\ At(p, "verify_delete")
  /\ DeleteCode(task[p].purpose)
  /\ Proceed(p, "verify_grant")
  /\ UNCHANGED <<user, issued, mailed, granted, sessions, history, crashes>>

\* Every goal leaves a token in Redis; only a confirmation returns it.
VerifyGrant(p) ==
  LET t == task[p]
  IN /\ At(p, "verify_grant")
     /\ SetToken(t.purpose, t.n)
     /\ IF t.goal = "confirm"
        THEN granted' = granted \cup {t.n} /\ Finish(p)
        ELSE /\ UNCHANGED granted
             /\ Proceed(p, IF t.goal = "login" THEN "session"
                           ELSE "two_factor_write")
     /\ UNCHANGED <<user, issued, mailed, sessions, history, crashes>>

TwoFactorWrite(p) ==
  /\ At(p, "two_factor_write")
  /\ user' = [user EXCEPT !.isTwoFactorEnabled = (task[p].goal = "enable")]
  /\ Use(task[p].n, task[p].goal)
  /\ Finish(p)
  /\ UNCHANGED <<issued, mailed, granted, sessions, verificationVars,
                 expired, crashes>>

-----------------------------------------------------------------------------
(* Sessions.                                                               *)

Claim(given) ==
  IF ~user.isTwoFactorEnabled THEN "not_enabled"
  ELSE IF given THEN "given" ELSE "not_given"

\* The user is read again, and the session's tokens are made.
LoginSession(p) ==
  /\ At(p, "session")
  /\ GiveSession(Claim(TRUE), task[p].n)
  /\ Use(task[p].n, "login")
  /\ Finish(p)
  /\ UNCHANGED <<user, issued, mailed, granted, verificationVars, expired,
                 crashes>>

\* A login without a second factor.
Login ==
  /\ user.registered
  /\ ~user.isTwoFactorEnabled
  /\ GiveSession("not_enabled", 0)
  /\ UNCHANGED <<user, issued, mailed, granted, task, verificationVars,
                 history, crashes>>

\* Variant: a refresh takes over what the old session says.
RefreshKeeping ==
  /\ sessions # {}
  /\ GiveSession(Claim(TRUE), 0)
  /\ UNCHANGED <<user, issued, mailed, granted, task, verificationVars,
                 history, crashes>>

\* A refresh does not ask for the second factor, and does not claim it.
Refresh ==
  /\ sessions # {}
  /\ GiveSession(Claim(FALSE), 0)
  /\ UNCHANGED <<user, issued, mailed, granted, task, verificationVars,
                 history, crashes>>

-----------------------------------------------------------------------------
(* The update of a profile: consumeActionToken, then the row.              *)

StartUpdate(p, n) ==
  /\ n \in granted
  /\ TokenMatches("UPDATE_USER_PROFILE", n)
  /\ Start(p, [IdleTask EXCEPT !.op = "consume_delete",
                               !.purpose = "UPDATE_USER_PROFILE", !.n = n])
  /\ UNCHANGED <<user, issued, mailed, granted, sessions, verificationVars,
                 history, crashes>>

ConsumeDelete(p) ==
  /\ At(p, "consume_delete")
  /\ DeleteToken("UPDATE_USER_PROFILE")
  /\ Proceed(p, "profile_write")
  /\ UNCHANGED <<user, issued, mailed, granted, sessions, history, crashes>>

ProfileWrite(p) ==
  /\ At(p, "profile_write")
  /\ Use(task[p].n, "profile")
  /\ Finish(p)
  /\ UNCHANGED <<user, issued, mailed, granted, sessions, verificationVars,
                 expired, crashes>>

-----------------------------------------------------------------------------
(* The clock, failures, and the specification.                             *)

ExpireSecret ==
  /\ \E c \in Contexts : Expire(c)
  /\ UNCHANGED <<user, issued, mailed, granted, task, sessions, history,
                 crashes>>

\* A handler dies, or a call of its throws: what it did before stays.
Crash(p) ==
  /\ crashes < MaxCrashes
  /\ ~At(p, "idle")
  /\ crashes' = crashes + 1
  /\ Finish(p)
  /\ UNCHANGED <<user, issued, mailed, granted, sessions, verificationVars,
                 history>>

Begin(p) ==
  \/ StartRegister(p)
  \/ StartTenant(p)
  \/ StartVerifyLink(p)
  \/ StartResetLink(p)
  \/ \E n \in Numbers : StartVerifyEmail(p, n) \/ StartReset(p, n)
  \/ \E c \in Contexts, goal \in {"confirm", "enable", "login"} :
       StartCode(p, c, goal)
  \/ \E c \in Contexts, goal \in {"confirm", "enable", "disable"},
        n \in Numbers : StartVerify(p, c, goal, n)
  \/ \E n \in Numbers : StartSecondStep(p, n)
  \/ \E n \in Numbers : StartUpdate(p, n)

Step(p) ==
  \/ RegisterFind(p)
  \/ RegisterCreate(p)
  \/ LinkWrite(p)
  \/ LinkMail(p)
  \/ VerifyWrite(p)
  \/ ResetWrite(p)
  \/ CodeSet(p)
  \/ CodeMail(p)
  \/ VerifyGet(p)
  \/ VerifyDelete(p)
  \/ VerifyGrant(p)
  \/ TwoFactorWrite(p)
  \/ LoginSession(p)
  \/ ConsumeDelete(p)
  \/ ProfileWrite(p)

Next ==
  \/ \E p \in Procs : Begin(p) \/ Step(p) \/ Crash(p)
  \/ \E link \in Links : ExpireLink(link)
  \/ Login
  \/ Refresh
  \/ ExpireSecret

Spec == Init /\ [][Next]_vars

-----------------------------------------------------------------------------
(* Safety.                                                                 *)

\* What was done was confirmed by a secret issued for that: a login's code
\* does not turn the second factor off, nor the other way round.
UsedAsIssued ==
  \A u \in uses :
    issued[u.of] = CASE u.for = "disable"              -> "DISABLE_2FA"
                     [] u.for \in {"enable", "login"} -> "LOGIN_2FA"
                     [] u.for = "profile"             -> "UPDATE_USER_PROFILE"
                     [] OTHER                         -> u.for

\* A session says that the second factor was given only if a login's code
\* was, for this session.
SecondFactorWasGiven ==
  \A s \in sessions : s.claim = "given" =>
    \E u \in uses : u.of = s.n /\ u.for = "login"

\* The last link that was sent to verify the address works, until the address
\* is verified, its time is over, or another is made; also when links are
\* made, sent and used at once.
NewestLinkWorks ==
  \A n \in Received("verify") \ expired :
    \/ user.verifyLink = n
    \/ user.emailVerified
    \/ \E m \in Numbers : m > n /\ issued[m] = "verify"
=============================================================================
