---------------------------- MODULE MCNotices -----------------------------
(* Notices for TLC: a rent, and a deposit.  Both can be made on the day of *)
(* their first reminder.                                                   *)
EXTENDS Notices, TLC, FiniteSets

CONSTANTS rent, deposit

MCDue == (rent :> 3 @@ deposit :> 3)

AtWork == {h \in Handlers : ~At(h, "idle")}

\* A bound: a mail that is queued is the next thing that is tried.
MailNext == queue # <<>> => queue' # queue

\* A bound: two of the six handlers are at work at once, the reminders with
\* none but the sweep, a withdrawal with none but the webhook's.
TwoAtWork ==
  /\ Cardinality(AtWork) <= 2
  /\ "remind" \in AtWork => AtWork \subseteq {"remind", "sweep"}
  /\ "withdraw" \in AtWork => AtWork \subseteq {"withdraw", "webhook"}

\* A bound: there is an admin, except while a payout is made.
AdminAway == ~admin => At("webhook", "payout")

\* A bound: few things happen beside what the clock brings, and fewer where
\* both orders are there, or a sweep was so long.
FewEvents == reports + failures + Cardinality(cancelled)
             + renewed[rent] + renewed[deposit]
             <= IF overtaken THEN 0
                ELSE IF \A o \in Orders : There(o) THEN 1 ELSE 2

\* A bound: an order is made on the first day, or not at all.
MadeFirst == InStatus("absent") # InStatus("absent")' => day = 0

=============================================================================
