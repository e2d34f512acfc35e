---------------------------- MODULE AsaasAccounts ----------------------------
(***************************************************************************)
(* What the server asks of Asaas besides charges and transfers, and what   *)
(* Asaas does of its own: the accounts of one landlord there, their        *)
(* customers, the commercial data, and the account events, which go out in *)
(* the order they happened, each until it is answered (sendType            *)
(* SEQUENTIALLY).                                                          *)
(***************************************************************************)
EXTENDS Naturals, Sequences

CONSTANTS
  Accounts,     \* of Asaas, made or not
  Customers,    \* of Asaas, made or not
  NoId,         \* no account, no customer
  MaxEvents     \* bound on the events of an account that wait to be sent

ASSUME AsaasAccountsAssumption ==
  /\ NoId \notin Accounts \cup Customers
  /\ MaxEvents \in Nat \ {0}

VARIABLES
  account,      \* its status, and whether its documents are in
  customerOf,   \* the account a customer is in
  told,         \* the commercial data that Asaas was given, as versions
  evp,          \* the accounts that have a random PIX key in use
  events        \* the statuses that Asaas has to tell the server

asaasVars == <<account, customerOf, told, evp, events>>

AccountStatus == {"absent", "PENDING", "APPROVED", "REJECTED"}

Made == {a \in Accounts : account[a].status # "absent"}

AsaasTypeOK ==
  /\ account \in [Accounts -> [status : AccountStatus, documents : BOOLEAN]]
  /\ customerOf \in [Customers -> Accounts \cup {NoId}]
  /\ told \subseteq Nat
  /\ evp \subseteq Made
  /\ events \in [Accounts -> Seq(AccountStatus)]

AsaasInit ==
  /\ account = [a \in Accounts |-> [status |-> "absent", documents |-> FALSE]]
  /\ customerOf = [c \in Customers |-> NoId]
  /\ told = {0}
  /\ evp = {}
  /\ events = [a \in Accounts |-> <<>>]

\* createWhitelabelSubAccount.
PostAccount(a) ==
  /\ a \notin Made
  /\ account' = [account EXCEPT ![a] = [status |-> "PENDING",
                                        documents |-> FALSE]]
  /\ UNCHANGED <<customerOf, told, evp, events>>

\* createCustomer, with the key of an account.
PostCustomer(c, a) ==
  /\ customerOf[c] = NoId
  /\ customerOf' = [customerOf EXCEPT ![c] = a]
  /\ UNCHANGED <<account, told, evp, events>>

\* createEvpPixKey: a key is known by its account, which may have others.
PostKey(a) ==
  /\ evp' = evp \cup {a}
  /\ UNCHANGED <<account, customerOf, told, events>>

\* The landlord removes his key at Asaas.
DropKey(a) ==
  /\ a \in evp
  /\ evp' = evp \ {a}
  /\ UNCHANGED <<account, customerOf, told, events>>

\* updateCommercialInfo.
PostInfo(i) ==
  /\ told' = told \cup {i}
  /\ UNCHANGED <<account, customerOf, evp, events>>

\* uploadDocumentForSubAccount, or the landlord's own upload by the link.
PostDocuments(a) ==
  /\ account[a].status # "absent"
  /\ account' = [account EXCEPT ![a].documents = TRUE]
  /\ UNCHANGED <<customerOf, told, evp, events>>

\* Asaas reviews an account whose documents are in, also a rejected one.
Review(a, s) ==
  /\ s \in {"APPROVED", "REJECTED"}
  /\ account[a].status \in {"PENDING", "REJECTED"}
  /\ account[a].documents
  /\ Len(events[a]) < MaxEvents
  /\ account' = [account EXCEPT ![a] = [status |-> s,
                                        documents |-> s = "APPROVED"]]
  /\ events' = [events EXCEPT ![a] = Append(@, s)]
  /\ UNCHANGED <<customerOf, told, evp>>

HasEvent(a) == events[a] # <<>>

\* The event was answered.
Answered(a) ==
  /\ events' = [events EXCEPT ![a] = Tail(@)]
  /\ UNCHANGED <<account, customerOf, told, evp>>

==============================================================================
