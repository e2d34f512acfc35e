----------------------------- MODULE Clicksign -----------------------------
(***************************************************************************)
(* The envelopes of one contract at Clicksign, as ClicksignService uses    *)
(* them: a draft takes one document and two signers, is set running, and   *)
(* closes by itself when its signers have signed.                          *)
(***************************************************************************)
EXTENDS Naturals

CONSTANTS
  Envelopes,   \* the ids of envelopes; a document has the id of its own
  NoEnvelope   \* "null"

ASSUME ClicksignAssumption == NoEnvelope \notin Envelopes

VARIABLES
  envelope     \* [Envelopes -> what Clicksign keeps of each]

Parties == {"lessor", "lessee"}

EnvelopeStatus == {"absent", "draft", "running", "closed", "canceled",
                   "deleted"}

\* text is the version of the contract's text in the document; it means
\* nothing before hasDocument.
EnvelopeRecord ==
  [status : EnvelopeStatus, hasDocument : BOOLEAN, text : Nat,
   signers : SUBSET Parties]

EnvelopesTypeOK == envelope \in [Envelopes -> EnvelopeRecord]

EnvelopesInit ==
  envelope = [e \in Envelopes |->
                [status |-> "absent", hasDocument |-> FALSE, text |-> 0,
                 signers |-> {}]]

Status(e) == envelope[e].status

InStatus(s) == {e \in Envelopes : Status(e) \in s}

SetStatusOf(e, s) == envelope' = [envelope EXCEPT ![e].status = s]

CreateEnvelope(e) == Status(e) = "absent" /\ SetStatusOf(e, "draft")

AddDocument(e, n) ==
  /\ Status(e) = "draft"
  /\ envelope' = [envelope EXCEPT ![e].hasDocument = TRUE, ![e].text = n]

\* A signer counts once both of its requirements are added.
AddSigner(e, who) ==
  /\ Status(e) = "draft"
  /\ envelope' = [envelope EXCEPT ![e].signers = @ \cup {who}]

ActivateEnvelope(e) == Status(e) = "draft" /\ SetStatusOf(e, "running")

\* Clicksign deletes what is not closed yet, or refuses.
DeleteEnvelope(e) ==
  \/ Status(e) \in {"draft", "running"} /\ SetStatusOf(e, "deleted")
  \/ UNCHANGED envelope

\* getEnvelope: null for an envelope that was deleted.
Found(e) == Status(e) \notin {"absent", "deleted"}

\* auto_close: all the signers it has have signed.
Close(e) ==
  /\ Status(e) = "running"
  /\ envelope[e].signers # {}
  /\ SetStatusOf(e, "closed")

\* A signer refuses, or the deadline passes.
Lapse(e) == Status(e) = "running" /\ SetStatusOf(e, "canceled")

=============================================================================
