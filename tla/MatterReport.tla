----------------------------- MODULE MatterReport -----------------------------
(***************************************************************************)
(* The Matter Trust Report (assembleSignoffBundle): what a reader is told  *)
(* about one matter, projected from a ledger that verifies (over another   *)
(* one it is refused).  A section is the set of the places its rows have   *)
(* in the ledger: rows keep their order, and a row shows fields of its     *)
(* receipt alone.                                                          *)
(***************************************************************************)
EXTENDS Naturals, Sequences

CONSTANT None

Anonymized(r)       == r.outcome = "anonymized_performed"
CitationVerified(r) == r.kind = "quality" /\ r.tool = "citation_verification"

\* Registrations are made for the firm: every report lists all of them.
AuthorityRegistration(r) ==
  r.kind = "quality" /\ r.tool = "authority_provenance" /\ r.outcome = "performed"

UnbackedEgress(r)   == r.kind = "egress" /\ "unbacked" \in r.facts
HasProvenance(r)    == r.kind = "egress" /\ "provenance" \in r.facts
FloorDecided(r)     == "floor" \in r.facts
BlockedEgress(r)    == r.kind = "egress" /\ r.outcome = "blocked"

\* Variant: an approval that a receipt names is an attestation.
NamesApproval(r) == r.approval # None /\ r.outcome # "reserved"
(* "Board-decided approvals only": neither a facade's request for one nor  *)
(* a deadline, and no reservation.                                         *)
Attests(r) ==
  r.kind \notin {"firm_facade", "deadline"} /\ r.outcome # "reserved" /\ r.approval # None

FacadeActivity(r)   == r.kind = "firm_facade"
ComputedDeadline(r) == r.kind = "deadline"
DeliveredArtifact(r) ==
  r.kind = "egress" /\ r.outcome \in {"performed", "anonymized_performed"} /\ "delivery" \in r.facts

Bundle(ledger, matter) ==
  LET own == {i \in DOMAIN ledger : ledger[i].body.issue = matter}
      rows(Shows(_)) == {i \in own : Shows(ledger[i].body)}
  IN [receipts        |-> own,
      anonymization   |-> rows(Anonymized),
      citations       |-> rows(CitationVerified),
      registrations   |-> {i \in DOMAIN ledger : AuthorityRegistration(ledger[i].body)},
      unbacked        |-> rows(UnbackedEgress),
      provenance      |-> rows(HasProvenance),
      tierFloor       |-> rows(FloorDecided),
      blockedEgress   |-> rows(BlockedEgress),
      attestations    |-> rows(Attests),
      facadeActivity  |-> rows(FacadeActivity),
      deadlines       |-> rows(ComputedDeadline),
      deliveries      |-> rows(DeliveredArtifact)]
===============================================================================
