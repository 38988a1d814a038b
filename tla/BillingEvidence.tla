--------------------------- MODULE BillingEvidence ---------------------------
(***************************************************************************)
(* The checks a bill and the usage record behind a charge must pass before *)
(* the service explains them (services/send_support_message.py), and the   *)
(* columns and CHECK constraints their snapshots meet in the store         *)
(* (adapters/postgres/models.py).  Money is counted in whole units, dates  *)
(* are day numbers.                                                        *)
(***************************************************************************)
EXTENDS Integers, Sequences, Currency

ItemTotal(items) ==
  LET total[i \in 0 .. Len(items)] == IF i = 0 THEN 0 ELSE total[i - 1] + items[i].amount
  IN  total[Len(items)]

BillChecks(bill) ==
  [bill_period   |-> bill.start <= bill.end,
   total         |-> bill.total >= 0,
   bill_currency |-> bill.currency \in Currencies,
   bill_version  |-> bill.version # Blank,
   items         |-> bill.items # <<>>,
   amounts       |-> \A i \in DOMAIN bill.items : bill.items[i].amount >= 0,
   item_texts    |-> \A i \in DOMAIN bill.items : /\ bill.items[i].code # Blank
                                                  /\ bill.items[i].description # Blank,
   sum           |-> ItemTotal(bill.items) = bill.total]

IsReconciledBill(bill) == AllHold(BillChecks(bill))

RoamingPositions(bill) == {i \in DOMAIN bill.items : bill.items[i].code = "roaming_data"}

HasRoaming(bill) == RoamingPositions(bill) # {}

(* The first line item with the supported code. *)
RoamingItem(bill) ==
  bill.items[CHOOSE i \in RoamingPositions(bill) : \A j \in RoamingPositions(bill) : i <= j]

ChargeChecks(bill, item, details) ==
  [state         |-> details.state = "confirmed",
   same_item     |-> details.code = item.code /\ details.description = item.description,
   same_amount   |-> details.amount = item.amount,
   same_currency |-> details.currency = bill.currency,
   in_period     |-> bill.start <= details.occurred /\ details.occurred <= bill.end,
   charge_texts  |-> /\ details.location # Blank /\ details.service # Blank
                     /\ details.trigger # Blank /\ details.version # Blank]

ChargeEvidenceMatches(bill, item, details) == AllHold(ChargeChecks(bill, item, details))

(* The columns of bill_snapshots and bill_line_items. *)
BillFits(bill) ==
  /\ FitsMoney(bill.total) /\ FitsVersion(bill.version)
  /\ \A i \in DOMAIN bill.items :
       FitsCode(bill.items[i].code) /\ FitsMoney(bill.items[i].amount)

(* With ck_bill_snapshots_* and ck_bill_line_items_nonnegative_amount. *)
StoreAcceptsBill(bill) ==
  /\ BillFits(bill)
  /\ bill.start <= bill.end /\ bill.total >= 0 /\ bill.currency \in Currencies
  /\ \A i \in DOMAIN bill.items : bill.items[i].amount >= 0

(* The columns of charge_evidence_snapshots. *)
ChargeFits(details) ==
  FitsCode(details.code) /\ FitsMoney(details.amount) /\ FitsVersion(details.version)

(* With ck_charge_evidence_*. *)
StoreAcceptsCharge(details) ==
  /\ ChargeFits(details)
  /\ details.amount >= 0
  /\ details.currency \in Currencies
  /\ details.state \in {"confirmed", "stale"}
=============================================================================
