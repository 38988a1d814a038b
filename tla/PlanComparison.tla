--------------------------- MODULE PlanComparison ---------------------------
(***************************************************************************)
(* The check a plan and a catalog must pass before they are compared       *)
(* (services/send_support_message.py), and the columns and constraints     *)
(* their snapshots meet in the store.  Dates are day numbers, and a name   *)
(* is a sequence of tokens (GroundingGuard), <<>> if blank.                *)
(***************************************************************************)
EXTENDS Integers, Sequences, Functions, Currency

CONSTANTS
  OfferCount,  \* the offers a complete catalog lists (3 in the code)
  MaxAge       \* days a catalog stays current (30 in the code)

IsUsablePlan(plan, day) ==
  /\ plan.code # Blank /\ plan.name # <<>> /\ plan.version # Blank
  /\ plan.data > 0 /\ plan.charge >= 0
  /\ plan.currency \in Currencies
  /\ plan.from <= day

(* The age of the catalog lies in 0..MaxAge. *)
IsFresh(catalog, day) == catalog.asOf <= day /\ day - catalog.asOf <= MaxAge

Codes(offers) == [i \in DOMAIN offers |-> offers[i].code]
Names(offers) == [i \in DOMAIN offers |-> offers[i].name]

IsUsableOffer(offer, plan, day) ==
  /\ offer.code # Blank /\ offer.name # <<>>
  /\ offer.data > 0 /\ offer.charge >= 0
  /\ offer.currency = plan.currency
  /\ offer.from <= day

ComparisonChecks(plan, catalog, day) ==
  [usable_plan     |-> IsUsablePlan(plan, day),
   catalog_version |-> catalog.version # Blank,
   offer_count     |-> Len(catalog.offers) = OfferCount,
   freshness       |-> IsFresh(catalog, day),
   codes           |-> IsInjective(Codes(catalog.offers)),
   names           |-> IsInjective(Names(catalog.offers)),
   other_plans     |-> \A i \in DOMAIN catalog.offers : catalog.offers[i].code # plan.code,
   offers          |-> \A i \in DOMAIN catalog.offers :
                         IsUsableOffer(catalog.offers[i], plan, day)]

(* Error: two offers may have one code. *)
IsSafeButForCodes(plan, catalog, day) ==
  LET checks == ComparisonChecks(plan, catalog, day)
  IN  \A name \in DOMAIN checks \ {"codes"} : checks[name]

IsSafeComparisonInput(plan, catalog, day) == AllHold(ComparisonChecks(plan, catalog, day))

(* The columns that a plan and an offer have in each of their tables; the  *)
(* differences to an offer fit where both numbers do.                      *)
TermsFit(plan) == FitsCode(plan.code) /\ FitsCount(plan.data) /\ FitsMoney(plan.charge)

(* Of plan_snapshots. *)
PlanFits(plan) == TermsFit(plan) /\ FitsVersion(plan.version)

(* Of plan_comparison_snapshots, with the version of the catalog, and of   *)
(* plan_comparison_offers.                                                 *)
ComparisonFits(plan, catalog) ==
  /\ TermsFit(plan) /\ FitsVersion(catalog.version)
  /\ \A i \in DOMAIN catalog.offers : TermsFit(catalog.offers[i])

TermsAreValid(plan) == plan.data > 0 /\ plan.charge >= 0 /\ plan.currency \in Currencies

(* ck_plan_snapshots_*. *)
StoreAcceptsPlan(plan) == PlanFits(plan) /\ TermsAreValid(plan)

(* ck_plan_comparison_snapshots_* and ck_plan_comparison_offers_*, with    *)
(* the unique (snapshot, plan_code).                                       *)
StoreAcceptsComparison(plan, catalog) ==
  /\ ComparisonFits(plan, catalog)
  /\ TermsAreValid(plan)
  /\ IsInjective(Codes(catalog.offers))
  /\ \A i \in DOMAIN catalog.offers : TermsAreValid(catalog.offers[i])
=============================================================================
