---------------------------- MODULE SyntheticData ----------------------------
(***************************************************************************)
(* What the synthetic providers (adapters/kddi_mock) publish for the one   *)
(* development customer.  Dates count days from July 1, 2026.              *)
(***************************************************************************)
EXTENDS Integers, Sequences, GroundingGuard

July(day) == day - 1
August(day) == 30 + day

(* "Synthetic KDDI <series> <n>GB" *)
PlanNamed(series, number, gigabytes) ==
  <<Word("Synthetic"), Word("KDDI"), [letters |-> series, number |-> number],
    [letters |-> "GB", number |-> {gigabytes}]>>

ApprovedPlan ==
  [code |-> "SYN-KDDI-5G-20", name |-> PlanNamed("G", {5}, 20), data |-> 20, charge |-> 4500,
   currency |-> "JPY", from |-> August(1), version |-> "synthetic-kddi-v1"]

Item(code, description, amount) ==
  [code |-> code, description |-> description, amount |-> amount]

ApprovedBill ==
  [start |-> July(1), end |-> July(31), total |-> 6930, currency |-> "JPY",
   items |-> <<Item("monthly_service", "Monthly_mobile_service", 4500),
               Item("domestic_calls", "Domestic_calls", 600),
               Item("roaming_data", "International_roaming_data", 1200),
               Item("taxes_fees", "Taxes_and_fees", 630)>>,
   version |-> "synthetic-kddi-bill-v1"]

ApprovedCharge ==
  [code |-> "roaming_data", description |-> "International_roaming_data", amount |-> 1200,
   currency |-> "JPY", occurred |-> July(18), location |-> "United_States",
   service |-> "Synthetic_KDDI_Overseas_Data_Day_Pass",
   trigger |-> "automatically_activated_when_the_device_used_mobile_data_while_roaming",
   state |-> "confirmed", version |-> "synthetic-kddi-charge-v1"]

Offer(code, series, gigabytes, charge) ==
  [code |-> code, name |-> PlanNamed(series, {}, gigabytes), data |-> gigabytes,
   charge |-> charge, currency |-> "JPY", from |-> August(28)]

ApprovedCatalog ==
  [offers |-> <<Offer("SYN-KDDI-LITE-5", "Lite", 5, 2800),
                Offer("SYN-KDDI-PLUS-30", "Plus", 30, 5200),
                Offer("SYN-KDDI-MAX-100", "Max", 100, 7500)>>,
   asOf |-> August(28), version |-> "synthetic-kddi-catalog-2026-08-28"]
=============================================================================
