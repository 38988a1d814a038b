------------------------ MODULE MCSendSupportMessage ------------------------
(* Instances of SendSupportMessage for TLC. *)
EXTENDS SendSupportMessage, SequencesExt, TLC

CONSTANTS c1, c2, v1, v2

OwnerOf == v1 :> c1 @@ v2 :> c2

OnlyOwner == v1 :> c1

GB(n) == [letters |-> "GB", number |-> {n}]

(* "Synthetic KDDI 5G 20GB" *)
PlanName == <<Word("KDDI"), [letters |-> "G", number |-> {5}], GB(20)>>

Plan(data, currency) ==
  [code |-> "G20", name |-> PlanName, version |-> "1", data |-> data,
   charge |-> 45, currency |-> currency, from |-> 0]

TheQuestions == {<<"compare", "my", "current", "plan">>,
                 <<"what", "is", "this", "charge">>,
                 <<"why", "is", "my", "latest", "bill", "higher">>,
                 <<"what", "is", "my", "latest", "bill">>,
                 <<"what", "is", "my", "current", "plan">>,
                 <<"can", "you", "issue", "a", "refund">>}

Values(plan) == FlattenSeq(Facts(plan))

(* What a model writes about the plan: the four values, the same in another*)
(* order, with a number of its own, with a number of the plan once more,   *)
(* without the date, inside longer words, with the price inside another    *)
(* number, and with the values of another plan.                            *)
TheTexts ==
  LET plan == Plan(20, "JPY")
      facts == Facts(plan)
  IN {Values(plan), facts[2] \o facts[4] \o facts[1] \o facts[3],
      Values(plan) \o <<Number(12), Word("months")>>,
      Values(plan) \o <<Number(20), Word("gifts")>>,
      facts[1] \o facts[2] \o facts[3],
      <<Word("auKDDI")>> \o Tail(facts[1]) \o <<Number(20), Word("GBs")>>
        \o facts[3] \o facts[4],
      facts[1] \o facts[2] \o <<Word("JPY"), Number(450)>> \o facts[4],
      Values(Plan(20, "USD"))}

LongerWords == {<<Word("auKDDI"), Word("KDDI")>>}
LongerTokens == {<<Word("GBs"), Word("GB")>>, <<Number(450), Number(45)>>}

FewTexts == {Values(Plan(20, "JPY")), Values(Plan(20, "USD"))}

(* Values that do not fit their columns, if the cfg says so. *)
CONSTANTS LongCode, LongVersion, TooMuch

(* A plan the store takes, one it does not, and one in another currency. *)
ThePlans == {Plan(20, "JPY"), Plan(0, "JPY"), Plan(20, "USD")}

Roaming(amount) == [code |-> "roaming_data", description |-> "Roaming", amount |-> amount]
Base == [code |-> "base", description |-> "Plan", amount |-> 45]

Bill(start, items, total) ==
  [start |-> start, end |-> start + 30, total |-> total, currency |-> "JPY",
   version |-> "1", items |-> items]

(* Two months with different roaming charges, a bill that does not add up, *)
(* one without roaming, and one that adds up but does not fit.             *)
TheBills == {Bill(0, <<Base, Roaming(12)>>, 57), Bill(31, <<Base, Roaming(15)>>, 60),
             Bill(0, <<Base, Roaming(12)>>, 58), Bill(0, <<Base>>, 45),
             Bill(0, <<[Base EXCEPT !.code = LongCode], Roaming(12)>>, 57)}

Charge(amount, occurred, state) ==
  [code |-> "roaming_data", description |-> "Roaming", amount |-> amount,
   currency |-> "JPY", occurred |-> occurred, location |-> "US",
   service |-> "Day Pass", trigger |-> "use", state |-> state, version |-> "1"]

(* Evidence for each month, outdated evidence, a negative correction, and  *)
(* evidence that agrees with the bill but does not fit.                    *)
TheCharges == {Charge(12, 18, "confirmed"), Charge(15, 49, "confirmed"),
               Charge(12, 18, "stale"), Charge(0 - 12, 18, "confirmed"),
               [Charge(12, 18, "confirmed") EXCEPT !.version = LongVersion]}

Offer(code, name) == [code |-> code, name |-> <<Word(name)>>, data |-> 5, charge |-> 28,
                      currency |-> "JPY", from |-> 0]

Catalog(asOf, offers) == [version |-> "1", asOf |-> asOf, offers |-> offers]

(* The first catalog, a refreshed one, one with a code listed twice, one   *)
(* that lists the customer's own plan, and one whose price does not fit.   *)
TheCatalogs == {Catalog(0, <<Offer("L5", "Lite"), Offer("P30", "Plus")>>),
                Catalog(2, <<Offer("L5", "Lite"), Offer("P30", "Plus")>>),
                Catalog(0, <<Offer("L5", "Lite"), Offer("L5", "Plus")>>),
                Catalog(0, <<Offer("G20", "Lite"), Offer("P30", "Plus")>>),
                Catalog(0, <<[Offer("L5", "Lite") EXCEPT !.charge = TooMuch],
                             Offer("P30", "Plus")>>)}

(* What the sources publish at first: consistent data for every customer. *)
AtFirst == [plan    |-> [c \in Customers |-> Plan(20, "JPY")],
            bill    |-> [c \in Customers |-> Bill(0, <<Base, Roaming(12)>>, 57)],
            charge  |-> [c \in Customers |-> Charge(12, 18, "confirmed")],
            catalog |-> Catalog(0, <<Offer("L5", "Lite"), Offer("P30", "Plus")>>)]

Symmetry == Permutations(Requests)
=============================================================================
