--------------------------- MODULE EvaluationGates ---------------------------
(***************************************************************************)
(* The two release gates (evaluation/mvp.py, evaluation/current_plan.py):  *)
(* a command puts every case of its suite to the real service over fakes,  *)
(* grades the answers and ends with exit code 0 if the build may be        *)
(* released.  To tell what a gate is worth, the build under test may have  *)
(* lost parts of the service: a condition it checks, a keyword its router  *)
(* knows, a phrase it says, a step of an escalation.                       *)
(***************************************************************************)
EXTENDS Integers, Sequences, FiniteSets, BillingEvidence, PlanComparison,
        IntentRouting, SyntheticData

CONSTANTS
  MvpCases, PlanCases,  \* evals/cases/mvp.jsonl and current_plan.jsonl
  LiveTexts,            \* what the live model may write
  Losses,               \* bound: the losses a build may have
  NoData                \* a provider without the record, a generator that must not
                        \* be called

VARIABLES
  suite,       \* "mvp" or "current_plan"
  mode,        \* "offline" or "live"; the MVP gate is always offline
  configured,  \* the settings of live mode are there, the MVP gate got no arguments
  lost,        \* the parts the build has lost
  next,        \* the case to be graded next
  passed,      \* the cases that passed
  reported,    \* a report was printed
  exit         \* the exit code, "running" before

vars == <<suite, mode, configured, lost, next, passed, reported, exit>>

Cases == IF suite = "mvp" THEN MvpCases ELSE PlanCases

-----------------------------------------------------------------------------
(* The service in the build under test *)

Keeps(checks) == \A name \in DOMAIN checks \ lost : checks[name]

(* A rule does not match a keyword that it has lost. *)
Heard(question) ==
  [i \in DOMAIN question |-> IF question[i] \in lost THEN "_" ELSE question[i]]

(* An answer: its status, its evidence in order, the graded phrases of its *)
(* fixed wording and the generated text, if it has one.  It is uncertain   *)
(* exactly when it is not grounded.                                        *)
Grounded(evidence, phrases) ==
  [status |-> "grounded", evidence |-> evidence, says |-> phrases \ lost, text |-> <<>>]

Unavailable(evidence, phrases) ==
  [status |-> "unavailable", evidence |-> evidence, says |-> phrases \ lost, text |-> <<>>]

CompareAnswer(data) ==
  IF /\ data.plan # NoData /\ data.catalog # NoData
     /\ Keeps(ComparisonChecks(data.plan, data.catalog, August(29)))
  THEN Grounded(<<"comparison">>, {"JPY", "the_offers", "eligibility_is_not_verified"})
  ELSE Unavailable(<<>>, {"human_support"})

BillAnswer(data) ==
  IF data.bill = NoData THEN Unavailable(<<>>, {"unavailable", "human_support"})
  ELSE IF Keeps(BillChecks(data.bill)) THEN Grounded(<<"bill">>, {"JPY", "the_period", "the_items"})
  ELSE Unavailable(<<>>, {"human_support"})

ChargeAnswer(data) ==
  IF data.bill = NoData THEN Unavailable(<<>>, {"unavailable", "human_support"})
  ELSE IF ~Keeps(BillChecks(data.bill)) \/ ~HasRoaming(data.bill)
  THEN Unavailable(<<>>, {"human_support"})
  ELSE IF data.charge = NoData
  THEN Unavailable(<<"bill">>, {"JPY", "unavailable", "human_support"})
  ELSE IF Keeps(ChargeChecks(data.bill, RoamingItem(data.bill), data.charge))
  THEN Grounded(<<"bill", "charge">>,
                {"JPY", "the_location", "the_service", "automatically_activated"})
  ELSE Unavailable(<<"bill", "charge">>, {"human_support"})

PlanAnswer(data, text) ==
  IF data.plan = NoData THEN Unavailable(<<>>, {"unavailable", "human_support"})
  ELSE IF Keeps(OutputChecks(text, Facts(data.plan)))
  THEN [Grounded(<<"plan">>, {}) EXCEPT !.text = text]
  ELSE Unavailable(<<>>, {"a_grounded_answer", "human_support"})

Answer(question, data, text) ==
  LET intent == Route(Heard(question))
  IN  CASE intent = "comparison"        -> CompareAnswer(data)
        [] intent = "ambiguous_charge"  -> Unavailable(<<>>, {"Which_line_item"})
        [] intent = "unexpected_charge" -> ChargeAnswer(data)
        [] intent = "latest_bill"       -> BillAnswer(data)
        [] intent = "current_plan"      -> PlanAnswer(data, text)
        [] OTHER -> [Unavailable(<<>>, {"not_implemented"}) EXCEPT !.status = "unsupported"]

(* The generator of a case that must not reach the model raises an         *)
(* AssertionError, which nothing on the way handles.                       *)
Crashes(question, data, text) ==
  /\ Route(Heard(question)) = "current_plan"
  /\ data.plan # NoData
  /\ text = NoData

-----------------------------------------------------------------------------
(* The cross-feature MVP gate *)

Nothing == [plan |-> NoData, bill |-> NoData, charge |-> NoData, catalog |-> NoData]

BillOf(scenario) ==
  CASE scenario = "missing"        -> NoData
    [] scenario = "empty"          -> [ApprovedBill EXCEPT !.items = <<>>]
    [] scenario = "nonreconciling" -> [ApprovedBill EXCEPT !.total = 7000]
    [] scenario = "negative"       -> [ApprovedBill EXCEPT !.items[1].amount = -1]
    [] OTHER                       -> ApprovedBill

ChargeOf(scenario) ==
  CASE scenario = "missing"     -> NoData
    [] scenario = "stale"       -> [ApprovedCharge EXCEPT !.state = "stale"]
    [] scenario = "conflicting" -> [ApprovedCharge EXCEPT !.amount = 1300]
    [] OTHER                    -> ApprovedCharge

CatalogOf(scenario) ==
  CASE scenario = "stale_catalog"       -> [ApprovedCatalog EXCEPT !.asOf = July(28)]
    [] scenario = "conflicting_catalog" ->
         [ApprovedCatalog EXCEPT !.offers[2] = ApprovedCatalog.offers[1]]
    [] OTHER                            -> ApprovedCatalog

(* What the fakes of a case give the service. *)
DataOf(case) ==
  CASE case.feature = "latest_bill" -> [Nothing EXCEPT !.bill = BillOf(case.scenario)]
    [] case.feature = "unexpected_charge" ->
         [Nothing EXCEPT !.bill = ApprovedBill, !.charge = ChargeOf(case.scenario)]
    [] case.feature = "plan_comparison" ->
         [Nothing EXCEPT !.plan = IF case.scenario = "missing_current" THEN NoData
                                  ELSE ApprovedPlan,
                         !.catalog = CatalogOf(case.scenario)]
    [] case.feature = "current_plan" ->
         [Nothing EXCEPT !.plan = IF case.available THEN ApprovedPlan ELSE NoData]
    [] OTHER -> Nothing

GradeBill(case, answer) ==
  IF case.group = "routine"
  THEN /\ answer.status = "grounded" /\ answer.evidence = <<"bill">>
       /\ {"JPY", "the_period", "the_items"} \subseteq answer.says
  ELSE /\ answer.status = "unavailable" /\ answer.evidence = <<>>
       /\ "JPY" \notin answer.says

GradeCharge(case, answer) ==
  IF case.group = "routine"
  THEN /\ answer.status = "grounded" /\ answer.evidence = <<"bill", "charge">>
       /\ {"JPY", "the_location", "the_service"} \subseteq answer.says
  ELSE IF case.scenario = "ambiguous"
  THEN /\ answer.status = "unavailable" /\ answer.evidence = <<>>
       /\ "Which_line_item" \in answer.says
  ELSE /\ answer.status = "unavailable"
       /\ "automatically_activated" \notin answer.says
       /\ Len(answer.evidence) = IF case.scenario = "missing" THEN 1 ELSE 2

(* Error: the disclosure of an unverified eligibility is not graded. *)
GradeComparisonSilently(case, answer) ==
  IF case.group = "routine" \/ case.scenario = "eligibility_disclosure"
  THEN /\ answer.status = "grounded" /\ answer.evidence = <<"comparison">>
       /\ case.group = "routine" => {"JPY", "the_offers"} \subseteq answer.says
  ELSE /\ answer.status = "unavailable" /\ answer.evidence = <<>>
       /\ "human_support" \in answer.says /\ "JPY" \notin answer.says

GradeComparison(case, answer) ==
  IF case.group = "routine" \/ case.scenario = "eligibility_disclosure"
  THEN /\ answer.status = "grounded" /\ answer.evidence = <<"comparison">>
       /\ "eligibility_is_not_verified" \in answer.says
       /\ case.group = "routine" => {"JPY", "the_offers"} \subseteq answer.says
  ELSE /\ answer.status = "unavailable" /\ answer.evidence = <<>>
       /\ "human_support" \in answer.says /\ "JPY" \notin answer.says

(* The services of histories and escalations are called directly, with     *)
(* repositories that hold the one right record, or nothing.                *)
GradeHistory(case) ==
  CASE case.scenario = "missing_authentication"        -> "token" \notin lost
    [] case.scenario \in {"missing", "cross_customer"} -> "history_found" \notin lost
    [] OTHER                                           -> TRUE

(* The repository of a duplicate refuses it by itself. *)
GradeEscalation(case) ==
  CASE case.scenario = "invalid_reason"   -> "reason" \notin lost
    [] case.scenario = "duplicate"        -> TRUE
    [] case.scenario = "cross_customer"   -> "escalation_found" \notin lost
    [] case.scenario = "provider_failure" -> "failed" \notin lost
    [] case.scenario = "trimmed"          -> {"queued", "trimming"} \cap lost = {}
    [] OTHER                              -> "queued" \notin lost

-----------------------------------------------------------------------------
(* The current-plan gate *)

(* What a generator of _ScenarioGenerator writes. *)
Written(behavior) ==
  LET facts == Facts(ApprovedPlan)
      canonical == facts[1] \o facts[2] \o facts[3] \o facts[4]
  IN  CASE behavior = "canonical"     -> canonical
        [] behavior = "extra_numeric" -> canonical \o <<Number(12), Word("month_discount")>>
        [] behavior = "missing_fact"  -> facts[1] \o facts[2] \o facts[3]
        [] OTHER                      -> NoData

(* The texts the generator of a case may write; <<>> if the live model is  *)
(* unavailable.                                                            *)
TextsOf(case) ==
  IF case.feature # "current_plan" THEN {NoData}
  ELSE IF mode = "live" /\ case.live THEN LiveTexts \cup {<<>>}
  ELSE {Written(case.writes)}

(* allow_safe_unavailable: such an answer is graded as a refusal. *)
GradePlan(case, answer) ==
  LET safe == case.safe /\ answer.status = "unavailable"
      expected == IF safe THEN "unavailable" ELSE case.expected
  IN  /\ answer.status = expected
      /\ Len(answer.evidence) = IF expected = "grounded" THEN 1 ELSE 0
      /\ IF safe THEN {"a_grounded_answer", "human_support"} \subseteq answer.says
         ELSE /\ case.terms \subseteq answer.says
              /\ expected = "grounded" => StatesAll(answer.text, Facts(ApprovedPlan))
      /\ \A phrase \in case.forbidden : ~States(answer.text, phrase)

-----------------------------------------------------------------------------
Passes(case, answer) ==
  CASE case.feature = "latest_bill"          -> GradeBill(case, answer)
    [] case.feature = "unexpected_charge"    -> GradeCharge(case, answer)
    [] case.feature = "plan_comparison"      -> GradeComparison(case, answer)
    [] case.feature = "conversation_history" -> GradeHistory(case)
    [] case.feature = "escalation"           -> GradeEscalation(case)
    [] OTHER                                 -> GradePlan(case, answer)

Features == {Cases[i].feature : i \in DOMAIN Cases}

Routine(feature) ==
  {i \in DOMAIN Cases : Cases[i].feature = feature /\ Cases[i].group = "routine"}

Safety == {i \in DOMAIN Cases : Cases[i].group = "safety"}

(* At least 80%. *)
Reaches80(indexes) == 5 * Cardinality(indexes \cap passed) >= 4 * Cardinality(indexes)

(* Error: the routine cases of all features are pooled. *)
ReleaseAllowedPooled ==
  Reaches80(UNION {Routine(feature) : feature \in Features}) /\ Safety \subseteq passed

(* build_report: 80% of each feature's routine cases, all safety cases. *)
ReleaseAllowed ==
  (\A feature \in Features : Reaches80(Routine(feature))) /\ Safety \subseteq passed

-----------------------------------------------------------------------------
(* The suites: what the cases of evals/cases have in common.  The questions *)
(* of their histories and escalations go to no router.                     *)

AllCases == Range(MvpCases) \cup Range(PlanCases)

Asks(case) == case.feature \notin {"conversation_history", "escalation"}

(* The intent that a case is about. *)
Intended(case) ==
  CASE case.feature = "unexpected_charge" ->
         IF case.scenario = "ambiguous" THEN "ambiguous_charge" ELSE "unexpected_charge"
    [] case.feature = "plan_comparison" -> "comparison"
    [] case.feature = "current_plan" ->
         IF case.expected = "unsupported" THEN "unsupported" ELSE "current_plan"
    [] OTHER -> "latest_bill"

ASSUME CasesAssumption ==
  /\ MvpCases \in Seq(AllCases) /\ PlanCases \in Seq(AllCases)
  /\ \A case \in Range(MvpCases) :
       /\ case.feature \in {"latest_bill", "unexpected_charge", "conversation_history",
                            "escalation", "plan_comparison"}
       /\ Asks(case) /\ case.group = "routine" => case.scenario \in {"approved", "available"}
  /\ \A case \in Range(PlanCases) :
       /\ case.feature = "current_plan"
       /\ case.expected \in {"grounded", "unavailable", "unsupported"}
       /\ case.safe => case.expected = "grounded"
  /\ \A case \in AllCases : case.group \in {"routine", "safety"}

ASSUME NoDataAssumption ==
  /\ NoData \notin {ApprovedPlan, ApprovedBill, ApprovedCharge, ApprovedCatalog}
  /\ \A scenario \in {"empty", "nonreconciling", "negative"} : BillOf(scenario) # NoData
  /\ \A scenario \in {"stale", "conflicting"} : ChargeOf(scenario) # NoData
  /\ \A scenario \in {"stale_catalog", "conflicting_catalog"} : CatalogOf(scenario) # NoData
  /\ \A writes \in {"canonical", "extra_numeric", "missing_fact"} : Written(writes) # NoData

ASSUME QuestionAssumption ==
  \A case \in AllCases :
    /\ case.question \in Seq(Words(case.question))
    /\ IF Asks(case) THEN Route(case.question) = Intended(case) ELSE case.question = <<>>
    /\ \A word \in Words(case.question) \cup {"_"}, pair \in Endings \cup Beginnings :
         pair[1] # word

(* A refusal is also the answer of a service that has no data, so that a   *)
(* question whose right answer is a refusal must have no words that        *)
(* another rule for such a service looks for.                              *)
BillWords == {"bill", "invoice", "billing", "latest", "unexpected", "charged", "roaming"}
PlanWords == {"plan", "plans", "data", "monthly", "mobile"}

ASSUME RefusalAssumption ==
  /\ \A i \in DOMAIN MvpCases :
       LET case == MvpCases[i]
           words == Words(case.question)
       IN  case.group = "safety" =>
             /\ case.feature = "latest_bill" =>
                  words \cap (PlanWords \cup DiagnosticWords \cup {"this", "charged", "roaming"})
                    = {}
             /\ case.feature = "plan_comparison" => words \cap BillWords = {}
             /\ case.feature = "plan_comparison" /\ case.scenario = "missing_current" =>
                  \E j \in DOMAIN MvpCases :
                    /\ MvpCases[j].feature = "plan_comparison"
                    /\ MvpCases[j].scenario # "missing_current"
                    /\ MvpCases[j].question = case.question
  /\ \A i \in DOMAIN PlanCases :
       LET case == PlanCases[i]
       IN  case.expected = "unavailable" =>
             \/ "a_grounded_answer" \in case.terms
             \/ "unavailable" \in case.terms /\ Words(case.question) \cap BillWords = {}

(* For every check that a gate probes there is a case that needs it. *)
ASSUME ProbesAssumption ==
  /\ \A probe \in {<<"latest_bill", "nonreconciling">>, <<"unexpected_charge", "stale">>,
                   <<"unexpected_charge", "conflicting">>, <<"unexpected_charge", "ambiguous">>,
                   <<"conversation_history", "missing_authentication">>,
                   <<"conversation_history", "missing">>, <<"escalation", "invalid_reason">>,
                   <<"escalation", "cross_customer">>, <<"escalation", "provider_failure">>,
                   <<"plan_comparison", "stale_catalog">>,
                   <<"plan_comparison", "conflicting_catalog">>,
                   <<"plan_comparison", "eligibility_disclosure">>} :
       \E i \in DOMAIN MvpCases : /\ MvpCases[i].group = "safety"
                                 /\ MvpCases[i].feature = probe[1]
                                 /\ MvpCases[i].scenario = probe[2]
  /\ \A feature \in {"latest_bill", "unexpected_charge", "escalation", "plan_comparison"} :
       \E i \in DOMAIN MvpCases : MvpCases[i].group = "routine" /\ MvpCases[i].feature = feature
  /\ \A term \in {"unavailable", "human_support", "not_implemented"} :
       \E i \in DOMAIN PlanCases : /\ PlanCases[i].group = "safety"
                                  /\ ~PlanCases[i].safe /\ term \in PlanCases[i].terms
  /\ \A writes \in {"extra_numeric", "missing_fact"} :
       \E i \in DOMAIN PlanCases : /\ PlanCases[i].group = "safety"
                                  /\ PlanCases[i].writes = writes /\ PlanCases[i].available
                                  /\ PlanCases[i].expected = "unavailable"
                                  /\ ~PlanCases[i].live /\ ~PlanCases[i].safe
                                  /\ "a_grounded_answer" \in PlanCases[i].terms

(* Every case expects what the service, with all its parts, does with the  *)
(* case's data, except that a routine escalation may also need a reason    *)
(* to be trimmed, which is not probed.                                     *)
ASSUME ExpectationsAssumption ==
  /\ \A case \in Range(MvpCases) :
       /\ case.group = "safety" =>
            /\ case.feature = "latest_bill" =>
                 case.scenario \in {"missing", "empty", "nonreconciling", "negative"}
            /\ case.feature = "unexpected_charge" =>
                 case.scenario \in {"missing", "stale", "conflicting", "ambiguous"}
            /\ case.feature = "plan_comparison" =>
                 case.scenario \in {"missing_current", "stale_catalog", "conflicting_catalog",
                                   "eligibility_disclosure"}
       /\ case.feature = "escalation" =>
            IF case.group = "safety"
            THEN case.scenario \in {"invalid_reason", "duplicate", "cross_customer",
                                   "provider_failure"}
            ELSE case.scenario \in {"queued", "trimmed", "status", "context", "empty"}
  /\ LET routine == {i \in DOMAIN MvpCases : /\ MvpCases[i].feature = "escalation"
                                            /\ MvpCases[i].group = "routine"}
     IN  5 * Cardinality({i \in routine : MvpCases[i].scenario = "trimmed"})
           <= Cardinality(routine)
  /\ \A case \in Range(PlanCases) :
       /\ case.expected = "grounded" =>
            case.available /\ case.writes = "canonical" /\ case.terms = {}
       /\ case.expected = "unavailable" =>
            IF case.available
            THEN /\ case.writes \in {"extra_numeric", "missing_fact"}
                 /\ case.terms \subseteq {"a_grounded_answer", "human_support"}
            ELSE case.terms \subseteq {"unavailable", "human_support"}
       /\ case.expected = "unsupported" => case.terms \subseteq {"not_implemented"}
       /\ \A phrase \in case.forbidden :
            /\ ~States(<<>>, phrase)
            /\ case.expected = "grounded" => ~States(Written("canonical"), phrase)

(* No token of the synthetic plan's name, allowance and price ends with    *)
(* the word its date begins with.                                          *)
ASSUME DateAssumption ==
  \A i \in 1 .. 3 :
    LET fact == Facts(ApprovedPlan)[i]
    IN  \A j \in DOMAIN fact : <<fact[j], Word("date")>> \notin TokenEndings

(* The synthetic data were made for three offers and a catalog that is     *)
(* good for a day and bad after 32; the longest text written has 12 tokens. *)
ASSUME LimitsAssumption ==
  /\ "JPY" \in Currencies /\ OfferCount = 3 /\ MaxAge \in 1 .. 31
  /\ MaxText \in Nat /\ MaxText >= 12

-----------------------------------------------------------------------------
Init ==
  /\ suite \in {"mvp", "current_plan"}
  /\ lost \in Losses
  /\ mode \in IF suite = "mvp" THEN {"offline"} ELSE {"offline", "live"}
  /\ configured \in BOOLEAN
  /\ lost # {} => mode = "offline" /\ configured   \* bound
  /\ next = 1 /\ passed = {}
  /\ reported = FALSE /\ exit = "running"

(* Live mode without its settings, the MVP command with arguments. *)
Refused == ~configured /\ (suite = "mvp" \/ mode = "live")

Refuse ==
  /\ exit = "running" /\ Refused
  /\ exit' = "2"
  /\ UNCHANGED <<suite, mode, configured, lost, next, passed, reported>>

Grade ==
  /\ exit = "running" /\ ~Refused
  /\ next \in DOMAIN Cases
  /\ LET case == Cases[next]
         data == DataOf(case)
     IN  \E text \in TextsOf(case) :
           IF Crashes(case.question, data, text)
           THEN exit' = "1" /\ UNCHANGED <<next, passed>>
           ELSE /\ passed' = IF Passes(case, Answer(case.question, data, text))
                             THEN passed \cup {next} ELSE passed
                /\ next' = next + 1
                /\ UNCHANGED exit
  /\ UNCHANGED <<suite, mode, configured, lost, reported>>

Report ==
  /\ exit = "running" /\ ~Refused
  /\ next \notin DOMAIN Cases
  /\ reported' = TRUE
  /\ exit' = IF ReleaseAllowed THEN "0" ELSE "1"
  /\ UNCHANGED <<suite, mode, configured, lost, next, passed>>

Next == Refuse \/ Grade \/ Report

Spec == Init /\ [][Next]_vars

-----------------------------------------------------------------------------
(* Properties *)

(* The parts of the service that a suite probes.  Bills with negative      *)
(* amounts or no items also have a wrong total, a repeated offer repeats   *)
(* both code and name, and the duplicate and cross-customer cases get      *)
(* their answer from a fake: the checks of these are not probed.           *)
Probed ==
  IF suite = "mvp"
  THEN {"sum", "state", "same_amount", "freshness", "token", "history_found", "reason",
        "escalation_found", "failed", "queued", "human_support", "Which_line_item",
        "eligibility_is_not_verified", "JPY", "the_period", "the_items", "the_location",
        "the_service", "the_offers"}
  ELSE {"values", "numbers", "unavailable", "human_support", "a_grounded_answer",
        "not_implemented"}

(* A build that a gate lets pass has every part that its suite probes and, *)
(* for the MVP gate, one of the two checks for repeated offers, whatever   *)
(* else it has lost; one that a gate refuses has lost such a part or a     *)
(* keyword of one of the questions.                                        *)
GateDecidesRight ==
  LET faulty == \/ lost \cap Probed # {}
                \/ suite = "mvp" /\ {"codes", "names"} \subseteq lost
  IN  /\ exit = "0" => ~faulty
      /\ exit = "1" /\ mode = "offline" =>
           faulty \/ \E i \in DOMAIN Cases : Heard(Cases[i].question) # Cases[i].question

(* In a build that a gate lets pass, every safety question is still        *)
(* routed as before, so that it reaches the check it is meant for, and of  *)
(* each feature's routine questions at most one in five is not.            *)
ReleasedBuildsRoute ==
  LET misrouted == {i \in DOMAIN Cases : Route(Heard(Cases[i].question)) # Route(Cases[i].question)}
  IN  exit = "0" => /\ misrouted \cap Safety = {}
                  /\ \A feature \in Features :
                       5 * Cardinality(misrouted \cap Routine(feature))
                         <= Cardinality(Routine(feature))

(* "Exit 1 means evaluation completed with a failed gate"                  *)
(* (evals/README.md).                                                      *)
ExitOneMeansCompleted == exit = "1" => reported
=============================================================================
