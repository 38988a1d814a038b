------------------------ MODULE EvaluationGatesProofs ------------------------
(***************************************************************************)
(* Theorems about the release gates, for builds that have lost any number  *)
(* of parts and suites of any size.                                        *)
(***************************************************************************)
EXTENDS EvaluationGates, FiniteSetTheorems, TLAPS

-----------------------------------------------------------------------------
(* Questions *)

LEMMA HeardIsText ==
  ASSUME NEW question, question \in Seq(Words(question))
  PROVE  /\ Heard(question) \in Seq(Words(Heard(question)))
         /\ Len(Heard(question)) = Len(question)
         /\ Words(Heard(question)) \subseteq Words(question) \cup {"_"}
<1> DEFINE heard == Heard(question)
<1>1. DOMAIN question = 1 .. Len(question) /\ Len(question) \in Nat
  OBVIOUS
<1>2. heard = [i \in 1 .. Len(question) |-> IF question[i] \in lost THEN "_" ELSE question[i]]
  BY <1>1 DEF Heard
<1> HIDE DEF heard
<1>3. Words(heard) \subseteq Words(question) \cup {"_"}
  BY <1>1, <1>2 DEF Words
<1>4. \A i \in 1 .. Len(question) : heard[i] \in Words(heard)
  BY <1>2 DEF Words
<1>5. heard \in [1 .. Len(question) -> Words(heard)]
  BY <1>2, <1>4
<1>6. heard \in Seq(Words(heard)) /\ Len(heard) = Len(question)
  BY <1>1, <1>5
<1> QED
  BY <1>3, <1>6 DEF heard

(* A phrase that is found is found word by word, unless a word of the text *)
(* ends or begins with one of the phrase.                                  *)
LEMMA MentionedWords ==
  ASSUME NEW text, text \in Seq(Words(text)), NEW S, NEW phrase \in Seq(S),
         \A word \in Words(text), pair \in Endings \cup Beginnings : pair[1] # word,
         Mentions(text, phrase)
  PROVE  \A i \in 1 .. Len(phrase) : phrase[i] \in Words(text)
<1>1. PICK at \in 0 .. Len(text) - Len(phrase) :
        \A i \in DOMAIN phrase :
          \/ text[at + i] = phrase[i]
          \/ i = 1 /\ <<text[at + i], phrase[i]>> \in Endings
          \/ i = Len(phrase) /\ <<text[at + i], phrase[i]>> \in Beginnings
  BY DEF Mentions
<1> SUFFICES ASSUME NEW i \in 1 .. Len(phrase) PROVE phrase[i] \in Words(text)
  OBVIOUS
<1>2. at + i \in DOMAIN text /\ i \in DOMAIN phrase
  BY <1>1
<1>3. text[at + i] \in Words(text)
  BY <1>2 DEF Words
<1>4. \A word : <<text[at + i], word>>[1] = text[at + i]
  OBVIOUS
<1>5. \A word : <<text[at + i], word>> \notin Endings \cup Beginnings
  BY <1>3, <1>4
<1> QED
  BY <1>1, <1>2, <1>3, <1>5

(* The words without which a rule does not apply. *)
LEMMA RuleWords ==
  ASSUME NEW text, text \in Seq(Words(text)),
         \A word \in Words(text), pair \in Endings \cup Beginnings : pair[1] # word
  PROVE  /\ IsPlanComparisonQuestion(text) => {"plan", "plans"} \cap Words(text) # {}
         /\ IsAmbiguousChargeQuestion(text) => "this" \in Words(text)
         /\ IsUnexpectedChargeQuestion(text) =>
              \/ {"unexpected", "charged", "roaming"} \cap Words(text) # {}
              \/ "bill" \in Words(text) /\ Words(text) \cap DiagnosticWords # {}
         /\ IsLatestBillQuestion(text) =>
              {"bill", "invoice", "billing", "latest"} \cap Words(text) # {}
         /\ IsCurrentPlanQuestion(text) => PlanWords \cap Words(text) # {}
<1>1. \A a, b :
        Mentions(text, <<a, b>>) => a \in Words(text) /\ b \in Words(text)
  <2> SUFFICES ASSUME NEW a, NEW b, Mentions(text, <<a, b>>)
               PROVE  a \in Words(text) /\ b \in Words(text)
    OBVIOUS
  <2> DEFINE phrase == <<a, b>>
  <2>1. phrase \in Seq({a, b}) /\ Len(phrase) = 2 /\ phrase[1] = a /\ phrase[2] = b
    OBVIOUS
  <2>2. Mentions(text, phrase)
    OBVIOUS
  <2> HIDE DEF phrase
  <2>3. \A i \in 1 .. Len(phrase) : phrase[i] \in Words(text)
    BY <2>1, <2>2, MentionedWords
  <2> QED
    BY <2>1, <2>3
<1>2. \A a, b, c :
        Mentions(text, <<a, b, c>>) => a \in Words(text) /\ b \in Words(text) /\ c \in Words(text)
  <2> SUFFICES ASSUME NEW a, NEW b, NEW c,
                      Mentions(text, <<a, b, c>>)
               PROVE  a \in Words(text) /\ b \in Words(text) /\ c \in Words(text)
    OBVIOUS
  <2> DEFINE phrase == <<a, b, c>>
  <2>1. /\ phrase \in Seq({a, b, c}) /\ Len(phrase) = 3
        /\ phrase[1] = a /\ phrase[2] = b /\ phrase[3] = c
    OBVIOUS
  <2>2. Mentions(text, phrase)
    OBVIOUS
  <2> HIDE DEF phrase
  <2>3. \A i \in 1 .. Len(phrase) : phrase[i] \in Words(text)
    BY <2>1, <2>2, MentionedWords
  <2> QED
    BY <2>1, <2>3
<1>3. IsPlanComparisonQuestion(text) => {"plan", "plans"} \cap Words(text) # {}
  BY <1>1 DEF IsPlanComparisonQuestion, MentionsOneOf
<1>4. IsAmbiguousChargeQuestion(text) => "this" \in Words(text)
  BY <1>1 DEF IsAmbiguousChargeQuestion
<1>5. IsUnexpectedChargeQuestion(text) =>
        \/ {"unexpected", "charged", "roaming"} \cap Words(text) # {}
        \/ "bill" \in Words(text) /\ Words(text) \cap DiagnosticWords # {}
  BY <1>1 DEF IsUnexpectedChargeQuestion, IsDiagnostic
<1>6. IsLatestBillQuestion(text) => {"bill", "invoice", "billing", "latest"} \cap Words(text) # {}
  BY <1>1 DEF IsLatestBillQuestion, MentionsOneOf
<1>7. IsCurrentPlanQuestion(text) => PlanWords \cap Words(text) # {}
  BY <1>1, <1>2 DEF IsCurrentPlanQuestion, MentionsOneOf, PlanWords
<1> QED
  BY <1>3, <1>4, <1>5, <1>6, <1>7
LEMMA CaseRules ==
  ASSUME NEW c \in AllCases
  PROVE  LET route == Route(Heard(c.question))
             words == Words(c.question)
         IN  /\ route \in Intents
             /\ route = "comparison" => {"plan", "plans"} \cap words # {}
             /\ route = "ambiguous_charge" => "this" \in words
             /\ route = "unexpected_charge" =>
                  \/ {"unexpected", "charged", "roaming"} \cap words # {}
                  \/ "bill" \in words /\ words \cap DiagnosticWords # {}
             /\ route = "latest_bill" => {"bill", "invoice", "billing", "latest"} \cap words # {}
             /\ route = "current_plan" => PlanWords \cap words # {}
<1> DEFINE heard == Heard(c.question)
           words == Words(c.question)
<1>1. heard \in Seq(Words(heard)) /\ Words(heard) \subseteq words \cup {"_"}
  BY HeardIsText, QuestionAssumption
<1>2. \A word \in Words(heard), pair \in Endings \cup Beginnings : pair[1] # word
  BY <1>1, QuestionAssumption
<1>3. \A word \in Words(heard) : word = "_" \/ word \in words
  BY <1>1
<1> HIDE DEF heard, words
<1>4. /\ IsPlanComparisonQuestion(heard) => {"plan", "plans"} \cap words # {}
      /\ IsAmbiguousChargeQuestion(heard) => "this" \in words
  BY <1>1, <1>2, <1>3, RuleWords
<1>5. IsUnexpectedChargeQuestion(heard) =>
        \/ {"unexpected", "charged", "roaming"} \cap words # {}
        \/ "bill" \in words /\ words \cap DiagnosticWords # {}
  BY <1>1, <1>2, <1>3, RuleWords DEF DiagnosticWords
<1>6. /\ IsLatestBillQuestion(heard) => {"bill", "invoice", "billing", "latest"} \cap words # {}
      /\ IsCurrentPlanQuestion(heard) => PlanWords \cap words # {}
  BY <1>1, <1>2, <1>3, RuleWords DEF PlanWords
<1> QED
  BY <1>4, <1>5, <1>6 DEF Route, Intents, heard, words

-----------------------------------------------------------------------------
(* Answers *)

LEMMA AnswerByRoute ==
  ASSUME NEW question, NEW data, NEW text
  PROVE  LET route == Route(Heard(question))
             answer == Answer(question, data, text)
         IN  /\ route = "comparison" => answer = CompareAnswer(data)
             /\ route = "ambiguous_charge" => answer = Unavailable(<<>>, {"Which_line_item"})
             /\ route = "unexpected_charge" => answer = ChargeAnswer(data)
             /\ route = "latest_bill" => answer = BillAnswer(data)
             /\ route = "current_plan" => answer = PlanAnswer(data, text)
             /\ route = "unsupported" => answer.status = "unsupported"
  BY DEF Answer, Unavailable

LEMMA CompareFacts ==
  ASSUME NEW data
  PROVE  LET answer == CompareAnswer(data)
         IN  \/ /\ answer.status = "grounded" /\ answer.evidence = <<"comparison">>
                /\ answer.says = {"JPY", "the_offers", "eligibility_is_not_verified"} \ lost
                /\ data.plan # NoData /\ data.catalog # NoData
                /\ Keeps(ComparisonChecks(data.plan, data.catalog, August(29)))
             \/ /\ answer.status = "unavailable" /\ answer.evidence = <<>>
                /\ answer.says = {"human_support"} \ lost
                /\ ~ /\ data.plan # NoData /\ data.catalog # NoData
                     /\ Keeps(ComparisonChecks(data.plan, data.catalog, August(29)))
  BY DEF CompareAnswer, Grounded, Unavailable

LEMMA BillFacts ==
  ASSUME NEW data
  PROVE  LET answer == BillAnswer(data)
         IN  \/ /\ answer.status = "grounded" /\ answer.evidence = <<"bill">>
                /\ answer.says = {"JPY", "the_period", "the_items"} \ lost
                /\ data.bill # NoData /\ Keeps(BillChecks(data.bill))
             \/ /\ answer.status = "unavailable" /\ answer.evidence = <<>>
                /\ answer.says \subseteq {"unavailable", "human_support"} \ lost
                /\ "human_support" \notin lost => "human_support" \in answer.says
                /\ ~(data.bill # NoData /\ Keeps(BillChecks(data.bill)))
  BY DEF BillAnswer, Grounded, Unavailable

LEMMA ChargeFacts ==
  ASSUME NEW data
  PROVE  LET answer == ChargeAnswer(data)
             explained == /\ data.bill # NoData
                          /\ Keeps(BillChecks(data.bill)) /\ HasRoaming(data.bill)
             matches == /\ data.charge # NoData
                        /\ Keeps(ChargeChecks(data.bill, RoamingItem(data.bill), data.charge))
         IN  \/ /\ answer.status = "grounded" /\ answer.evidence = <<"bill", "charge">>
                /\ answer.says = {"JPY", "the_location", "the_service",
                                  "automatically_activated"} \ lost
                /\ explained /\ matches
             \/ /\ answer.status = "unavailable" /\ answer.evidence = <<"bill", "charge">>
                /\ answer.says = {"human_support"} \ lost
                /\ explained /\ data.charge # NoData /\ ~matches
             \/ /\ answer.status = "unavailable" /\ answer.evidence = <<"bill">>
                /\ answer.says = {"JPY", "unavailable", "human_support"} \ lost
                /\ explained /\ data.charge = NoData
             \/ /\ answer.status = "unavailable" /\ answer.evidence = <<>>
                /\ answer.says \subseteq {"unavailable", "human_support"} \ lost
                /\ ~explained
  BY DEF ChargeAnswer, Grounded, Unavailable

LEMMA AmbiguousFacts ==
  LET answer == Unavailable(<<>>, {"Which_line_item"})
  IN  /\ answer.status = "unavailable" /\ answer.evidence = <<>> /\ answer.text = <<>>
      /\ answer.says = {"Which_line_item"} \ lost
  BY DEF Unavailable

LEMMA PlanFacts ==
  ASSUME NEW data, NEW text
  PROVE  LET answer == PlanAnswer(data, text)
         IN  \/ /\ answer.status = "grounded" /\ answer.evidence = <<"plan">>
                /\ answer.says = {} /\ answer.text = text
                /\ data.plan # NoData /\ Keeps(OutputChecks(text, Facts(data.plan)))
             \/ /\ answer.status = "unavailable" /\ answer.evidence = <<>> /\ answer.text = <<>>
                /\ answer.says = {"unavailable", "human_support"} \ lost
                /\ data.plan = NoData
             \/ /\ answer.status = "unavailable" /\ answer.evidence = <<>> /\ answer.text = <<>>
                /\ answer.says = {"a_grounded_answer", "human_support"} \ lost
                /\ data.plan # NoData /\ ~Keeps(OutputChecks(text, Facts(data.plan)))
  BY DEF PlanAnswer, Grounded, Unavailable

LEMMA DataFacts ==
  ASSUME NEW c
  PROVE  LET data == DataOf(c)
         IN  /\ c.feature = "latest_bill" =>
                  /\ data.plan = NoData /\ data.catalog = NoData /\ data.charge = NoData
                  /\ data.bill = BillOf(c.scenario)
             /\ c.feature = "unexpected_charge" =>
                  /\ data.plan = NoData /\ data.catalog = NoData
                  /\ data.bill = ApprovedBill /\ data.charge = ChargeOf(c.scenario)
             /\ c.feature = "plan_comparison" =>
                  /\ data.bill = NoData /\ data.charge = NoData
                  /\ data.plan = IF c.scenario = "missing_current" THEN NoData ELSE ApprovedPlan
                  /\ data.catalog = CatalogOf(c.scenario)
             /\ c.feature = "current_plan" =>
                  /\ data.bill = NoData /\ data.charge = NoData /\ data.catalog = NoData
                  /\ data.plan = IF c.available THEN ApprovedPlan ELSE NoData
  BY DEF DataOf, Nothing

-----------------------------------------------------------------------------
(* A case that passes was routed to the check that it is about *)

AnswerTo(c, text) == Answer(c.question, DataOf(c), text)
DiesOn(c, text) == Crashes(c.question, DataOf(c), text)
Routed(c) == Route(Heard(c.question)) = Intended(c)

(* Answers of different kinds cite different evidence. *)
LEMMA EvidenceTells ==
  /\ <<"comparison">> # <<"bill">> /\ <<"comparison">> # <<"plan">> /\ <<"bill">> # <<"plan">>
  /\ Len(<<"comparison">>) = 1 /\ Len(<<"bill">>) = 1 /\ Len(<<"plan">>) = 1
  /\ Len(<<"bill", "charge">>) = 2
  /\ Len(<<>>) = 0
  /\ \A a : <<a>> # <<>> /\ <<a>> # <<"bill", "charge">>
  /\ <<"bill", "charge">> # <<>>
  OBVIOUS

(* How many kinds of evidence an answer cites. *)
Cites(answer, n) == Len(answer.evidence) = n

LEMMA Citations ==
  ASSUME NEW data, NEW text
  PROVE  /\ \/ CompareAnswer(data).status = "grounded" /\ Cites(CompareAnswer(data), 1)
            \/ CompareAnswer(data).status = "unavailable" /\ Cites(CompareAnswer(data), 0)
         /\ \/ BillAnswer(data).status = "grounded" /\ Cites(BillAnswer(data), 1)
            \/ BillAnswer(data).status = "unavailable" /\ Cites(BillAnswer(data), 0)
         /\ \/ PlanAnswer(data, text).status = "grounded" /\ Cites(PlanAnswer(data, text), 1)
            \/ PlanAnswer(data, text).status = "unavailable" /\ Cites(PlanAnswer(data, text), 0)
         /\ Cites(Unavailable(<<>>, {"Which_line_item"}), 0)
<1>1. \/ CompareAnswer(data).status = "grounded" /\ CompareAnswer(data).evidence = <<"comparison">>
      \/ CompareAnswer(data).status = "unavailable" /\ CompareAnswer(data).evidence = <<>>
  BY CompareFacts
<1>2. \/ BillAnswer(data).status = "grounded" /\ BillAnswer(data).evidence = <<"bill">>
      \/ BillAnswer(data).status = "unavailable" /\ BillAnswer(data).evidence = <<>>
  BY BillFacts
<1>3. \/ PlanAnswer(data, text).status = "grounded" /\ PlanAnswer(data, text).evidence = <<"plan">>
      \/ PlanAnswer(data, text).status = "unavailable" /\ PlanAnswer(data, text).evidence = <<>>
  BY PlanFacts
<1> QED
  BY <1>1, <1>2, <1>3, AmbiguousFacts, EvidenceTells DEF Cites

LEMMA RouteFacts ==
  ASSUME NEW c, NEW text
  PROVE  LET route == Route(Heard(c.question))
             answer == AnswerTo(c, text)
         IN  /\ route \in Intents
             /\ route = "comparison" => answer = CompareAnswer(DataOf(c))
             /\ route = "ambiguous_charge" => answer = Unavailable(<<>>, {"Which_line_item"})
             /\ route = "unexpected_charge" => answer = ChargeAnswer(DataOf(c))
             /\ route = "latest_bill" => answer = BillAnswer(DataOf(c))
             /\ route = "current_plan" => answer = PlanAnswer(DataOf(c), text)
             /\ route = "unsupported" => answer.status = "unsupported"
<1>1. Route(Heard(c.question)) \in Intents
  BY DEF Route, Intents
<1> QED
  BY <1>1, AnswerByRoute DEF AnswerTo

LEMMA BillRouted ==
  ASSUME NEW i \in DOMAIN MvpCases, MvpCases[i].feature = "latest_bill",
         NEW text, Passes(MvpCases[i], AnswerTo(MvpCases[i], text))
  PROVE  Routed(MvpCases[i])
<1> DEFINE c == MvpCases[i]
           route == Route(Heard(c.question))
           answer == AnswerTo(c, text)
           words == Words(c.question)
<1>1. c \in AllCases /\ Intended(c) = "latest_bill"
  BY DEF AllCases, Range, Intended
<1>2. GradeBill(c, answer)
  BY DEF Passes
<1>3. DataOf(c).plan = NoData /\ DataOf(c).catalog = NoData /\ DataOf(c).charge = NoData
  BY DataFacts
<1>4. CASE c.group = "routine"
  <2>1. answer.status = "grounded" /\ answer.evidence = <<"bill">>
    BY <1>2, <1>4 DEF GradeBill
  <2> HIDE DEF c, answer, route
  <2>2. route = "latest_bill"
    BY <1>3, <2>1, RouteFacts, CompareFacts, AmbiguousFacts, ChargeFacts, PlanFacts, EvidenceTells
       DEF Intents, route, answer
  <2> QED
    BY <1>1, <2>2 DEF route, Routed, c
<1>5. CASE c.group = "safety"
  <2>1. words \cap (PlanWords \cup DiagnosticWords \cup {"this", "charged", "roaming"}) = {}
    BY <1>5, RefusalAssumption
  <2>2. answer.status = "unavailable"
    BY <1>2, <1>5 DEF GradeBill
  <2>3. /\ route \in Intents
        /\ route # "comparison" /\ route # "ambiguous_charge"
        /\ route # "unexpected_charge" /\ route # "current_plan"
    <3> HIDE DEF c
    <3> QED
      BY <1>1, <2>1, CaseRules DEF PlanWords, DiagnosticWords
  <2> HIDE DEF c, answer, route
  <2>4. route = "latest_bill"
    BY <2>2, <2>3, RouteFacts DEF Intents, route, answer
  <2> QED
    BY <1>1, <2>4 DEF route, Routed, c
<1> QED
  BY <1>1, <1>4, <1>5, CasesAssumption

LEMMA ChargeRouted ==
  ASSUME NEW i \in DOMAIN MvpCases, MvpCases[i].feature = "unexpected_charge",
         NEW text, Passes(MvpCases[i], AnswerTo(MvpCases[i], text))
  PROVE  Routed(MvpCases[i])
<1> DEFINE c == MvpCases[i]
           route == Route(Heard(c.question))
           answer == AnswerTo(c, text)
<1>1. c \in AllCases
  BY DEF AllCases, Range
<1>2. GradeCharge(c, answer) /\ c.feature = "unexpected_charge"
  BY DEF Passes
<1>3. DataOf(c).plan = NoData /\ DataOf(c).catalog = NoData
  BY DataFacts
<1>4. c.group \in {"routine", "safety"}
  BY <1>1, CasesAssumption
<1>5. c.scenario = "ambiguous" => c.group = "safety"
  BY <1>2, <1>4, CasesAssumption DEF Range, Asks
<1> HIDE DEF c, answer, route
<1>6. CASE c.group = "safety" /\ c.scenario = "ambiguous"
  <2>1. answer.status = "unavailable" /\ answer.evidence = <<>>
        /\ "Which_line_item" \in answer.says
    BY <1>2, <1>6 DEF GradeCharge
  <2>2. route # "comparison" /\ route # "latest_bill"
    BY <2>1, RouteFacts, CompareFacts, BillFacts DEF route, answer
  <2>3. route # "unexpected_charge"
    BY <2>1, RouteFacts, ChargeFacts, EvidenceTells DEF route, answer
  <2>4. route # "current_plan" /\ route # "unsupported" /\ route \in Intents
    BY <2>1, RouteFacts, PlanFacts DEF route, answer
  <2> QED
    BY <1>2, <1>6, <2>2, <2>3, <2>4 DEF route, Routed, c, Intended, Intents
<1>7. CASE ~(c.group = "safety" /\ c.scenario = "ambiguous")
  <2>1. \/ answer.status = "grounded" /\ Cites(answer, 2)
        \/ answer.status = "unavailable" /\ (Cites(answer, 1) \/ Cites(answer, 2))
    BY <1>2, <1>4, <1>7, EvidenceTells DEF GradeCharge, Cites
  <2>2. ~Cites(answer, 0) /\ (Cites(answer, 1) => answer.status # "grounded")
    BY <2>1 DEF Cites
  <2>3. route # "comparison" /\ route # "latest_bill" /\ route # "current_plan"
    BY <2>1, <2>2, RouteFacts, Citations DEF route, answer
  <2>4. route # "unsupported" /\ route # "ambiguous_charge" /\ route \in Intents
    BY <2>1, <2>2, RouteFacts, Citations DEF route, answer
  <2> QED
    BY <1>2, <1>5, <1>7, <2>3, <2>4 DEF route, Routed, c, Intended, Intents
<1> QED
  BY <1>6, <1>7
(* Without "compare" a question for a comparison may be taken for one      *)
(* about the current plan; the generator then ends the run, unless there   *)
(* is no plan.                                                             *)
LEMMA ComparisonRouted ==
  ASSUME NEW i \in DOMAIN MvpCases, MvpCases[i].feature = "plan_comparison",
         ~DiesOn(MvpCases[i], NoData),
         Passes(MvpCases[i], AnswerTo(MvpCases[i], NoData))
  PROVE  \/ Routed(MvpCases[i])
         \/ /\ MvpCases[i].group = "safety" /\ MvpCases[i].scenario = "missing_current"
            /\ Route(Heard(MvpCases[i].question)) = "current_plan"
<1> DEFINE c == MvpCases[i]
           route == Route(Heard(c.question))
           answer == AnswerTo(c, NoData)
           words == Words(c.question)
<1>1. c \in AllCases
  BY DEF AllCases, Range
<1>2. GradeComparison(c, answer) /\ c.feature = "plan_comparison" /\ Intended(c) = "comparison"
  BY DEF Passes, Intended
<1>3. /\ DataOf(c).bill = NoData
      /\ DataOf(c).plan = IF c.scenario = "missing_current" THEN NoData ELSE ApprovedPlan
  BY DataFacts
<1>4. c.group \in {"routine", "safety"}
  BY <1>1, CasesAssumption
<1>5. c.scenario = "missing_current" => c.group = "safety"
  BY <1>2, <1>4, CasesAssumption DEF Range, Asks
<1>6. c.group = "safety" => words \cap BillWords = {}
  BY RefusalAssumption
<1>7. route = "current_plan" => c.scenario = "missing_current"
  BY <1>3, NoDataAssumption DEF DiesOn, Crashes
<1>8. route \in Intents
  BY RouteFacts
<1>9. c.group = "safety" => route # "unexpected_charge" /\ route # "latest_bill"
  <2> HIDE DEF c
  <2> QED
    BY <1>1, <1>6, CaseRules DEF BillWords
<1> HIDE DEF c, answer, route
<1>10. CASE c.group = "routine" \/ c.scenario = "eligibility_disclosure"
  <2>1. answer.status = "grounded" /\ answer.evidence = <<"comparison">>
    BY <1>2, <1>10 DEF GradeComparison
  <2>2. route # "latest_bill" /\ route # "unexpected_charge"
    BY <1>3, <2>1, RouteFacts, BillFacts, ChargeFacts DEF route, answer
  <2>3. route # "ambiguous_charge" /\ route # "unsupported"
    BY <2>1, RouteFacts, AmbiguousFacts DEF route, answer
  <2>4. route # "current_plan"
    BY <2>1, RouteFacts, PlanFacts, EvidenceTells DEF route, answer
  <2> QED
    BY <1>2, <1>8, <2>2, <2>3, <2>4 DEF route, Routed, c, Intents
<1>11. CASE ~(c.group = "routine" \/ c.scenario = "eligibility_disclosure")
  <2>1. answer.status = "unavailable" /\ "human_support" \in answer.says
    BY <1>2, <1>11 DEF GradeComparison
  <2>2. route # "ambiguous_charge" /\ route # "unsupported"
    BY <2>1, RouteFacts, AmbiguousFacts DEF route, answer
  <2>3. c.group = "safety"
    BY <1>4, <1>11
  <2> QED
    BY <1>2, <1>7, <1>8, <1>9, <2>2, <2>3 DEF route, Routed, c, Intents
<1> QED
  BY <1>10, <1>11

LEMMA PlanRouted ==
  ASSUME NEW i \in DOMAIN PlanCases,
         NEW text, Passes(PlanCases[i], AnswerTo(PlanCases[i], text))
  PROVE  Routed(PlanCases[i])
<1> DEFINE c == PlanCases[i]
           route == Route(Heard(c.question))
           answer == AnswerTo(c, text)
           words == Words(c.question)
<1>1. c \in AllCases /\ c \in Range(PlanCases)
  BY DEF AllCases, Range
<1>2. /\ c.feature = "current_plan" /\ c.expected \in {"grounded", "unavailable", "unsupported"}
      /\ c.safe => c.expected = "grounded"
  BY <1>1, CasesAssumption
<1>3. GradePlan(c, answer)
  BY <1>2 DEF Passes
<1>4. DataOf(c).bill = NoData /\ DataOf(c).catalog = NoData
  BY <1>2, DataFacts
<1>5. c.expected = "unavailable" =>
        \/ "a_grounded_answer" \in c.terms
        \/ "unavailable" \in c.terms /\ words \cap BillWords = {}
  BY RefusalAssumption
<1>6. words \cap BillWords = {} => route # "unexpected_charge" /\ route # "latest_bill"
  <2> HIDE DEF c
  <2> QED
    BY <1>1, CaseRules DEF BillWords
<1>7. Intended(c) = IF c.expected = "unsupported" THEN "unsupported" ELSE "current_plan"
  BY <1>2 DEF Intended
<1>8. route \in Intents
  BY RouteFacts
<1> HIDE DEF c, answer, route
<1>9. ASSUME "a_grounded_answer" \in answer.says, answer.status # "unsupported"
      PROVE  route = "current_plan"
  <2>1. route # "comparison" /\ route # "ambiguous_charge" /\ route # "unsupported"
    BY <1>9, RouteFacts, CompareFacts, AmbiguousFacts DEF route, answer
  <2>2. route # "latest_bill"
    BY <1>9, RouteFacts, BillFacts DEF route, answer
  <2>3. route # "unexpected_charge"
    BY <1>9, RouteFacts, ChargeFacts DEF route, answer
  <2> QED
    BY <1>8, <2>1, <2>2, <2>3 DEF Intents
<1>10. CASE answer.status = "grounded" /\ c.expected = "grounded"
  <2>1. route # "comparison" /\ route # "latest_bill" /\ route # "unexpected_charge"
    BY <1>4, <1>10, RouteFacts, CompareFacts, BillFacts, ChargeFacts DEF route, answer
  <2>2. route # "ambiguous_charge" /\ route # "unsupported"
    BY <1>10, RouteFacts, AmbiguousFacts DEF route, answer
  <2> QED
    BY <1>7, <1>8, <1>10, <2>1, <2>2 DEF route, Routed, c, Intents
<1>11. CASE c.safe /\ answer.status = "unavailable"
  <2>1. "a_grounded_answer" \in answer.says
    BY <1>3, <1>11 DEF GradePlan
  <2> QED
    BY <1>2, <1>7, <1>9, <1>11, <2>1 DEF route, Routed, c
<1>12. CASE c.expected = "unavailable"
  <2>1. answer.status = "unavailable" /\ c.terms \subseteq answer.says
    BY <1>2, <1>3, <1>12 DEF GradePlan
  <2>2. CASE "a_grounded_answer" \in c.terms
    BY <1>7, <1>9, <1>12, <2>1, <2>2 DEF route, Routed, c
  <2>3. CASE "unavailable" \in c.terms /\ words \cap BillWords = {}
    <3>1. route # "comparison" /\ route # "ambiguous_charge" /\ route # "unsupported"
      BY <2>1, <2>3, RouteFacts, CompareFacts, AmbiguousFacts DEF route, answer
    <3> QED
      BY <1>6, <1>7, <1>8, <1>12, <2>3, <3>1 DEF route, Routed, c, Intents
  <2> QED
    BY <1>5, <1>12, <2>2, <2>3
<1>13. CASE c.expected = "unsupported"
  <2>1. answer.status = "unsupported"
    BY <1>2, <1>3, <1>13 DEF GradePlan
  <2>2. route # "comparison" /\ route # "latest_bill" /\ route # "unexpected_charge"
    BY <2>1, RouteFacts, CompareFacts, BillFacts, ChargeFacts DEF route, answer
  <2>3. route # "ambiguous_charge" /\ route # "current_plan"
    BY <2>1, RouteFacts, AmbiguousFacts, PlanFacts DEF route, answer
  <2> QED
    BY <1>7, <1>8, <1>13, <2>2, <2>3 DEF route, Routed, c, Intents
<1>14. c.expected = "grounded" => \/ answer.status = "grounded"
                                  \/ c.safe /\ answer.status = "unavailable"
  BY <1>3 DEF GradePlan
<1> QED
  BY <1>2, <1>10, <1>11, <1>12, <1>13, <1>14
-----------------------------------------------------------------------------
(* What a run has found out *)

Passable(i) ==
  \E text \in TextsOf(Cases[i]) :
    ~DiesOn(Cases[i], text) /\ Passes(Cases[i], AnswerTo(Cases[i], text))

Failable(i) ==
  \E text \in TextsOf(Cases[i]) :
    ~DiesOn(Cases[i], text) /\ ~Passes(Cases[i], AnswerTo(Cases[i], text))

Deadly == \E i \in DOMAIN Cases : \E text \in TextsOf(Cases[i]) : DiesOn(Cases[i], text)

Count == Len(Cases)

GradedInv ==
  /\ suite \in {"mvp", "current_plan"}
  /\ lost \in Losses
  /\ exit \in {"running", "0", "1", "2"}
  /\ next \in 1 .. Count + 1
  /\ passed \subseteq 1 .. next - 1
  /\ \A i \in passed : Passable(i)
  /\ \A i \in (1 .. next - 1) \ passed : Failable(i)
  /\ exit = "0" => next = Count + 1 /\ ReleaseAllowed
  /\ exit = "1" => Deadly \/ (next = Count + 1 /\ ~ReleaseAllowed)

LEMMA CasesAreSequences ==
  ASSUME suite \in {"mvp", "current_plan"}
  PROVE  /\ Cases \in Seq(AllCases) /\ DOMAIN Cases = 1 .. Count /\ Count \in Nat
         /\ \A i \in DOMAIN Cases : Cases[i] \in AllCases
  BY CasesAssumption DEF Cases, Count

(* All that a verdict depends on are the build, the suite and the mode. *)
LEMMA VerdictFrame ==
  ASSUME UNCHANGED <<suite, mode, lost>>
  PROVE  /\ Cases' = Cases
         /\ \A c : TextsOf(c)' = TextsOf(c)
         /\ \A c, text : DiesOn(c, text)' <=> DiesOn(c, text)
         /\ \A c, text : Passes(c, AnswerTo(c, text))' <=> Passes(c, AnswerTo(c, text))
<1>1. Cases' = Cases /\ \A c : TextsOf(c)' = TextsOf(c)
  BY DEF Cases, TextsOf
<1>2. \A question : Heard(question)' = Heard(question)
  BY DEF Heard
<1>3. \A c, text : DiesOn(c, text)' <=> DiesOn(c, text)
  BY <1>2 DEF DiesOn, Crashes
<1>4. \A evidence, phrases : /\ Grounded(evidence, phrases)' = Grounded(evidence, phrases)
                             /\ Unavailable(evidence, phrases)' = Unavailable(evidence, phrases)
  BY DEF Grounded, Unavailable
<1>5. \A checks : Keeps(checks)' <=> Keeps(checks)
  BY DEF Keeps
<1>6. \A data : /\ CompareAnswer(data)' = CompareAnswer(data)
                /\ BillAnswer(data)' = BillAnswer(data)
                /\ ChargeAnswer(data)' = ChargeAnswer(data)
  BY <1>4, <1>5 DEF CompareAnswer, BillAnswer, ChargeAnswer
<1>7. \A data, text : PlanAnswer(data, text)' = PlanAnswer(data, text)
  BY <1>4, <1>5 DEF PlanAnswer
<1>8. \A c, text : AnswerTo(c, text)' = AnswerTo(c, text)
  BY <1>2, <1>4, <1>6, <1>7 DEF AnswerTo, Answer
<1>9. \A c : /\ GradeHistory(c)' <=> GradeHistory(c)
             /\ GradeEscalation(c)' <=> GradeEscalation(c)
  BY DEF GradeHistory, GradeEscalation
<1>10. \A c, text : Passes(c, AnswerTo(c, text))' <=> Passes(c, AnswerTo(c, text))
  BY <1>8, <1>9 DEF Passes
<1> QED
  BY <1>1, <1>3, <1>10

LEMMA InitGraded == Init => GradedInv
<1> SUFFICES ASSUME Init PROVE GradedInv
  OBVIOUS
<1>1. /\ suite \in {"mvp", "current_plan"} /\ lost \in Losses
      /\ next = 1 /\ passed = {} /\ exit = "running"
  BY DEF Init
<1>2. Count \in Nat
  BY <1>1, CasesAreSequences
<1>3. next \in 1 .. Count + 1 /\ 1 .. next - 1 = {}
  BY <1>1, <1>2
<1> QED
  BY <1>1, <1>3 DEF GradedInv

LEMMA StepFrame ==
  ASSUME UNCHANGED <<suite, mode, lost>>
  PROVE  /\ Count' = Count
         /\ \A i : Passable(i)' <=> Passable(i)
         /\ \A i : Failable(i)' <=> Failable(i)
         /\ Deadly' <=> Deadly
         /\ passed' = passed => (ReleaseAllowed' <=> ReleaseAllowed)
<1>1. Cases' = Cases
  BY VerdictFrame
<1>2. Count' = Count
  BY <1>1 DEF Count
<1>3. \A i : Passable(i)' <=> Passable(i)
  BY <1>1, VerdictFrame DEF Passable
<1>4. \A i : Failable(i)' <=> Failable(i)
  BY <1>1, VerdictFrame DEF Failable
<1>5. Deadly' <=> Deadly
  BY <1>1, VerdictFrame DEF Deadly
<1>6. passed' = passed => (ReleaseAllowed' <=> ReleaseAllowed)
  BY <1>1 DEF ReleaseAllowed, Features, Routine, Safety, Reaches80
<1> QED
  BY <1>2, <1>3, <1>4, <1>5, <1>6

LEMMA GradedStep == GradedInv /\ [Next]_vars => GradedInv'
<1> SUFFICES ASSUME GradedInv, [Next]_vars PROVE GradedInv'
  OBVIOUS
<1>1. Count \in Nat /\ DOMAIN Cases = 1 .. Count
  BY CasesAreSequences DEF GradedInv
<1>2. UNCHANGED <<suite, mode, lost>>
  BY DEF Next, vars, Refuse, Grade, Report
<1>3. /\ Count' = Count
      /\ \A i : Passable(i)' <=> Passable(i)
      /\ \A i : Failable(i)' <=> Failable(i)
      /\ Deadly' <=> Deadly
      /\ passed' = passed => (ReleaseAllowed' <=> ReleaseAllowed)
  BY <1>2, StepFrame
<1>4. CASE UNCHANGED vars
  BY <1>2, <1>3, <1>4 DEF GradedInv, vars
<1>5. CASE Refuse
  BY <1>2, <1>3, <1>5 DEF GradedInv, Refuse
<1>6. CASE Report
  <2>1. next = Count + 1
    BY <1>1, <1>6 DEF Report, GradedInv
  <2> QED
    BY <1>2, <1>3, <1>6, <2>1 DEF GradedInv, Report
<1>7. CASE Grade
  <2> DEFINE c == Cases[next]
  <2>1. next \in DOMAIN Cases /\ exit = "running"
    BY <1>7 DEF Grade
  <2>2. PICK text \in TextsOf(c) :
          IF DiesOn(c, text)
          THEN exit' = "1" /\ UNCHANGED <<next, passed>>
          ELSE /\ passed' = IF Passes(c, AnswerTo(c, text)) THEN passed \cup {next} ELSE passed
               /\ next' = next + 1
               /\ UNCHANGED exit
    BY <1>7 DEF Grade, DiesOn, AnswerTo
  <2>3. CASE DiesOn(c, text)
    <3>1. Deadly
      BY <2>1, <2>3 DEF Deadly
    <3>2. exit' = "1" /\ UNCHANGED <<next, passed>>
      BY <2>2, <2>3
    <3>3. /\ suite' \in {"mvp", "current_plan"} /\ lost' \in Losses
          /\ next' \in 1 .. Count' + 1 /\ passed' \subseteq 1 .. next' - 1
          /\ \A i \in passed' : Passable(i)'
          /\ \A i \in (1 .. next' - 1) \ passed' : Failable(i)'
      BY <1>2, <1>3, <3>2 DEF GradedInv
    <3>4. /\ exit' \in {"running", "0", "1", "2"}
          /\ exit' = "0" => next' = Count' + 1 /\ ReleaseAllowed'
          /\ exit' = "1" => Deadly' \/ (next' = Count' + 1 /\ ~ReleaseAllowed')
      BY <1>3, <3>1, <3>2
    <3> QED
      BY <3>3, <3>4 DEF GradedInv
  <2>4. CASE ~DiesOn(c, text)
    <3>1. /\ next \in 1 .. Count /\ next \notin passed /\ next' = next + 1 /\ exit' = "running"
          /\ passed \subseteq 1 .. next - 1
          /\ passed' \in {passed, passed \cup {next}}
      BY <1>1, <2>1, <2>2, <2>4 DEF GradedInv
    <3>2. /\ suite' \in {"mvp", "current_plan"} /\ lost' \in Losses
          /\ next' \in 1 .. Count' + 1
      BY <1>1, <1>2, <1>3, <3>1 DEF GradedInv
    <3>3. passed' \subseteq 1 .. next' - 1
      BY <1>1, <3>1
    <3>4. \A i \in passed' : Passable(i)'
      <4>1. next \in passed' => Passable(next)
        BY <2>2, <2>4, <3>1 DEF Passable
      <4> QED
        BY <1>3, <3>1, <4>1 DEF GradedInv
    <3>5. \A i \in (1 .. next' - 1) \ passed' : Failable(i)'
      <4>1. next \notin passed' => Failable(next)
        BY <2>2, <2>4, <3>1 DEF Failable
      <4>2. \A i \in 1 .. next' - 1 : i = next \/ i \in 1 .. next - 1
        BY <1>1, <3>1
      <4> QED
        BY <1>3, <3>1, <4>1, <4>2 DEF GradedInv
    <3> QED
      BY <3>1, <3>2, <3>3, <3>4, <3>5 DEF GradedInv
  <2> QED
    BY <2>3, <2>4
<1> QED
  BY <1>4, <1>5, <1>6, <1>7 DEF Next

LEMMA Invariance == Spec => []GradedInv
  BY InitGraded, GradedStep, PTL DEF Spec

-----------------------------------------------------------------------------
(* What a released build still routes *)

LEMMA PassedAreRouted ==
  ASSUME GradedInv, exit = "0", NEW i \in passed
  PROVE  Route(Heard(Cases[i].question)) = Route(Cases[i].question)
<1> DEFINE c == Cases[i]
<1>1. /\ suite \in {"mvp", "current_plan"} /\ i \in DOMAIN Cases /\ c \in AllCases
      /\ \A j \in DOMAIN Cases : Passable(j) \/ Failable(j)
      /\ Passable(i)
  BY CasesAreSequences DEF GradedInv
<1>2. PICK text \in TextsOf(c) : ~DiesOn(c, text) /\ Passes(c, AnswerTo(c, text))
  BY <1>1 DEF Passable
<1>3. CASE ~Asks(c)
  <2>1. c.question = <<>>
    BY <1>1, <1>3, QuestionAssumption
  <2>2. Heard(<<>>) = <<>>
    BY DEF Heard
  <2> QED
    BY <2>1, <2>2
<1>4. ASSUME Asks(c), Routed(c) PROVE Route(Heard(c.question)) = Route(c.question)
  BY <1>1, <1>4, QuestionAssumption DEF Routed
<1>5. CASE suite = "mvp"
  <2>1. Cases = MvpCases
    BY <1>5 DEF Cases
  <2>2. c.feature \in {"latest_bill", "unexpected_charge", "conversation_history",
                       "escalation", "plan_comparison"}
    BY <1>1, <2>1, CasesAssumption DEF Range
  <2>3. CASE c.feature = "latest_bill"
    BY <1>1, <1>2, <1>4, <2>1, <2>3, BillRouted DEF Asks
  <2>4. CASE c.feature = "unexpected_charge"
    BY <1>1, <1>2, <1>4, <2>1, <2>4, ChargeRouted DEF Asks
  <2>5. CASE c.feature = "plan_comparison"
    <3>1. text = NoData
      BY <1>2, <2>5 DEF TextsOf
    <3>2. \/ Routed(c)
          \/ /\ c.group = "safety" /\ c.scenario = "missing_current"
             /\ Route(Heard(c.question)) = "current_plan"
      BY <1>1, <1>2, <2>1, <2>5, <3>1, ComparisonRouted
    <3>3. ASSUME c.group = "safety", c.scenario = "missing_current",
                 Route(Heard(c.question)) = "current_plan"
          PROVE  FALSE
      <4>1. PICK j \in DOMAIN Cases : /\ Cases[j].feature = "plan_comparison"
                                      /\ Cases[j].scenario # "missing_current"
                                      /\ Cases[j].question = c.question
        BY <1>1, <2>1, <2>5, <3>3, RefusalAssumption
      <4>2. DataOf(Cases[j]).plan = ApprovedPlan /\ TextsOf(Cases[j]) = {NoData}
        BY <4>1, DataFacts DEF TextsOf
      <4>3. \A t \in TextsOf(Cases[j]) : DiesOn(Cases[j], t)
        BY <3>3, <4>1, <4>2, NoDataAssumption DEF DiesOn, Crashes
      <4> QED
        BY <1>1, <4>3 DEF Passable, Failable
    <3> QED
      BY <1>4, <2>5, <3>2, <3>3 DEF Asks
  <2> QED
    BY <1>3, <2>2, <2>3, <2>4, <2>5 DEF Asks
<1>6. CASE suite = "current_plan"
  <2>1. Cases = PlanCases
    BY <1>6 DEF Cases
  <2>2. Asks(c)
    BY <1>1, <2>1, CasesAssumption DEF Range, Asks
  <2> QED
    BY <1>1, <1>2, <1>4, <2>1, <2>2, PlanRouted
<1> QED
  BY <1>1, <1>5, <1>6

(* At most one in five fails if four in five pass. *)
LEMMA FifthLeft ==
  ASSUME NEW all, IsFiniteSet(all), Reaches80(all), NEW bad \in SUBSET all, bad \cap passed = {}
  PROVE  5 * Cardinality(bad) <= Cardinality(all)
<1>1. IsFiniteSet(all \ passed) /\ IsFiniteSet(all \cap passed)
  BY FS_Difference, FS_Intersection
<1>2. /\ Cardinality(all \ passed) = Cardinality(all) - Cardinality(all \cap passed)
      /\ Cardinality(all) \in Nat /\ Cardinality(all \cap passed) \in Nat
      /\ Cardinality(all \ passed) \in Nat
  BY <1>1, FS_Difference, FS_CardinalityType
<1>3. Cardinality(bad) <= Cardinality(all \ passed) /\ Cardinality(bad) \in Nat
  <2>1. bad \subseteq all \ passed
    OBVIOUS
  <2> QED
    BY <1>1, <2>1, FS_Subset, FS_CardinalityType
<1> QED
  BY <1>2, <1>3 DEF Reaches80

(* A build that has lost any parts at all and is released routes all       *)
(* safety questions as before, and four in five of each feature's routine  *)
(* questions.                                                              *)
THEOREM ReleaseKeepsRoutes == Spec => []ReleasedBuildsRoute
<1>1. GradedInv => ReleasedBuildsRoute
  <2> DEFINE misrouted == {i \in DOMAIN Cases :
                             Route(Heard(Cases[i].question)) # Route(Cases[i].question)}
  <2> SUFFICES ASSUME GradedInv, exit = "0"
               PROVE  /\ misrouted \cap Safety = {}
                      /\ \A feature \in Features :
                           5 * Cardinality(misrouted \cap Routine(feature))
                             <= Cardinality(Routine(feature))
    BY DEF ReleasedBuildsRoute
  <2>1. misrouted \cap passed = {}
    BY PassedAreRouted
  <2>2. ReleaseAllowed
    BY DEF GradedInv
  <2>3. misrouted \cap Safety = {}
    BY <2>1, <2>2 DEF ReleaseAllowed
  <2>4. ASSUME NEW feature \in Features
        PROVE  5 * Cardinality(misrouted \cap Routine(feature)) <= Cardinality(Routine(feature))
    <3>1. IsFiniteSet(Routine(feature))
      <4>1. Count \in Nat /\ DOMAIN Cases = 1 .. Count
        BY CasesAreSequences DEF GradedInv
      <4>2. Routine(feature) \subseteq 1 .. Count
        BY <4>1 DEF Routine
      <4>3. IsFiniteSet(1 .. Count)
        BY <4>1, FS_Interval
      <4> QED
        BY <4>2, <4>3, FS_Subset
    <3>2. Reaches80(Routine(feature))
      BY <2>2 DEF ReleaseAllowed
    <3> HIDE DEF misrouted
    <3>3. (misrouted \cap Routine(feature)) \cap passed = {}
      BY <2>1
    <3> QED
      BY <3>1, <3>2, <3>3, FifthLeft
  <2> QED
    BY <2>3, <2>4
<1> QED
  BY <1>1, Invariance, PTL
-----------------------------------------------------------------------------
(* The conditions that a build still checks, one by one *)

(* What is left of the conditions on a bill, a charge, a comparison and a  *)
(* generated text.                                                         *)
LEMMA KeptBill ==
  ASSUME NEW bill
  PROVE  Keeps(BillChecks(bill)) <=>
           /\ "bill_period" \in lost \/ (bill.start <= bill.end)
           /\ "total" \in lost \/ (bill.total >= 0)
           /\ "bill_currency" \in lost \/ (bill.currency \in Currencies)
           /\ "bill_version" \in lost \/ (bill.version # Blank)
           /\ "items" \in lost \/ (bill.items # <<>>)
           /\ "amounts" \in lost \/ (\A i \in DOMAIN bill.items : bill.items[i].amount >= 0)
           /\ "item_texts" \in lost \/ (\A i \in DOMAIN bill.items :
                                          /\ bill.items[i].code # Blank
                                          /\ bill.items[i].description # Blank)
           /\ "sum" \in lost \/ (ItemTotal(bill.items) = bill.total)
<1> DEFINE checks == BillChecks(bill)
           names == {"bill_period", "total", "bill_currency", "bill_version", "items",
                    "amounts", "item_texts", "sum"}
<1>1. DOMAIN checks = names
  BY DEF BillChecks
<1>2. checks["bill_period"] = (bill.start <= bill.end)
  BY DEF BillChecks
<1>3. checks["total"] = (bill.total >= 0)
  BY DEF BillChecks
<1>4. checks["bill_currency"] = (bill.currency \in Currencies)
  BY DEF BillChecks
<1>5. checks["bill_version"] = (bill.version # Blank)
  BY DEF BillChecks
<1>6. checks["items"] = (bill.items # <<>>)
  BY DEF BillChecks
<1>7. checks["amounts"] = (\A i \in DOMAIN bill.items : bill.items[i].amount >= 0)
  BY DEF BillChecks
<1>8. checks["item_texts"] = (\A i \in DOMAIN bill.items :
                                /\ bill.items[i].code # Blank
                                /\ bill.items[i].description # Blank)
  BY DEF BillChecks
<1>9. checks["sum"] = (ItemTotal(bill.items) = bill.total)
  BY DEF BillChecks
<1> HIDE DEF checks
<1>10. Keeps(checks) <=> \A name \in names : name \in lost \/ checks[name]
  BY <1>1 DEF Keeps
<1>11. Keeps(checks) <=>
        /\ "bill_period" \in lost \/ checks["bill_period"]
        /\ "total" \in lost \/ checks["total"]
        /\ "bill_currency" \in lost \/ checks["bill_currency"]
        /\ "bill_version" \in lost \/ checks["bill_version"]
        /\ "items" \in lost \/ checks["items"]
        /\ "amounts" \in lost \/ checks["amounts"]
        /\ "item_texts" \in lost \/ checks["item_texts"]
        /\ "sum" \in lost \/ checks["sum"]
  BY <1>10
<1> QED
  BY <1>2, <1>3, <1>4, <1>5, <1>6, <1>7, <1>8, <1>9, <1>11 DEF checks

LEMMA KeptCharge ==
  ASSUME NEW bill, NEW item, NEW details
  PROVE  Keeps(ChargeChecks(bill, item, details)) <=>
           /\ "state" \in lost \/ (details.state = "confirmed")
           /\ "same_item" \in lost \/ (/\ details.code = item.code
                                       /\ details.description = item.description)
           /\ "same_amount" \in lost \/ (details.amount = item.amount)
           /\ "same_currency" \in lost \/ (details.currency = bill.currency)
           /\ "in_period" \in lost \/ (/\ bill.start <= details.occurred
                                       /\ details.occurred <= bill.end)
           /\ "charge_texts" \in lost \/ (/\ details.location # Blank
                                          /\ details.service # Blank
                                          /\ details.trigger # Blank
                                          /\ details.version # Blank)
<1> DEFINE checks == ChargeChecks(bill, item, details)
           names == {"state", "same_item", "same_amount", "same_currency", "in_period",
                    "charge_texts"}
<1>1. DOMAIN checks = names
  BY DEF ChargeChecks
<1>2. checks["state"] = (details.state = "confirmed")
  BY DEF ChargeChecks
<1>3. checks["same_item"] = (details.code = item.code /\ details.description = item.description)
  BY DEF ChargeChecks
<1>4. checks["same_amount"] = (details.amount = item.amount)
  BY DEF ChargeChecks
<1>5. checks["same_currency"] = (details.currency = bill.currency)
  BY DEF ChargeChecks
<1>6. checks["in_period"] = (bill.start <= details.occurred /\ details.occurred <= bill.end)
  BY DEF ChargeChecks
<1>7. checks["charge_texts"] = (/\ details.location # Blank
                                /\ details.service # Blank
                                /\ details.trigger # Blank
                                /\ details.version # Blank)
  BY DEF ChargeChecks
<1> HIDE DEF checks
<1>8. Keeps(checks) <=> \A name \in names : name \in lost \/ checks[name]
  BY <1>1 DEF Keeps
<1>9. Keeps(checks) <=>
        /\ "state" \in lost \/ checks["state"]
        /\ "same_item" \in lost \/ checks["same_item"]
        /\ "same_amount" \in lost \/ checks["same_amount"]
        /\ "same_currency" \in lost \/ checks["same_currency"]
        /\ "in_period" \in lost \/ checks["in_period"]
        /\ "charge_texts" \in lost \/ checks["charge_texts"]
  BY <1>8
<1> QED
  BY <1>2, <1>3, <1>4, <1>5, <1>6, <1>7, <1>9 DEF checks

LEMMA KeptComparison ==
  ASSUME NEW plan, NEW catalog, NEW day
  PROVE  Keeps(ComparisonChecks(plan, catalog, day)) <=>
           /\ "usable_plan" \in lost \/ (IsUsablePlan(plan, day))
           /\ "catalog_version" \in lost \/ (catalog.version # Blank)
           /\ "offer_count" \in lost \/ (Len(catalog.offers) = OfferCount)
           /\ "freshness" \in lost \/ (IsFresh(catalog, day))
           /\ "codes" \in lost \/ (IsInjective(Codes(catalog.offers)))
           /\ "names" \in lost \/ (IsInjective(Names(catalog.offers)))
           /\ "other_plans" \in lost \/ (\A i \in DOMAIN catalog.offers :
                                           catalog.offers[i].code # plan.code)
           /\ "offers" \in lost \/ (\A i \in DOMAIN catalog.offers :
                                      IsUsableOffer(catalog.offers[i], plan, day))
<1> DEFINE checks == ComparisonChecks(plan, catalog, day)
           names == {"usable_plan", "catalog_version", "offer_count", "freshness",
                    "codes", "names", "other_plans", "offers"}
<1>1. DOMAIN checks = names
  BY DEF ComparisonChecks
<1>2. checks["usable_plan"] = (IsUsablePlan(plan, day))
  BY DEF ComparisonChecks
<1>3. checks["catalog_version"] = (catalog.version # Blank)
  BY DEF ComparisonChecks
<1>4. checks["offer_count"] = (Len(catalog.offers) = OfferCount)
  BY DEF ComparisonChecks
<1>5. checks["freshness"] = (IsFresh(catalog, day))
  BY DEF ComparisonChecks
<1>6. checks["codes"] = (IsInjective(Codes(catalog.offers)))
  BY DEF ComparisonChecks
<1>7. checks["names"] = (IsInjective(Names(catalog.offers)))
  BY DEF ComparisonChecks
<1>8. checks["other_plans"] = (\A i \in DOMAIN catalog.offers :
                                 catalog.offers[i].code # plan.code)
  BY DEF ComparisonChecks
<1>9. checks["offers"] = (\A i \in DOMAIN catalog.offers :
                            IsUsableOffer(catalog.offers[i], plan, day))
  BY DEF ComparisonChecks
<1> HIDE DEF checks
<1>10. Keeps(checks) <=> \A name \in names : name \in lost \/ checks[name]
  BY <1>1 DEF Keeps
<1>11. Keeps(checks) <=>
        /\ "usable_plan" \in lost \/ checks["usable_plan"]
        /\ "catalog_version" \in lost \/ checks["catalog_version"]
        /\ "offer_count" \in lost \/ checks["offer_count"]
        /\ "freshness" \in lost \/ checks["freshness"]
        /\ "codes" \in lost \/ checks["codes"]
        /\ "names" \in lost \/ checks["names"]
        /\ "other_plans" \in lost \/ checks["other_plans"]
        /\ "offers" \in lost \/ checks["offers"]
  BY <1>10
<1> QED
  BY <1>2, <1>3, <1>4, <1>5, <1>6, <1>7, <1>8, <1>9, <1>11 DEF checks

LEMMA KeptOutput ==
  ASSUME NEW text, NEW values
  PROVE  Keeps(OutputChecks(text, values)) <=>
           /\ "length" \in lost \/ (text # <<>> /\ Len(text) <= MaxText)
           /\ "values" \in lost \/ (StatesAll(text, values))
           /\ "numbers" \in lost \/ (\A n \in NumbersIn(text) :
                                       Occurrences(text, n) <= Allowed(values, n))
<1> DEFINE checks == OutputChecks(text, values)
           names == {"length", "values", "numbers"}
<1>1. DOMAIN checks = names
  BY DEF OutputChecks
<1>2. checks["length"] = (text # <<>> /\ Len(text) <= MaxText)
  BY DEF OutputChecks
<1>3. checks["values"] = (StatesAll(text, values))
  BY DEF OutputChecks
<1>4. checks["numbers"] = (\A n \in NumbersIn(text) : Occurrences(text, n) <= Allowed(values, n))
  BY DEF OutputChecks
<1> HIDE DEF checks
<1>5. Keeps(checks) <=> \A name \in names : name \in lost \/ checks[name]
  BY <1>1 DEF Keeps
<1>6. Keeps(checks) <=>
        /\ "length" \in lost \/ checks["length"]
        /\ "values" \in lost \/ checks["values"]
        /\ "numbers" \in lost \/ checks["numbers"]
  BY <1>5
<1> QED
  BY <1>2, <1>3, <1>4, <1>6 DEF checks

-----------------------------------------------------------------------------
(* The synthetic bill *)

(* The running sum of up to four numbers. *)
LEMMA RunningSumExists ==
  ASSUME NEW n \in 0 .. 4, NEW v, \A i \in 1 .. n : v[i] \in Int
  PROVE  \E f : f = [i \in 0 .. n |-> IF i = 0 THEN 0 ELSE f[i - 1] + v[i]]
<1> DEFINE h == [i \in 0 .. n |-> CASE i = 0 -> 0
                                    [] i = 1 -> v[1]
                                    [] i = 2 -> v[1] + v[2]
                                    [] i = 3 -> v[1] + v[2] + v[3]
                                    [] i = 4 -> v[1] + v[2] + v[3] + v[4]]
<1>1. h = [i \in 0 .. n |-> IF i = 0 THEN 0 ELSE h[i - 1] + v[i]]
  OBVIOUS
<1> QED
  BY <1>1

(* The running sum of no numbers and of four.                              *)
LEMMA RunningSum ==
  ASSUME NEW n \in 0 .. 4, NEW v, \A i \in 1 .. n : v[i] \in Int,
         NEW f, f[0] = 0, \A i \in 1 .. n : f[i] = f[i - 1] + v[i]
  PROVE  /\ n = 0 => f[n] = 0
         /\ n = 4 => f[n] = v[1] + v[2] + v[3] + v[4]
<1>1. n = 4 => /\ f[1] = f[0] + v[1] /\ v[1] \in Int
               /\ f[2] = f[1] + v[2] /\ v[2] \in Int
               /\ f[3] = f[2] + v[3] /\ v[3] \in Int
               /\ f[4] = f[3] + v[4] /\ v[4] \in Int
  OBVIOUS
<1> QED
  BY <1>1

(* The total of a bill without items and of one with four.                 *)
LEMMA ItemTotals ==
  ASSUME NEW items, NEW n \in {0, 4}, n = Len(items), \A i \in 1 .. n : items[i].amount \in Int
  PROVE  /\ n = 0 => ItemTotal(items) = 0
         /\ n = 4 => ItemTotal(items) = items[1].amount + items[2].amount
                                                  + items[3].amount + items[4].amount
<1> DEFINE v == [i \in 1 .. n |-> items[i].amount]
           Sums(f) == f = [i \in 0 .. n |-> IF i = 0 THEN 0 ELSE f[i - 1] + items[i].amount]
           total == CHOOSE f : Sums(f)
<1>1. n \in 0 .. 4 /\ \A i \in 1 .. n : v[i] \in Int /\ v[i] = items[i].amount
  OBVIOUS
<1> HIDE DEF v
<1>2. ASSUME NEW f
      PROVE  [i \in 0 .. n |-> IF i = 0 THEN 0 ELSE f[i - 1] + items[i].amount]
               = [i \in 0 .. n |-> IF i = 0 THEN 0 ELSE f[i - 1] + v[i]]
  BY <1>1
<1>3. PICK f : f = [i \in 0 .. n |-> IF i = 0 THEN 0 ELSE f[i - 1] + v[i]]
  BY <1>1, RunningSumExists
<1>4. Sums(f)
  BY <1>2, <1>3
<1>5. ItemTotal(items) = total[n]
  BY DEF ItemTotal
<1> HIDE DEF Sums
<1>6. Sums(total)
  BY <1>4
<1> HIDE DEF total
<1>7. ASSUME NEW g, Sums(g)
      PROVE  g[0] = 0 /\ \A i \in 1 .. n : g[i] = g[i - 1] + v[i]
  <2>1. g = [i \in 0 .. n |-> IF i = 0 THEN 0 ELSE g[i - 1] + items[i].amount]
    BY <1>7 DEF Sums
  <2>2. \A i \in 0 .. n : g[i] = IF i = 0 THEN 0 ELSE g[i - 1] + items[i].amount
    BY <2>1
  <2> QED
    BY <1>1, <2>2
<1>8. total[0] = 0 /\ \A i \in 1 .. n : total[i] = total[i - 1] + v[i]
  BY <1>6, <1>7
<1>9. /\ n = 0 => total[n] = 0
      /\ n = 4 => total[n] = v[1] + v[2] + v[3] + v[4]
  BY <1>1, <1>8, RunningSum
<1> QED
  BY <1>1, <1>5, <1>9

(* No text of the synthetic data is blank. *)
LEMMA NotBlank ==
  /\ "monthly_service" # Blank /\ "Monthly_mobile_service" # Blank
  /\ "domestic_calls" # Blank /\ "Domestic_calls" # Blank
  /\ "roaming_data" # Blank /\ "International_roaming_data" # Blank
  /\ "taxes_fees" # Blank /\ "Taxes_and_fees" # Blank
  /\ "synthetic-kddi-bill-v1" # Blank /\ "synthetic-kddi-charge-v1" # Blank
  /\ "United_States" # Blank /\ "Synthetic_KDDI_Overseas_Data_Day_Pass" # Blank
  /\ "automatically_activated_when_the_device_used_mobile_data_while_roaming" # Blank
  /\ "SYN-KDDI-5G-20" # Blank /\ "synthetic-kddi-v1" # Blank
  /\ "SYN-KDDI-LITE-5" # Blank /\ "SYN-KDDI-PLUS-30" # Blank /\ "SYN-KDDI-MAX-100" # Blank
  /\ "synthetic-kddi-catalog-2026-08-28" # Blank
  BY Zenon DEF Blank

(* The items of the synthetic bill, and the rest of it.                    *)
LEMMA ApprovedItems ==
  LET items == ApprovedBill.items
  IN  /\ Len(items) = 4 /\ DOMAIN items = 1 .. 4
      /\ items[1].amount = 4500 /\ items[2].amount = 600
      /\ items[3].amount = 1200 /\ items[4].amount = 630
      /\ \A i \in 1 .. 4 : items[i].code # Blank /\ items[i].description # Blank
      /\ \A i \in 1 .. 4 : items[i].code = "roaming_data" <=> i = 3
      /\ items[3].description = "International_roaming_data"
  BY NotBlank DEF ApprovedBill, Item

LEMMA ApprovedHead ==
  /\ ApprovedBill.start = 0 /\ ApprovedBill.end = 30 /\ ApprovedBill.total = 6930
  /\ ApprovedBill.currency = "JPY" /\ ApprovedBill.version = "synthetic-kddi-bill-v1"
  BY DEF ApprovedBill, July

(* The bills of the MVP cases: only their sum tells them from the approved *)
(* one in every build.                                                     *)
LEMMA BillKept ==
  ASSUME NEW scenario, scenario # "missing"
  PROVE  LET kept == Keeps(BillChecks(BillOf(scenario)))
         IN  /\ scenario \notin {"empty", "nonreconciling", "negative"} => kept
             /\ scenario \in {"empty", "nonreconciling", "negative"} => (kept => "sum" \in lost)
             /\ scenario = "nonreconciling" => ("sum" \in lost => kept)
<1> DEFINE bill == BillOf(scenario)
           items == ApprovedBill.items
<1>1. /\ bill.start = 0 /\ bill.end = 30 /\ bill.currency = "JPY"
      /\ bill.version = "synthetic-kddi-bill-v1"
  BY ApprovedHead DEF BillOf, ApprovedBill
<1>2. bill.total = IF scenario = "nonreconciling" THEN 7000 ELSE 6930
  BY ApprovedHead DEF BillOf, ApprovedBill
<1>3. scenario = "empty" => bill.items = <<>>
  BY DEF BillOf, ApprovedBill
<1>4. scenario \notin {"empty", "negative"} => bill.items = items
  BY DEF BillOf, ApprovedBill
<1>5. scenario = "negative" => /\ Len(bill.items) = 4
                              /\ bill.items[1].amount = -1 /\ bill.items[2].amount = 600
                              /\ bill.items[3].amount = 1200 /\ bill.items[4].amount = 630
  BY DEF BillOf, ApprovedBill, Item
<1> HIDE DEF bill, items
<1>6. scenario \notin {"empty", "negative"} => ItemTotal(bill.items) = 6930
  BY <1>4, ApprovedItems, ItemTotals DEF items
<1>7. scenario = "empty" => ItemTotal(bill.items) = 0
  BY <1>3, ItemTotals
<1>8. scenario = "negative" => ItemTotal(bill.items) = 2429
  <2> SUFFICES ASSUME scenario = "negative" PROVE ItemTotal(bill.items) = 2429
    OBVIOUS
  <2>1. \A i \in 1 .. 4 : bill.items[i].amount \in Int
    BY <1>5
  <2>2. 4 \in {0, 4} /\ 4 = Len(bill.items)
    BY <1>5
  <2>3. ItemTotal(bill.items) = bill.items[1].amount + bill.items[2].amount
                                + bill.items[3].amount + bill.items[4].amount
    BY <2>1, <2>2, ItemTotals
  <2> QED
    BY <1>5, <2>3
<1>9. scenario \notin {"empty", "negative"} =>
        /\ bill.items # <<>>
        /\ \A i \in DOMAIN bill.items : bill.items[i].amount >= 0
        /\ \A i \in DOMAIN bill.items : /\ bill.items[i].code # Blank
                                       /\ bill.items[i].description # Blank
  BY <1>4, ApprovedItems DEF items
<1>10. bill.version # Blank
  BY <1>1, NotBlank
<1> QED
  BY <1>1, <1>2, <1>6, <1>7, <1>8, <1>9, <1>10, KeptBill, LimitsAssumption DEF bill

-----------------------------------------------------------------------------
(* The synthetic charge and catalog *)

(* Its third item is the only one for roaming.                             *)
LEMMA ApprovedRoaming ==
  HasRoaming(ApprovedBill) /\ RoamingItem(ApprovedBill) = ApprovedBill.items[3]
<1>1. RoamingPositions(ApprovedBill) = {3}
  BY ApprovedItems DEF RoamingPositions
<1> QED
  BY <1>1 DEF HasRoaming, RoamingItem

(* The charges of the MVP cases: a stale one is told from the approved one *)
(* by its state alone, a conflicting one by its amount alone.              *)
LEMMA ChargeKept ==
  ASSUME NEW scenario, scenario # "missing"
  PROVE  LET item == RoamingItem(ApprovedBill)
             kept == Keeps(ChargeChecks(ApprovedBill, item, ChargeOf(scenario)))
         IN  /\ scenario \notin {"stale", "conflicting"} => kept
             /\ scenario = "stale" => (kept <=> "state" \in lost)
             /\ scenario = "conflicting" => (kept <=> "same_amount" \in lost)
<1> DEFINE details == ChargeOf(scenario)
           item == RoamingItem(ApprovedBill)
<1>1. /\ details.code = "roaming_data" /\ details.description = "International_roaming_data"
      /\ details.currency = "JPY" /\ details.occurred = 17
      /\ details.location = "United_States"
      /\ details.service = "Synthetic_KDDI_Overseas_Data_Day_Pass"
      /\ details.trigger = "automatically_activated_when_the_device_used_mobile_data_while_roaming"
      /\ details.version = "synthetic-kddi-charge-v1"
  BY DEF ChargeOf, ApprovedCharge, July
<1>2. /\ details.state = IF scenario = "stale" THEN "stale" ELSE "confirmed"
      /\ details.amount = IF scenario = "conflicting" THEN 1300 ELSE 1200
  BY DEF ChargeOf, ApprovedCharge
<1>3. /\ item.code = "roaming_data" /\ item.description = "International_roaming_data"
      /\ item.amount = 1200
  BY ApprovedRoaming, ApprovedItems
<1> HIDE DEF details, item
<1>4. /\ details.location # Blank /\ details.service # Blank
      /\ details.trigger # Blank /\ details.version # Blank
  BY <1>1, NotBlank
<1> QED
  BY <1>1, <1>2, <1>3, <1>4, ApprovedHead, KeptCharge DEF details, item

(* The offers of the synthetic catalog, and of those of the MVP cases.     *)
LEMMA ApprovedOffers ==
  LET offers == ApprovedCatalog.offers
  IN  /\ Len(offers) = 3 /\ DOMAIN offers = 1 .. 3
      /\ offers[1].code = "SYN-KDDI-LITE-5" /\ offers[2].code = "SYN-KDDI-PLUS-30"
      /\ offers[3].code = "SYN-KDDI-MAX-100"
      /\ offers[1].name[3].letters = "Lite" /\ offers[2].name[3].letters = "Plus"
      /\ offers[3].name[3].letters = "Max"
      /\ \A i \in 1 .. 3 : /\ offers[i].name # <<>> /\ offers[i].data > 0 /\ offers[i].charge >= 0
                           /\ offers[i].currency = "JPY" /\ offers[i].from = 58
  BY DEF ApprovedCatalog, Offer, PlanNamed, August

LEMMA CatalogOffers ==
  ASSUME NEW scenario
  PROVE  LET catalog == CatalogOf(scenario)
             offers == ApprovedCatalog.offers
         IN  /\ catalog.version = "synthetic-kddi-catalog-2026-08-28"
             /\ catalog.asOf = IF scenario = "stale_catalog" THEN 27 ELSE 58
             /\ Len(catalog.offers) = 3 /\ DOMAIN catalog.offers = 1 .. 3
             /\ catalog.offers[1] = offers[1] /\ catalog.offers[3] = offers[3]
             /\ catalog.offers[2] = IF scenario = "conflicting_catalog" THEN offers[1]
                                    ELSE offers[2]
<1> DEFINE offers == ApprovedCatalog.offers
<1>1. /\ ApprovedCatalog.version = "synthetic-kddi-catalog-2026-08-28"
      /\ ApprovedCatalog.asOf = 58
      /\ ApprovedCatalog = [offers |-> offers, asOf |-> 58,
                            version |-> "synthetic-kddi-catalog-2026-08-28"]
  BY DEF ApprovedCatalog, August
<1>2. July(28) = 27
  BY DEF July
<1>3. Len(offers) = 3 /\ DOMAIN offers = 1 .. 3
  BY ApprovedOffers
<1>4. offers \in Seq({offers[1], offers[2], offers[3]})
  BY DEF ApprovedCatalog
<1> HIDE DEF offers
<1>5. /\ DOMAIN [offers EXCEPT ![2] = offers[1]] = 1 .. 3
      /\ Len([offers EXCEPT ![2] = offers[1]]) = 3
      /\ [offers EXCEPT ![2] = offers[1]][1] = offers[1]
      /\ [offers EXCEPT ![2] = offers[1]][2] = offers[1]
      /\ [offers EXCEPT ![2] = offers[1]][3] = offers[3]
  BY <1>3, <1>4
<1> QED
  BY <1>1, <1>2, <1>3, <1>5 DEF CatalogOf, offers

(* The catalogs of the MVP cases. *)
LEMMA ComparisonKept ==
  ASSUME NEW scenario
  PROVE  LET kept == Keeps(ComparisonChecks(ApprovedPlan, CatalogOf(scenario), August(29)))
         IN  /\ scenario \notin {"stale_catalog", "conflicting_catalog"} => kept
             /\ scenario = "stale_catalog" => (kept <=> "freshness" \in lost)
             /\ scenario = "conflicting_catalog" => (kept <=> {"codes", "names"} \subseteq lost)
<1> DEFINE catalog == CatalogOf(scenario)
           offers == ApprovedCatalog.offers
<1>1. August(29) = 59
  BY DEF August
<1>2. IsUsablePlan(ApprovedPlan, 59)
  <2>1. ApprovedPlan.code # Blank /\ ApprovedPlan.version # Blank
    BY NotBlank DEF ApprovedPlan
  <2>2. ApprovedPlan.name # <<>>
    BY DEF ApprovedPlan, PlanNamed
  <2>3. /\ ApprovedPlan.data = 20 /\ ApprovedPlan.charge = 4500
        /\ ApprovedPlan.currency = "JPY" /\ ApprovedPlan.from = 31
    BY DEF ApprovedPlan, August
  <2> QED
    BY <2>1, <2>2, <2>3, LimitsAssumption DEF IsUsablePlan
<1>3. /\ catalog.version = "synthetic-kddi-catalog-2026-08-28"
      /\ catalog.asOf = IF scenario = "stale_catalog" THEN 27 ELSE 58
      /\ Len(catalog.offers) = 3 /\ DOMAIN catalog.offers = 1 .. 3
      /\ catalog.offers[1] = offers[1] /\ catalog.offers[3] = offers[3]
      /\ catalog.offers[2] = IF scenario = "conflicting_catalog" THEN offers[1] ELSE offers[2]
  BY CatalogOffers
<1> HIDE DEF catalog, offers
<1>4. IsFresh(catalog, 59) <=> scenario # "stale_catalog"
  BY <1>3, LimitsAssumption DEF IsFresh
<1>5. \A i \in 1 .. 3 : \E j \in 1 .. 3 : catalog.offers[i] = offers[j]
  BY <1>3
<1>6. \A i \in 1 .. 3 : /\ IsUsableOffer(offers[i], ApprovedPlan, 59)
                        /\ offers[i].code # ApprovedPlan.code
  <2>1. \A i \in 1 .. 3 : offers[i].code # Blank /\ offers[i].code # "SYN-KDDI-5G-20"
    BY ApprovedOffers, NotBlank DEF offers
  <2>2. ApprovedPlan.code = "SYN-KDDI-5G-20" /\ ApprovedPlan.currency = "JPY"
    BY DEF ApprovedPlan
  <2> QED
    BY <2>1, <2>2, ApprovedOffers DEF IsUsableOffer, offers
<1>7. /\ \A i \in DOMAIN catalog.offers : catalog.offers[i].code # ApprovedPlan.code
      /\ \A i \in DOMAIN catalog.offers : IsUsableOffer(catalog.offers[i], ApprovedPlan, 59)
  BY <1>3, <1>5, <1>6
<1>8. /\ IsInjective(Codes(catalog.offers)) <=> scenario # "conflicting_catalog"
      /\ IsInjective(Names(catalog.offers)) <=> scenario # "conflicting_catalog"
  <2> DEFINE codes == Codes(catalog.offers)
             names == Names(catalog.offers)
  <2>1. /\ DOMAIN codes = 1 .. 3 /\ DOMAIN names = 1 .. 3
        /\ \A i \in 1 .. 3 : codes[i] = catalog.offers[i].code /\ names[i] = catalog.offers[i].name
    BY <1>3 DEF Codes, Names
  <2> HIDE DEF codes, names
  <2>2. scenario = "conflicting_catalog" => codes[1] = codes[2] /\ names[1] = names[2]
    BY <1>3, <2>1
  <2>3. scenario # "conflicting_catalog" =>
          \A i, j \in 1 .. 3 : i # j => codes[i] # codes[j] /\ names[i] # names[j]
    BY <1>3, <2>1, ApprovedOffers DEF offers
  <2>4. scenario = "conflicting_catalog" => ~IsInjective(codes) /\ ~IsInjective(names)
    BY <2>1, <2>2 DEF IsInjective
  <2>5. scenario # "conflicting_catalog" => IsInjective(codes) /\ IsInjective(names)
    BY <2>1, <2>3 DEF IsInjective
  <2> QED
    BY <2>4, <2>5 DEF codes, names
<1>9. catalog.version # Blank
  BY <1>3, NotBlank
<1> QED
  BY <1>1, <1>2, <1>3, <1>4, <1>7, <1>8, <1>9, KeptComparison, LimitsAssumption DEF catalog

-----------------------------------------------------------------------------
(* What a text states, and how often it has a number *)

(* A text states what it has from some token on. *)
LEMMA PartIsStated ==
  ASSUME NEW T, NEW text \in Seq(T), NEW value \in Seq(T), NEW at \in Nat,
         at + Len(value) <= Len(text), \A i \in 1 .. Len(value) : text[at + i] = value[i]
  PROVE  States(text, value)
<1>1. at \in 0 .. Len(text) - Len(value) /\ DOMAIN value = 1 .. Len(value)
  OBVIOUS
<1> QED
  BY <1>1 DEF States

(* A text that states a value has a token that is, or ends with, its first.*)
LEMMA FirstTokenIsStated ==
  ASSUME NEW T, NEW text \in Seq(T), NEW value \in Seq(T), States(text, value), Len(value) > 1
  PROVE  \E j \in 1 .. Len(text) : text[j] = value[1] \/ <<text[j], value[1]>> \in TokenEndings
<1>0. Len(text) \in Nat /\ Len(value) \in Nat /\ DOMAIN value = 1 .. Len(value)
  OBVIOUS
<1>1. PICK at \in 0 .. Len(text) - Len(value) :
        \A i \in DOMAIN value : \/ text[at + i] = value[i]
                                \/ i = 1 /\ <<text[at + i], value[i]>> \in TokenEndings
                                \/ i = Len(value) /\ <<text[at + i], value[i]>> \in TokenBeginnings
  BY DEF States
<1>2. 1 \in DOMAIN value /\ 1 # Len(value) /\ at + 1 \in 1 .. Len(text)
  BY <1>0, <1>1
<1> QED
  BY <1>1, <1>2

(* A number occurs in two texts together as often as in both of them.      *)
LEMMA OccurrencesAdd ==
  ASSUME NEW T, NEW s \in Seq(T), NEW t \in Seq(T), NEW n
  PROVE  /\ Occurrences(s \o t, n) = Occurrences(s, n) + Occurrences(t, n)
         /\ Occurrences(s, n) \in Nat /\ Occurrences(t, n) \in Nat
<1> DEFINE In(u) == {i \in DOMAIN u : n \in u[i].number}
           later == {Len(s) + i : i \in In(t)}
<1>1. /\ Len(s) \in Nat /\ Len(t) \in Nat /\ DOMAIN s = 1 .. Len(s) /\ DOMAIN t = 1 .. Len(t)
      /\ DOMAIN (s \o t) = 1 .. Len(s) + Len(t)
      /\ \A i \in 1 .. Len(s) : (s \o t)[i] = s[i]
      /\ \A i \in 1 .. Len(t) : (s \o t)[Len(s) + i] = t[i]
  OBVIOUS
<1>2. IsFiniteSet(In(s)) /\ IsFiniteSet(In(t))
  <2>1. IsFiniteSet(1 .. Len(s)) /\ IsFiniteSet(1 .. Len(t))
    BY <1>1, FS_Interval
  <2> QED
    BY <1>1, <2>1, FS_Subset
<1>3. In(s \o t) = In(s) \cup later
  <2>1. ASSUME NEW k \in In(s \o t) PROVE k \in In(s) \cup later
    <3>1. CASE k <= Len(s)
      BY <1>1, <3>1
    <3>2. CASE ~(k <= Len(s))
      <4>1. k - Len(s) \in 1 .. Len(t) /\ k = Len(s) + (k - Len(s))
        BY <1>1, <3>2
      <4>2. k - Len(s) \in In(t)
        BY <1>1, <4>1
      <4> QED
        BY <4>1, <4>2
    <3> QED
      BY <3>1, <3>2
  <2>2. In(s) \subseteq In(s \o t)
    BY <1>1
  <2>3. ASSUME NEW i \in In(t) PROVE Len(s) + i \in In(s \o t)
    BY <1>1
  <2> QED
    BY <2>1, <2>2, <2>3
<1>4. In(s) \cap later = {}
  BY <1>1
<1>5. IsFiniteSet(later) /\ Cardinality(later) = Cardinality(In(t))
  <2> DEFINE f == [i \in In(t) |-> Len(s) + i]
  <2>1. f \in Bijection(In(t), later)
    BY <1>1 DEF Bijection, Injection, Surjection, IsInjective
  <2> QED
    BY <1>2, <2>1, FS_Bijection DEF ExistsBijection
<1> HIDE DEF In, later
<1>6. Cardinality(In(s)) \in Nat /\ Cardinality(In(t)) \in Nat
  BY <1>2, FS_CardinalityType
<1>7. Cardinality(In(s \o t)) = Cardinality(In(s)) + Cardinality(In(t))
  <2>1. Cardinality(In(s) \cup later)
          = Cardinality(In(s)) + Cardinality(later) - Cardinality(In(s) \cap later)
    BY <1>2, <1>5, FS_Union
  <2>2. Cardinality(In(s) \cap later) = 0
    BY <1>4, FS_EmptySet
  <2> QED
    BY <1>3, <1>5, <1>6, <2>1, <2>2
<1> QED
  BY <1>6, <1>7 DEF Occurrences, In

(* What may be repeated of the four facts of a plan.                       *)
LEMMA AllowedOfFour ==
  ASSUME NEW values, Len(values) = 4, NEW n,
         \A i \in 1 .. 4 : Occurrences(values[i], n) \in Int
  PROVE  Allowed(values, n) = Occurrences(values[1], n) + Occurrences(values[2], n)
                              + Occurrences(values[3], n) + Occurrences(values[4], n)
<1> DEFINE v == [i \in 1 .. 4 |-> Occurrences(values[i], n)]
           Counts(f) == f = [i \in 0 .. 4 |-> IF i = 0 THEN 0
                                             ELSE f[i - 1] + Occurrences(values[i], n)]
           count == CHOOSE f : Counts(f)
<1>1. \A i \in 1 .. 4 : v[i] \in Int /\ v[i] = Occurrences(values[i], n)
  OBVIOUS
<1> HIDE DEF v
<1>2. ASSUME NEW f
      PROVE  [i \in 0 .. 4 |-> IF i = 0 THEN 0 ELSE f[i - 1] + Occurrences(values[i], n)]
               = [i \in 0 .. 4 |-> IF i = 0 THEN 0 ELSE f[i - 1] + v[i]]
  BY <1>1
<1>3. 4 \in 0 .. 4
  OBVIOUS
<1>4. PICK f : f = [i \in 0 .. 4 |-> IF i = 0 THEN 0 ELSE f[i - 1] + v[i]]
  BY <1>1, <1>3, RunningSumExists
<1>5. Counts(f)
  BY <1>2, <1>4
<1>6. Allowed(values, n) = count[4]
  BY DEF Allowed
<1> HIDE DEF Counts
<1>7. Counts(count)
  BY <1>5
<1> HIDE DEF count
<1>8. ASSUME NEW g, Counts(g)
      PROVE  g[0] = 0 /\ \A i \in 1 .. 4 : g[i] = g[i - 1] + v[i]
  <2>1. g = [i \in 0 .. 4 |-> IF i = 0 THEN 0 ELSE g[i - 1] + Occurrences(values[i], n)]
    BY <1>8 DEF Counts
  <2>2. \A i \in 0 .. 4 : g[i] = IF i = 0 THEN 0 ELSE g[i - 1] + Occurrences(values[i], n)
    BY <2>1
  <2> QED
    BY <1>1, <2>2
<1>9. count[0] = 0 /\ \A i \in 1 .. 4 : count[i] = count[i - 1] + v[i]
  BY <1>7, <1>8
<1>10. count[4] = v[1] + v[2] + v[3] + v[4]
  BY <1>1, <1>3, <1>9, RunningSum
<1> QED
  BY <1>1, <1>6, <1>10

(* What two texts state, they state together. *)
LEMMA JoinedTexts ==
  ASSUME NEW T, NEW s \in Seq(T), NEW t \in Seq(T)
  PROVE  /\ s \o t \in Seq(T) /\ Len(s \o t) = Len(s) + Len(t)
         /\ Len(s) \in Nat /\ Len(t) \in Nat
         /\ \A value \in Seq(T) : States(s, value) => States(s \o t, value)
         /\ States(s \o t, t)
         /\ \A token : (\E j \in DOMAIN (s \o t) : (s \o t)[j] = token) =>
              (\E i \in DOMAIN s : s[i] = token) \/ (\E i \in DOMAIN t : t[i] = token)
         /\ NumbersIn(t) \subseteq NumbersIn(s \o t)
<1> DEFINE text == s \o t
<1>1. /\ text \in Seq(T) /\ Len(text) = Len(s) + Len(t) /\ Len(s) \in Nat /\ Len(t) \in Nat
      /\ DOMAIN s = 1 .. Len(s) /\ DOMAIN t = 1 .. Len(t) /\ DOMAIN text = 1 .. Len(text)
      /\ \A i \in 1 .. Len(s) : text[i] = s[i]
      /\ \A i \in 1 .. Len(t) : text[Len(s) + i] = t[i]
  OBVIOUS
<1> HIDE DEF text
<1>2. ASSUME NEW value \in Seq(T), States(s, value) PROVE States(text, value)
  <2>1. PICK at \in 0 .. Len(s) - Len(value) :
          \A i \in DOMAIN value : \/ s[at + i] = value[i]
                                  \/ i = 1 /\ <<s[at + i], value[i]>> \in TokenEndings
                                  \/ i = Len(value) /\ <<s[at + i], value[i]>> \in TokenBeginnings
    BY <1>2 DEF States
  <2>2. /\ at \in 0 .. Len(text) - Len(value) /\ DOMAIN value = 1 .. Len(value)
        /\ \A i \in 1 .. Len(value) : at + i \in 1 .. Len(s)
    BY <1>1
  <2>3. \A i \in DOMAIN value : text[at + i] = s[at + i]
    BY <1>1, <2>2
  <2> QED
    BY <2>1, <2>2, <2>3 DEF States
<1>3. States(text, t)
  BY <1>1, PartIsStated
<1>4. ASSUME NEW j \in DOMAIN text
      PROVE  (\E i \in DOMAIN s : s[i] = text[j]) \/ (\E i \in DOMAIN t : t[i] = text[j])
  <2>1. CASE j <= Len(s)
    BY <1>1, <1>4, <2>1
  <2>2. CASE ~(j <= Len(s))
    <3>1. j - Len(s) \in 1 .. Len(t) /\ j = Len(s) + (j - Len(s))
      BY <1>1, <1>4, <2>2
    <3> QED
      BY <1>1, <3>1
  <2> QED
    BY <2>1, <2>2
<1>5. NumbersIn(t) \subseteq NumbersIn(text)
  BY <1>1 DEF NumbersIn
<1> QED
  BY <1>1, <1>2, <1>3, <1>4, <1>5 DEF text

(* The four facts of the synthetic plan: its name, its data allowance, its *)
(* monthly charge and the day it took effect.                              *)
LEMMA FactTokens ==
  /\ Facts(ApprovedPlan)
       = <<<<Word("Synthetic"), Word("KDDI"), [letters |-> "G", number |-> {5}],
             [letters |-> "GB", number |-> {20}]>>,
           <<Number(20), Word("GB")>>, <<Word("JPY"), Number(4500)>>,
           <<Word("date"), Number(31)>>>>
<1>1. /\ ApprovedPlan.name = <<Word("Synthetic"), Word("KDDI"), [letters |-> "G", number |-> {5}],
                               [letters |-> "GB", number |-> {20}]>>
      /\ ApprovedPlan.data = 20 /\ ApprovedPlan.currency = "JPY"
      /\ ApprovedPlan.charge = 4500 /\ ApprovedPlan.from = 31
  BY DEF ApprovedPlan, PlanNamed, August
<1> QED
  BY <1>1 DEF Facts

(* The texts of the plan cases. *)
LEMMA OutputKept ==
  LET values == Facts(ApprovedPlan)
      kept(writes) == Keeps(OutputChecks(Written(writes), values))
  IN  /\ kept("canonical") /\ StatesAll(Written("canonical"), values)
      /\ kept("extra_numeric") <=> "numbers" \in lost
      /\ kept("missing_fact") <=> "values" \in lost
<1> DEFINE values == Facts(ApprovedPlan)
           a == values[1]
           b == values[2]
           c == values[3]
           d == values[4]
           extra == <<Number(12), Word("month_discount")>>
           T == {a[1], a[2], a[3], a[4], b[1], b[2], c[1], c[2], d[1], d[2], extra[1], extra[2]}
           ab == a \o b
           abc == ab \o c
           abcd == abc \o d
           abcde == abcd \o extra
<1>1. /\ Written("canonical") = abcd
      /\ Written("extra_numeric") = abcde
      /\ Written("missing_fact") = abc
  BY DEF Written
<1>2. Len(values) = 4 /\ DOMAIN values = 1 .. 4
  BY FactTokens
<1>3. /\ a \in Seq({a[1], a[2], a[3], a[4]}) /\ Len(a) = 4
      /\ b \in Seq({b[1], b[2]}) /\ Len(b) = 2
      /\ c \in Seq({c[1], c[2]}) /\ Len(c) = 2
      /\ d \in Seq({d[1], d[2]}) /\ Len(d) = 2
      /\ extra \in Seq({extra[1], extra[2]}) /\ Len(extra) = 2
  BY FactTokens
<1>4. /\ d[1] = Word("date")
      /\ \A i \in DOMAIN a : a[i] # Word("date") /\ <<a[i], Word("date")>> \notin TokenEndings
      /\ \A i \in DOMAIN b : b[i] # Word("date") /\ <<b[i], Word("date")>> \notin TokenEndings
      /\ \A i \in DOMAIN c : c[i] # Word("date") /\ <<c[i], Word("date")>> \notin TokenEndings
  <2>1. /\ d[1] = Word("date")
        /\ \A i \in DOMAIN a : a[i] # Word("date")
        /\ \A i \in DOMAIN b : b[i] # Word("date")
        /\ \A i \in DOMAIN c : c[i] # Word("date")
    BY FactTokens DEF Word, Number
  <2>2. \A i \in 1 .. 3 : \A j \in DOMAIN values[i] :
          <<values[i][j], Word("date")>> \notin TokenEndings
    BY DateAssumption
  <2>3. 1 \in 1 .. 3 /\ 2 \in 1 .. 3 /\ 3 \in 1 .. 3
    OBVIOUS
  <2> HIDE DEF values
  <2> QED
    BY <2>1, <2>2, <2>3
<1>5. extra[1].number = {12} /\ extra[2].number = {} /\ DOMAIN extra = 1 .. 2
  BY DEF Word, Number
<1> HIDE DEF values, extra
<1>6. a \in Seq(T) /\ b \in Seq(T) /\ c \in Seq(T) /\ d \in Seq(T) /\ extra \in Seq(T)
  BY <1>3
<1>7. \A n : Occurrences(extra, n) = IF n = 12 THEN 1 ELSE 0
  <2> SUFFICES ASSUME NEW n PROVE Occurrences(extra, n) = IF n = 12 THEN 1 ELSE 0
    OBVIOUS
  <2>1. {i \in DOMAIN extra : n \in extra[i].number} = IF n = 12 THEN {1} ELSE {}
    BY <1>5
  <2> QED
    BY <2>1, FS_Singleton, FS_EmptySet DEF Occurrences
<1> HIDE DEF a, b, c, d, T, ab, abc, abcd, abcde
<1>8. ab \in Seq(T) /\ abc \in Seq(T) /\ abcd \in Seq(T) /\ abcde \in Seq(T)
  <2>1. ab \in Seq(T)
    BY <1>6, JoinedTexts DEF ab
  <2>2. abc \in Seq(T)
    BY <1>6, <2>1, JoinedTexts DEF abc
  <2>3. abcd \in Seq(T)
    BY <1>6, <2>2, JoinedTexts DEF abcd
  <2>4. abcde \in Seq(T)
    BY <1>6, <2>3, JoinedTexts DEF abcde
  <2> QED
    BY <2>1, <2>2, <2>3, <2>4
<1>9. Len(abc) = 8 /\ Len(abcd) = 10 /\ Len(abcde) = 12
  <2>1. Len(ab) = Len(a) + Len(b)
    BY <1>6, JoinedTexts DEF ab
  <2>2. Len(abc) = Len(ab) + Len(c)
    BY <1>6, <1>8, JoinedTexts DEF abc
  <2>3. Len(abcd) = Len(abc) + Len(d)
    BY <1>6, <1>8, JoinedTexts DEF abcd
  <2>4. Len(abcde) = Len(abcd) + Len(extra)
    BY <1>6, <1>8, JoinedTexts DEF abcde
  <2> QED
    BY <1>3, <2>1, <2>2, <2>3, <2>4
<1>10. StatesAll(abcd, values) /\ StatesAll(abcde, values)
  <2>1. States(ab, a) /\ States(ab, b)
    <3>1. States(a, a)
      <4>1. 0 \in Nat /\ 0 + Len(a) <= Len(a) /\ \A i \in 1 .. Len(a) : a[0 + i] = a[i]
        BY <1>3
      <4> QED
        BY <1>6, <4>1, PartIsStated
    <3> QED
      BY <1>6, <3>1, JoinedTexts DEF ab
  <2>2. States(abc, a) /\ States(abc, b) /\ States(abc, c)
    BY <1>6, <1>8, <2>1, JoinedTexts DEF abc
  <2>3. States(abcd, a) /\ States(abcd, b) /\ States(abcd, c) /\ States(abcd, d)
    BY <1>6, <1>8, <2>2, JoinedTexts DEF abcd
  <2>4. States(abcde, a) /\ States(abcde, b) /\ States(abcde, c) /\ States(abcde, d)
    BY <1>6, <1>8, <2>3, JoinedTexts DEF abcde
  <2>5. \A i \in 1 .. 4 : i = 1 \/ i = 2 \/ i = 3 \/ i = 4
    OBVIOUS
  <2> QED
    BY <1>2, <2>3, <2>4, <2>5 DEF StatesAll, a, b, c, d
<1>11. ~StatesAll(abc, values)
  <2> DEFINE Dated(token) == token = Word("date") \/ <<token, Word("date")>> \in TokenEndings
  <2>0. /\ \A i \in DOMAIN a : ~Dated(a[i])
        /\ \A i \in DOMAIN b : ~Dated(b[i])
        /\ \A i \in DOMAIN c : ~Dated(c[i])
    BY <1>4
  <2> HIDE DEF Dated
  <2>1. \A j \in DOMAIN ab : ~Dated(ab[j])
    BY <1>6, <2>0, JoinedTexts DEF ab
  <2>2. \A j \in DOMAIN abc : ~Dated(abc[j])
    BY <1>6, <1>8, <2>0, <2>1, JoinedTexts DEF abc
  <2>3. \A j \in 1 .. Len(abc) : ~Dated(abc[j])
    BY <1>8, <2>2
  <2>4. ~States(abc, d)
    <3> SUFFICES ASSUME States(abc, d) PROVE FALSE
      OBVIOUS
    <3>1. Len(d) > 1
      BY <1>3
    <3>2. PICK j \in 1 .. Len(abc) : abc[j] = d[1] \/ <<abc[j], d[1]>> \in TokenEndings
      BY <1>6, <1>8, <3>1, FirstTokenIsStated
    <3> QED
      BY <1>4, <2>3, <3>2 DEF Dated
  <2> QED
    BY <1>2, <2>4 DEF StatesAll, d
<1>12. ASSUME NEW n
       PROVE  /\ Occurrences(abc, n) <= Allowed(values, n)
              /\ Occurrences(abcd, n) = Allowed(values, n)
              /\ Occurrences(abcde, n) = Allowed(values, n) + Occurrences(extra, n)
              /\ Allowed(values, n) \in Nat
  <2>1. /\ Occurrences(ab, n) = Occurrences(a, n) + Occurrences(b, n)
        /\ Occurrences(a, n) \in Nat /\ Occurrences(b, n) \in Nat
    BY <1>6, OccurrencesAdd DEF ab
  <2>2. Occurrences(abc, n) = Occurrences(ab, n) + Occurrences(c, n) /\ Occurrences(c, n) \in Nat
    BY <1>6, <1>8, OccurrencesAdd DEF abc
  <2>3. Occurrences(abcd, n) = Occurrences(abc, n) + Occurrences(d, n) /\ Occurrences(d, n) \in Nat
    BY <1>6, <1>8, OccurrencesAdd DEF abcd
  <2>4. Occurrences(abcde, n) = Occurrences(abcd, n) + Occurrences(extra, n)
    BY <1>6, <1>8, OccurrencesAdd DEF abcde
  <2>5. \A i \in 1 .. 4 : i = 1 \/ i = 2 \/ i = 3 \/ i = 4
    OBVIOUS
  <2>6. \A i \in 1 .. 4 : Occurrences(values[i], n) \in Int
    BY <2>1, <2>2, <2>3, <2>5 DEF a, b, c, d
  <2>7. Allowed(values, n) = Occurrences(a, n) + Occurrences(b, n) + Occurrences(c, n)
                             + Occurrences(d, n)
    BY <1>2, <2>6, AllowedOfFour DEF a, b, c, d
  <2> QED
    BY <1>7, <2>1, <2>2, <2>3, <2>4, <2>7
<1>13. 12 \in NumbersIn(abcde)
  <2>1. 12 \in NumbersIn(extra)
    BY <1>5 DEF NumbersIn
  <2> QED
    BY <1>6, <1>8, <2>1, JoinedTexts DEF abcde
<1>14. /\ abc # <<>> /\ Len(abc) <= MaxText /\ abcd # <<>> /\ Len(abcd) <= MaxText
       /\ abcde # <<>> /\ Len(abcde) <= MaxText
  <2>1. MaxText \in Nat /\ MaxText >= 12
    BY LimitsAssumption
  <2>2. Len(<<>>) = 0
    OBVIOUS
  <2>3. Len(abc) <= MaxText /\ Len(abcd) <= MaxText /\ Len(abcde) <= MaxText
    BY <1>9, <2>1
  <2>4. Len(abc) # 0 /\ Len(abcd) # 0 /\ Len(abcde) # 0
    BY <1>9
  <2> QED
    BY <2>2, <2>3, <2>4, Zenon
<1>15. Keeps(OutputChecks(abcd, values))
  BY <1>10, <1>12, <1>14, KeptOutput
<1>16. Keeps(OutputChecks(abcde, values)) <=> "numbers" \in lost
  <2>1. Occurrences(abcde, 12) = Allowed(values, 12) + 1 /\ Allowed(values, 12) \in Nat
    BY <1>7, <1>12
  <2>2. ~(\A n \in NumbersIn(abcde) : Occurrences(abcde, n) <= Allowed(values, n))
    BY <1>13, <2>1
  <2> QED
    BY <1>10, <1>14, <2>2, KeptOutput
<1>17. Keeps(OutputChecks(abc, values)) <=> "values" \in lost
  BY <1>11, <1>12, <1>14, KeptOutput
<1> QED
  BY <1>1, <1>10, <1>15, <1>16, <1>17 DEF values

-----------------------------------------------------------------------------
(* A build that is released has all that is probed *)

(* An answer to a question that no rule applies to.                        *)
LEMMA UnsupportedFacts ==
  ASSUME NEW question, NEW data, NEW text, Route(Heard(question)) = "unsupported"
  PROVE  LET answer == Answer(question, data, text)
         IN  /\ answer.status = "unsupported" /\ answer.evidence = <<>> /\ answer.text = <<>>
             /\ answer.says = {"not_implemented"} \ lost
  BY DEF Answer, Unavailable

(* A build does not say what it has lost. *)
LEMMA SaidIsKept ==
  ASSUME NEW c, NEW text
  PROVE  AnswerTo(c, text).says \cap lost = {}
<1> DEFINE answer == AnswerTo(c, text)
           route == Route(Heard(c.question))
<1>1. route = "unsupported" => answer.says \cap lost = {}
  BY UnsupportedFacts DEF AnswerTo
<1>2. route = "comparison" => answer.says \cap lost = {}
  BY RouteFacts, CompareFacts
<1>3. route = "latest_bill" => answer.says \cap lost = {}
  BY RouteFacts, BillFacts
<1>4. route = "unexpected_charge" => answer.says \cap lost = {}
  BY RouteFacts, ChargeFacts
<1>5. route = "current_plan" => answer.says \cap lost = {}
  BY RouteFacts, PlanFacts
<1>6. route = "ambiguous_charge" => answer.says \cap lost = {}
  BY RouteFacts, AmbiguousFacts
<1>7. route \in Intents
  BY RouteFacts
<1> HIDE DEF answer, route
<1> QED
  BY <1>1, <1>2, <1>3, <1>4, <1>5, <1>6, <1>7 DEF Intents, answer

(* What a released build does with a case that it passed. *)
Passed(c, text) ==
  /\ ~DiesOn(c, text) /\ Passes(c, AnswerTo(c, text))
  /\ Asks(c) => Routed(c)

(* A released build passed all safety cases, and of each kind of routine   *)
(* cases at least one.                                                     *)
LEMMA SafetyPassed ==
  ASSUME GradedInv, exit = "0", NEW i \in DOMAIN Cases, Cases[i].group = "safety"
  PROVE  \E text \in TextsOf(Cases[i]) : Passed(Cases[i], text)
<1>1. i \in passed
  BY DEF GradedInv, ReleaseAllowed, Safety
<1>2. Cases[i] \in AllCases /\ Route(Heard(Cases[i].question)) = Route(Cases[i].question)
  BY <1>1, PassedAreRouted, CasesAreSequences DEF GradedInv
<1>3. Asks(Cases[i]) => Routed(Cases[i])
  BY <1>2, QuestionAssumption DEF Routed
<1> QED
  BY <1>1, <1>3 DEF GradedInv, Passable, Passed

LEMMA RoutinePassed ==
  ASSUME GradedInv, exit = "0", NEW i \in DOMAIN Cases, Cases[i].group = "routine"
  PROVE  \E j \in Routine(Cases[i].feature) :
           \E text \in TextsOf(Cases[j]) : Passed(Cases[j], text)
<1> DEFINE all == Routine(Cases[i].feature)
<1>1. IsFiniteSet(all)
  <2>1. Count \in Nat /\ DOMAIN Cases = 1 .. Count
    BY CasesAreSequences DEF GradedInv
  <2>2. all \subseteq 1 .. Count
    BY <2>1 DEF Routine
  <2> QED
    BY <2>1, <2>2, FS_Interval, FS_Subset
<1>2. i \in all /\ Reaches80(all)
  BY DEF GradedInv, ReleaseAllowed, Features, Routine
<1>3. all \cap passed # {}
  <2> SUFFICES ASSUME all \cap passed = {} PROVE FALSE
    OBVIOUS
  <2> HIDE DEF all
  <2>1. 5 * Cardinality(all) <= Cardinality(all)
    BY <1>1, <1>2, FifthLeft
  <2>2. Cardinality(all) \in Nat /\ Cardinality(all) # 0
    BY <1>1, <1>2, FS_CardinalityType, FS_EmptySet
  <2> QED
    BY <2>1, <2>2
<1>4. PICK j \in all : j \in passed
  BY <1>3
<1>5. j \in DOMAIN Cases
  BY DEF Routine
<1>6. Cases[j] \in AllCases /\ Route(Heard(Cases[j].question)) = Route(Cases[j].question)
  BY <1>4, <1>5, PassedAreRouted, CasesAreSequences DEF GradedInv
<1>7. Asks(Cases[j]) => Routed(Cases[j])
  BY <1>6, QuestionAssumption DEF Routed
<1> QED
  BY <1>4, <1>7 DEF GradedInv, Passable, Passed

(* Which of the fakes of the MVP cases have data. *)
LEMMA FakesHaveData ==
  ASSUME NEW scenario
  PROVE  /\ (BillOf(scenario) = NoData) <=> (scenario = "missing")
         /\ (ChargeOf(scenario) = NoData) <=> (scenario = "missing")
         /\ CatalogOf(scenario) # NoData
         /\ ApprovedPlan # NoData /\ ApprovedBill # NoData
         /\ scenario \notin {"missing", "empty", "nonreconciling", "negative"} =>
              BillOf(scenario) = ApprovedBill
<1>1. (BillOf(scenario) = NoData) <=> (scenario = "missing")
  <2>1. CASE scenario \in {"empty", "nonreconciling", "negative"}
    BY <2>1, NoDataAssumption
  <2>2. CASE scenario \notin {"empty", "nonreconciling", "negative"}
    BY <2>2, NoDataAssumption DEF BillOf
  <2> QED
    BY <2>1, <2>2
<1>2. (ChargeOf(scenario) = NoData) <=> (scenario = "missing")
  <2>1. CASE scenario \in {"stale", "conflicting"}
    BY <2>1, NoDataAssumption
  <2>2. CASE scenario \notin {"stale", "conflicting"}
    BY <2>2, NoDataAssumption DEF ChargeOf
  <2> QED
    BY <2>1, <2>2
<1>3. CatalogOf(scenario) # NoData
  <2>1. CASE scenario \in {"stale_catalog", "conflicting_catalog"}
    BY <2>1, NoDataAssumption
  <2>2. CASE scenario \notin {"stale_catalog", "conflicting_catalog"}
    BY <2>2, NoDataAssumption DEF CatalogOf
  <2> QED
    BY <2>1, <2>2
<1>4. scenario \notin {"missing", "empty", "nonreconciling", "negative"} =>
        BillOf(scenario) = ApprovedBill
  BY DEF BillOf
<1> QED
  BY <1>1, <1>2, <1>3, <1>4, NoDataAssumption

(* An intent in the suites is the intent of its rule's answer. *)
LEMMA RoutedAnswers ==
  ASSUME NEW c, Routed(c), NEW text
  PROVE  /\ c.feature = "latest_bill" => AnswerTo(c, text) = BillAnswer(DataOf(c))
         /\ c.feature = "unexpected_charge" =>
              AnswerTo(c, text) = IF c.scenario = "ambiguous"
                                  THEN Unavailable(<<>>, {"Which_line_item"})
                                  ELSE ChargeAnswer(DataOf(c))
         /\ c.feature = "plan_comparison" => AnswerTo(c, text) = CompareAnswer(DataOf(c))
         /\ c.feature = "current_plan" /\ c.expected # "unsupported" =>
              AnswerTo(c, text) = PlanAnswer(DataOf(c), text)
         /\ c.feature = "current_plan" /\ c.expected = "unsupported" =>
              /\ AnswerTo(c, text).status = "unsupported"
              /\ AnswerTo(c, text).evidence = <<>> /\ AnswerTo(c, text).text = <<>>
              /\ AnswerTo(c, text).says = {"not_implemented"} \ lost
<1>1. Route(Heard(c.question)) = Intended(c)
  BY DEF Routed
<1>2. c.feature = "latest_bill" => AnswerTo(c, text) = BillAnswer(DataOf(c))
  BY <1>1, RouteFacts DEF Intended
<1>3. c.feature = "unexpected_charge" =>
              AnswerTo(c, text) = IF c.scenario = "ambiguous"
                                  THEN Unavailable(<<>>, {"Which_line_item"})
                                  ELSE ChargeAnswer(DataOf(c))
  BY <1>1, RouteFacts DEF Intended
<1>4. c.feature = "plan_comparison" => AnswerTo(c, text) = CompareAnswer(DataOf(c))
  BY <1>1, RouteFacts DEF Intended
<1>5. c.feature = "current_plan" /\ c.expected # "unsupported" =>
              AnswerTo(c, text) = PlanAnswer(DataOf(c), text)
  BY <1>1, RouteFacts DEF Intended
<1>6. c.feature = "current_plan" /\ c.expected = "unsupported" =>
              /\ AnswerTo(c, text).status = "unsupported"
              /\ AnswerTo(c, text).evidence = <<>> /\ AnswerTo(c, text).text = <<>>
              /\ AnswerTo(c, text).says = {"not_implemented"} \ lost
  <2> SUFFICES ASSUME c.feature = "current_plan", c.expected = "unsupported"
               PROVE  /\ AnswerTo(c, text).status = "unsupported"
                      /\ AnswerTo(c, text).evidence = <<>> /\ AnswerTo(c, text).text = <<>>
                      /\ AnswerTo(c, text).says = {"not_implemented"} \ lost
    OBVIOUS
  <2>1. Route(Heard(c.question)) = "unsupported"
    BY <1>1 DEF Intended
  <2> QED
    BY <2>1, UnsupportedFacts DEF AnswerTo
<1> QED
  BY <1>2, <1>3, <1>4, <1>5, <1>6

(* What the answers to the MVP questions depend on in any build. *)
LEMMA BillAnswers ==
  ASSUME NEW c, c.feature = "latest_bill", Routed(c), NEW text
  PROVE  LET answer == AnswerTo(c, text)
             kept == Keeps(BillChecks(BillOf(c.scenario)))
         IN  /\ answer.status = IF c.scenario # "missing" /\ kept THEN "grounded"
                                ELSE "unavailable"
             /\ answer.evidence = IF c.scenario # "missing" /\ kept THEN <<"bill">> ELSE <<>>
             /\ c.scenario # "missing" /\ kept =>
                  answer.says = {"JPY", "the_period", "the_items"} \ lost
             /\ ~(c.scenario # "missing" /\ kept) => "JPY" \notin answer.says
<1>1. AnswerTo(c, text) = BillAnswer(DataOf(c))
  BY RoutedAnswers
<1>2. DataOf(c).bill = BillOf(c.scenario)
  BY DataFacts
<1>3. (BillOf(c.scenario) = NoData) <=> (c.scenario = "missing")
  BY FakesHaveData
<1> QED
  BY <1>1, <1>2, <1>3, BillFacts

LEMMA ChargeAnswers ==
  ASSUME NEW c, c.feature = "unexpected_charge", c.scenario # "ambiguous", Routed(c), NEW text
  PROVE  LET answer == AnswerTo(c, text)
             item == RoamingItem(ApprovedBill)
             kept == Keeps(ChargeChecks(ApprovedBill, item, ChargeOf(c.scenario)))
         IN  /\ c.scenario = "missing" =>
                  /\ answer.status = "unavailable" /\ answer.evidence = <<"bill">>
                  /\ answer.says = {"JPY", "unavailable", "human_support"} \ lost
             /\ c.scenario # "missing" /\ kept =>
                  /\ answer.status = "grounded" /\ answer.evidence = <<"bill", "charge">>
                  /\ answer.says = {"JPY", "the_location", "the_service",
                                    "automatically_activated"} \ lost
             /\ c.scenario # "missing" /\ ~kept =>
                  /\ answer.status = "unavailable" /\ answer.evidence = <<"bill", "charge">>
                  /\ answer.says = {"human_support"} \ lost
<1>1. AnswerTo(c, text) = ChargeAnswer(DataOf(c))
  BY RoutedAnswers
<1>2. DataOf(c).bill = ApprovedBill /\ DataOf(c).charge = ChargeOf(c.scenario)
  BY DataFacts
<1>3. (ChargeOf(c.scenario) = NoData) <=> (c.scenario = "missing")
  BY FakesHaveData
<1>4. ApprovedBill # NoData /\ Keeps(BillChecks(ApprovedBill)) /\ HasRoaming(ApprovedBill)
  <2>1. BillOf("approved") = ApprovedBill /\ "approved" # "missing"
    BY FakesHaveData
  <2>2. Keeps(BillChecks(BillOf("approved")))
    BY BillKept
  <2> QED
    BY <2>1, <2>2, ApprovedRoaming, FakesHaveData
<1> DEFINE answer == AnswerTo(c, text)
           data == DataOf(c)
<1>5. answer = ChargeAnswer(data) /\ data.bill = ApprovedBill /\ data.charge = ChargeOf(c.scenario)
  BY <1>1, <1>2
<1> HIDE DEF answer, data
<1> QED
  BY <1>3, <1>4, <1>5, ChargeFacts DEF answer

LEMMA ComparisonAnswers ==
  ASSUME NEW c, c.feature = "plan_comparison", Routed(c), NEW text
  PROVE  LET answer == AnswerTo(c, text)
             kept == Keeps(ComparisonChecks(ApprovedPlan, CatalogOf(c.scenario), August(29)))
             compared == c.scenario # "missing_current" /\ kept
         IN  /\ compared =>
                  /\ answer.status = "grounded" /\ answer.evidence = <<"comparison">>
                  /\ answer.says = {"JPY", "the_offers", "eligibility_is_not_verified"} \ lost
             /\ ~compared =>
                  /\ answer.status = "unavailable" /\ answer.evidence = <<>>
                  /\ answer.says = {"human_support"} \ lost
<1>1. AnswerTo(c, text) = CompareAnswer(DataOf(c))
  BY RoutedAnswers
<1>2. /\ DataOf(c).plan = IF c.scenario = "missing_current" THEN NoData ELSE ApprovedPlan
      /\ DataOf(c).catalog = CatalogOf(c.scenario)
  BY DataFacts
<1>3. ApprovedPlan # NoData /\ CatalogOf(c.scenario) # NoData
  BY FakesHaveData
<1> QED
  BY <1>1, <1>2, <1>3, CompareFacts

(* The MVP gate finds every loss that it probes. *)
LEMMA MvpPassed ==
  ASSUME GradedInv, exit = "0", suite = "mvp"
  PROVE  lost \cap Probed = {} /\ ~({"codes", "names"} \subseteq lost)
<1>1. Cases = MvpCases
  BY DEF Cases
<1>2. ASSUME NEW feature, NEW scenario,
             \E i \in DOMAIN MvpCases : /\ MvpCases[i].group = "safety"
                                       /\ MvpCases[i].feature = feature
                                       /\ MvpCases[i].scenario = scenario
      PROVE  \E c \in Range(MvpCases) :
               /\ c.group = "safety" /\ c.feature = feature /\ c.scenario = scenario
               /\ Passed(c, NoData)
  <2>1. PICK i \in DOMAIN MvpCases : /\ MvpCases[i].group = "safety"
                                    /\ MvpCases[i].feature = feature
                                    /\ MvpCases[i].scenario = scenario
    BY <1>2
  <2>2. MvpCases[i] \in Range(MvpCases) /\ MvpCases[i].feature # "current_plan"
    <3>1. MvpCases[i] \in Range(MvpCases)
      BY DEF Range
    <3> QED
      BY <3>1, CasesAssumption
  <2>3. PICK text \in TextsOf(MvpCases[i]) : Passed(MvpCases[i], text)
    BY <1>1, <2>1, SafetyPassed
  <2>4. text = NoData
    BY <2>2, <2>3 DEF TextsOf
  <2> QED
    BY <2>1, <2>2, <2>3, <2>4
<1>3. ASSUME NEW feature,
             \E i \in DOMAIN MvpCases : /\ MvpCases[i].group = "routine"
                                       /\ MvpCases[i].feature = feature
      PROVE  \E c \in Range(MvpCases) :
               /\ c.group = "routine" /\ c.feature = feature
               /\ Passed(c, NoData)
  <2>1. PICK i \in DOMAIN MvpCases : MvpCases[i].group = "routine" /\ MvpCases[i].feature = feature
    BY <1>3
  <2>2. PICK j \in Routine(feature) : \E text \in TextsOf(Cases[j]) : Passed(Cases[j], text)
    BY <1>1, <2>1, RoutinePassed
  <2>3. j \in DOMAIN MvpCases /\ MvpCases[j].group = "routine" /\ MvpCases[j].feature = feature
    BY <1>1, <2>2 DEF Routine
  <2>4. MvpCases[j] \in Range(MvpCases) /\ MvpCases[j].feature # "current_plan"
    <3>1. MvpCases[j] \in Range(MvpCases)
      BY <2>3 DEF Range
    <3> QED
      BY <3>1, CasesAssumption
  <2>5. PICK text \in TextsOf(MvpCases[j]) : Passed(MvpCases[j], text)
    BY <1>1, <2>2
  <2>6. text = NoData
    BY <2>4, <2>5 DEF TextsOf
  <2> QED
    BY <2>3, <2>4, <2>5, <2>6
<1>4. ASSUME NEW probe \in
               {<<"latest_bill", "nonreconciling">>, <<"unexpected_charge", "stale">>,
                <<"unexpected_charge", "conflicting">>, <<"unexpected_charge", "ambiguous">>,
                <<"conversation_history", "missing_authentication">>,
                <<"conversation_history", "missing">>, <<"escalation", "invalid_reason">>,
                <<"escalation", "cross_customer">>, <<"escalation", "provider_failure">>,
                <<"plan_comparison", "stale_catalog">>,
                <<"plan_comparison", "conflicting_catalog">>,
                <<"plan_comparison", "eligibility_disclosure">>}
      PROVE  \E c \in Range(MvpCases) :
               /\ c.group = "safety" /\ c.feature = probe[1] /\ c.scenario = probe[2]
               /\ Passed(c, NoData)
  <2>1. \E i \in DOMAIN MvpCases : /\ MvpCases[i].group = "safety"
                                   /\ MvpCases[i].feature = probe[1]
                                   /\ MvpCases[i].scenario = probe[2]
    BY ProbesAssumption
  <2> DEFINE feature == probe[1]
             scenario == probe[2]
  <2>2. \E i \in DOMAIN MvpCases : /\ MvpCases[i].group = "safety"
                                   /\ MvpCases[i].feature = feature
                                   /\ MvpCases[i].scenario = scenario
    BY <2>1
  <2> HIDE DEF feature, scenario
  <2>3. \E c \in Range(MvpCases) :
          /\ c.group = "safety" /\ c.feature = feature /\ c.scenario = scenario
          /\ Passed(c, NoData)
    BY <1>2, <2>2
  <2> QED
    BY <2>3 DEF feature, scenario
<1>5. ASSUME NEW c, NEW phrase, phrase \in AnswerTo(c, NoData).says PROVE phrase \notin lost
  BY <1>5, SaidIsKept
<1>6. "sum" \notin lost
  <2>1. PICK c \in Range(MvpCases) :
          /\ c.group = "safety" /\ c.feature = "latest_bill" /\ c.scenario = "nonreconciling"
          /\ Passed(c, NoData)
    BY <1>4
  <2>2. Routed(c) /\ AnswerTo(c, NoData).status = "unavailable"
    BY <2>1 DEF Passed, Asks, Passes, GradeBill
  <2>3. ~Keeps(BillChecks(BillOf("nonreconciling")))
    BY <2>1, <2>2, BillAnswers
  <2> QED
    BY <2>3, BillKept
<1>7. "state" \notin lost
  <2>1. PICK c \in Range(MvpCases) :
          /\ c.group = "safety" /\ c.feature = "unexpected_charge" /\ c.scenario = "stale"
          /\ Passed(c, NoData)
    BY <1>4
  <2>2. Routed(c) /\ AnswerTo(c, NoData).status = "unavailable"
    BY <2>1 DEF Passed, Asks, Passes, GradeCharge
  <2>3. ~Keeps(ChargeChecks(ApprovedBill, RoamingItem(ApprovedBill), ChargeOf("stale")))
    BY <2>1, <2>2, ChargeAnswers
  <2> QED
    BY <2>3, ChargeKept
<1>8. "same_amount" \notin lost
  <2>1. PICK c \in Range(MvpCases) :
          /\ c.group = "safety" /\ c.feature = "unexpected_charge" /\ c.scenario = "conflicting"
          /\ Passed(c, NoData)
    BY <1>4
  <2>2. Routed(c) /\ AnswerTo(c, NoData).status = "unavailable"
    BY <2>1 DEF Passed, Asks, Passes, GradeCharge
  <2>3. ~Keeps(ChargeChecks(ApprovedBill, RoamingItem(ApprovedBill), ChargeOf("conflicting")))
    BY <2>1, <2>2, ChargeAnswers
  <2> QED
    BY <2>3, ChargeKept
<1>9. "Which_line_item" \notin lost
  <2>1. PICK c \in Range(MvpCases) :
          /\ c.group = "safety" /\ c.feature = "unexpected_charge" /\ c.scenario = "ambiguous"
          /\ Passed(c, NoData)
    BY <1>4
  <2>2. "Which_line_item" \in AnswerTo(c, NoData).says
    BY <2>1 DEF Passed, Passes, GradeCharge
  <2> QED
    BY <1>5, <2>2
<1>10. "token" \notin lost
  <2>1. PICK c \in Range(MvpCases) :
          /\ c.feature = "conversation_history" /\ c.scenario = "missing_authentication"
          /\ Passed(c, NoData)
    BY <1>4
  <2> QED
    BY <2>1 DEF Passed, Passes, GradeHistory
<1>11. "history_found" \notin lost
  <2>1. PICK c \in Range(MvpCases) :
          /\ c.feature = "conversation_history" /\ c.scenario = "missing"
          /\ Passed(c, NoData)
    BY <1>4
  <2> QED
    BY <2>1 DEF Passed, Passes, GradeHistory
<1>12. "reason" \notin lost
  <2>1. PICK c \in Range(MvpCases) :
          /\ c.feature = "escalation" /\ c.scenario = "invalid_reason"
          /\ Passed(c, NoData)
    BY <1>4
  <2> QED
    BY <2>1 DEF Passed, Passes, GradeEscalation
<1>13. "escalation_found" \notin lost
  <2>1. PICK c \in Range(MvpCases) :
          /\ c.feature = "escalation" /\ c.scenario = "cross_customer"
          /\ Passed(c, NoData)
    BY <1>4
  <2> QED
    BY <2>1 DEF Passed, Passes, GradeEscalation
<1>14. "failed" \notin lost
  <2>1. PICK c \in Range(MvpCases) :
          /\ c.feature = "escalation" /\ c.scenario = "provider_failure"
          /\ Passed(c, NoData)
    BY <1>4
  <2> QED
    BY <2>1 DEF Passed, Passes, GradeEscalation
<1>15. "freshness" \notin lost /\ "human_support" \notin lost
  <2>1. PICK c \in Range(MvpCases) :
          /\ c.group = "safety" /\ c.feature = "plan_comparison" /\ c.scenario = "stale_catalog"
          /\ Passed(c, NoData)
    BY <1>4
  <2>2. /\ Routed(c) /\ AnswerTo(c, NoData).status = "unavailable"
        /\ "human_support" \in AnswerTo(c, NoData).says
    BY <2>1 DEF Passed, Asks, Passes, GradeComparison
  <2>3. ~Keeps(ComparisonChecks(ApprovedPlan, CatalogOf("stale_catalog"), August(29)))
    BY <2>1, <2>2, ComparisonAnswers
  <2> QED
    BY <1>5, <2>2, <2>3, ComparisonKept
<1>16. ~({"codes", "names"} \subseteq lost)
  <2>1. PICK c \in Range(MvpCases) :
          /\ c.group = "safety" /\ c.feature = "plan_comparison"
          /\ c.scenario = "conflicting_catalog"
          /\ Passed(c, NoData)
    BY <1>4
  <2>2. Routed(c) /\ AnswerTo(c, NoData).status = "unavailable"
    BY <2>1 DEF Passed, Asks, Passes, GradeComparison
  <2>3. ~Keeps(ComparisonChecks(ApprovedPlan, CatalogOf("conflicting_catalog"), August(29)))
    BY <2>1, <2>2, ComparisonAnswers
  <2> QED
    BY <2>3, ComparisonKept
<1>17. "eligibility_is_not_verified" \notin lost
  <2>1. PICK c \in Range(MvpCases) :
          /\ c.feature = "plan_comparison" /\ c.scenario = "eligibility_disclosure"
          /\ Passed(c, NoData)
    BY <1>4
  <2>2. "eligibility_is_not_verified" \in AnswerTo(c, NoData).says
    BY <2>1 DEF Passed, Passes, GradeComparison
  <2> QED
    BY <1>5, <2>2
<1>18. "JPY" \notin lost /\ "the_period" \notin lost /\ "the_items" \notin lost
  <2>1. PICK c \in Range(MvpCases) :
          /\ c.group = "routine" /\ c.feature = "latest_bill" /\ Passed(c, NoData)
    BY <1>3, ProbesAssumption
  <2>2. {"JPY", "the_period", "the_items"} \subseteq AnswerTo(c, NoData).says
    BY <2>1 DEF Passed, Passes, GradeBill
  <2> QED
    BY <1>5, <2>2
<1>19. "the_location" \notin lost /\ "the_service" \notin lost
  <2>1. PICK c \in Range(MvpCases) :
          /\ c.group = "routine" /\ c.feature = "unexpected_charge"
          /\ Passed(c, NoData)
    BY <1>3, ProbesAssumption
  <2>2. {"JPY", "the_location", "the_service"} \subseteq AnswerTo(c, NoData).says
    BY <2>1 DEF Passed, Passes, GradeCharge
  <2> QED
    BY <1>5, <2>2
<1>20. "the_offers" \notin lost
  <2>1. PICK c \in Range(MvpCases) :
          /\ c.group = "routine" /\ c.feature = "plan_comparison"
          /\ Passed(c, NoData)
    BY <1>3, ProbesAssumption
  <2>2. {"JPY", "the_offers"} \subseteq AnswerTo(c, NoData).says
    BY <2>1 DEF Passed, Passes, GradeComparison
  <2> QED
    BY <1>5, <2>2
<1>21. "queued" \notin lost
  <2>1. PICK c \in Range(MvpCases) :
          /\ c.group = "routine" /\ c.feature = "escalation" /\ Passed(c, NoData)
    BY <1>3, ProbesAssumption
  <2>2. c.scenario \in {"queued", "trimmed", "status", "context", "empty"}
    BY <2>1, ExpectationsAssumption
  <2> QED
    BY <2>1, <2>2 DEF Passed, Passes, GradeEscalation
<1> QED
  BY <1>6, <1>7, <1>8, <1>9, <1>10, <1>11, <1>12, <1>13, <1>14, <1>15, <1>16, <1>17, <1>18,
     <1>19, <1>20, <1>21 DEF Probed

(* So does the current-plan gate. *)
LEMMA PlanPassed ==
  ASSUME GradedInv, exit = "0", suite = "current_plan"
  PROVE  lost \cap Probed = {}
<1>1. Cases = PlanCases
  BY DEF Cases
<1>2. ASSUME NEW i \in DOMAIN PlanCases
      PROVE  PlanCases[i] \in Range(PlanCases) /\ PlanCases[i].feature = "current_plan"
  <2>1. PlanCases[i] \in Range(PlanCases)
    BY DEF Range
  <2> QED
    BY <2>1, CasesAssumption
<1>3. ASSUME NEW term,
             \E i \in DOMAIN PlanCases : /\ PlanCases[i].group = "safety"
                                        /\ ~PlanCases[i].safe /\ term \in PlanCases[i].terms
      PROVE  term \notin lost
  <2>1. PICK i \in DOMAIN PlanCases : /\ PlanCases[i].group = "safety"
                                     /\ ~PlanCases[i].safe /\ term \in PlanCases[i].terms
    BY <1>3
  <2>2. PICK text \in TextsOf(PlanCases[i]) : Passed(PlanCases[i], text)
    BY <1>1, <2>1, SafetyPassed
  <2>3. GradePlan(PlanCases[i], AnswerTo(PlanCases[i], text))
    BY <1>2, <2>2 DEF Passed, Passes
  <2>4. term \in AnswerTo(PlanCases[i], text).says
    BY <2>1, <2>3 DEF GradePlan
  <2> QED
    BY <2>4, SaidIsKept
<1>4. ASSUME NEW writes \in {"extra_numeric", "missing_fact"}
      PROVE  /\ ~Keeps(OutputChecks(Written(writes), Facts(ApprovedPlan)))
             /\ "a_grounded_answer" \notin lost
  <2>1. PICK i \in DOMAIN PlanCases : /\ PlanCases[i].group = "safety"
                                     /\ PlanCases[i].writes = writes /\ PlanCases[i].available
                                     /\ PlanCases[i].expected = "unavailable"
                                     /\ ~PlanCases[i].live /\ ~PlanCases[i].safe
                                     /\ "a_grounded_answer" \in PlanCases[i].terms
    BY ProbesAssumption
  <2> DEFINE c == PlanCases[i]
  <2>2. PICK text \in TextsOf(c) : Passed(c, text)
    BY <1>1, <2>1, SafetyPassed
  <2>3. c.feature = "current_plan" /\ text = Written(writes)
    BY <1>2, <2>1, <2>2 DEF TextsOf
  <2>4. GradePlan(c, AnswerTo(c, text)) /\ Routed(c)
    BY <2>2, <2>3 DEF Passed, Passes, Asks
  <2>5. AnswerTo(c, text) = PlanAnswer(DataOf(c), text)
    BY <2>1, <2>3, <2>4, RoutedAnswers
  <2>6. DataOf(c).plan = ApprovedPlan /\ ApprovedPlan # NoData
    BY <2>1, <2>3, DataFacts, FakesHaveData
  <2>7. AnswerTo(c, text).status = "unavailable"
    BY <2>1, <2>4 DEF GradePlan
  <2> HIDE DEF c
  <2> QED
    BY <1>3, <2>1, <2>3, <2>5, <2>6, <2>7, PlanFacts DEF c
<1>5. "values" \notin lost /\ "numbers" \notin lost /\ "a_grounded_answer" \notin lost
  BY <1>4, OutputKept
<1>6. "unavailable" \notin lost /\ "human_support" \notin lost /\ "not_implemented" \notin lost
  BY <1>3, ProbesAssumption
<1> QED
  BY <1>5, <1>6 DEF Probed

-----------------------------------------------------------------------------
(* A build that has all that is probed is released *)

(* Every routine answer of a build that routes the MVP questions right and *)
(* has all that is probed is graded as passed, and so is every refusal,    *)
(* except that a reason may not be trimmed.                                *)
LEMMA MvpPasses ==
  ASSUME suite = "mvp", lost \cap Probed = {}, ~({"codes", "names"} \subseteq lost),
         NEW c \in Range(MvpCases), Heard(c.question) = c.question
  PROVE  /\ TextsOf(c) = {NoData} /\ ~DiesOn(c, NoData)
         /\ \/ Passes(c, AnswerTo(c, NoData))
            \/ c.feature = "escalation" /\ c.group = "routine" /\ c.scenario = "trimmed"
<1> DEFINE answer == AnswerTo(c, NoData)
<1>1. /\ c.feature \in {"latest_bill", "unexpected_charge", "conversation_history",
                        "escalation", "plan_comparison"}
      /\ Asks(c) /\ c.group = "routine" => c.scenario \in {"approved", "available"}
  BY CasesAssumption
<1>2. c \in AllCases /\ c.group \in {"routine", "safety"}
  BY CasesAssumption DEF AllCases
<1>3. /\ lost \cap {"sum", "state", "same_amount", "freshness"} = {}
      /\ lost \cap {"token", "history_found", "reason", "escalation_found", "failed",
                    "queued"} = {}
      /\ lost \cap {"human_support", "Which_line_item", "eligibility_is_not_verified", "JPY",
                    "the_period", "the_items", "the_location", "the_service", "the_offers"} = {}
  BY DEF Probed
<1>4. TextsOf(c) = {NoData}
  BY <1>1 DEF TextsOf
<1>5. Asks(c) => Routed(c)
  BY <1>2, QuestionAssumption DEF Routed
<1>6. ~DiesOn(c, NoData)
  <2>1. CASE Asks(c)
    <3>1. Intended(c) # "current_plan"
      BY <1>1 DEF Intended
    <3> QED
      BY <1>5, <2>1, <3>1 DEF DiesOn, Crashes, Routed
  <2>2. CASE ~Asks(c)
    <3>1. DataOf(c).plan = NoData
      BY <2>2 DEF Asks, DataOf, Nothing
    <3> QED
      BY <3>1 DEF DiesOn, Crashes
  <2> QED
    BY <2>1, <2>2
<1>7. CASE c.feature = "latest_bill"
  <2>1. Routed(c)
    BY <1>5, <1>7 DEF Asks
  <2> DEFINE kept == Keeps(BillChecks(BillOf(c.scenario)))
  <2>2. CASE c.group = "routine"
    <3>1. c.scenario \in {"approved", "available"}
      BY <1>1, <1>7, <2>2 DEF Asks
    <3>2. kept
      BY <3>1, BillKept
    <3> HIDE DEF kept
    <3>3. /\ answer.status = "grounded" /\ answer.evidence = <<"bill">>
          /\ answer.says = {"JPY", "the_period", "the_items"} \ lost
      BY <1>7, <2>1, <3>1, <3>2, BillAnswers DEF kept
    <3>4. GradeBill(c, answer)
      BY <1>3, <2>2, <3>3 DEF GradeBill
    <3> QED
      BY <1>4, <1>6, <1>7, <3>4 DEF Passes
  <2>3. CASE c.group = "safety"
    <3>1. c.scenario \in {"missing", "empty", "nonreconciling", "negative"}
      BY <1>7, <2>3, ExpectationsAssumption
    <3>2. c.scenario # "missing" => ~kept
      BY <1>3, <3>1, BillKept
    <3> HIDE DEF kept
    <3>3. /\ answer.status = "unavailable" /\ answer.evidence = <<>>
          /\ "JPY" \notin answer.says
      BY <1>7, <2>1, <3>2, BillAnswers DEF kept
    <3>4. GradeBill(c, answer)
      BY <2>3, <3>3 DEF GradeBill
    <3> QED
      BY <1>4, <1>6, <1>7, <3>4 DEF Passes
  <2> QED
    BY <1>2, <2>2, <2>3
<1>8. CASE c.feature = "unexpected_charge"
  <2>1. Routed(c)
    BY <1>5, <1>8 DEF Asks
  <2>2. GradeCharge(c, answer)
    <3>1. CASE c.group = "routine"
      <4>1. c.scenario \in {"approved", "available"}
        BY <1>1, <1>8, <3>1 DEF Asks
      <4>2. Keeps(ChargeChecks(ApprovedBill, RoamingItem(ApprovedBill), ChargeOf(c.scenario)))
        BY <4>1, ChargeKept
      <4>3. /\ answer.status = "grounded" /\ answer.evidence = <<"bill", "charge">>
            /\ answer.says = {"JPY", "the_location", "the_service",
                              "automatically_activated"} \ lost
        BY <1>8, <2>1, <4>1, <4>2, ChargeAnswers
      <4> QED
        BY <1>3, <3>1, <4>3 DEF GradeCharge
    <3>2. CASE c.group = "safety" /\ c.scenario = "ambiguous"
      <4>1. answer = Unavailable(<<>>, {"Which_line_item"})
        BY <1>8, <2>1, <3>2, RoutedAnswers
      <4> QED
        BY <1>3, <3>2, <4>1, AmbiguousFacts DEF GradeCharge
    <3>3. CASE c.group = "safety" /\ c.scenario = "missing"
      <4>1. /\ answer.status = "unavailable" /\ answer.evidence = <<"bill">>
            /\ answer.says = {"JPY", "unavailable", "human_support"} \ lost
        BY <1>8, <2>1, <3>3, ChargeAnswers
      <4> QED
        BY <3>3, <4>1, EvidenceTells DEF GradeCharge
    <3>4. CASE c.group = "safety" /\ c.scenario \in {"stale", "conflicting"}
      <4>1. ~Keeps(ChargeChecks(ApprovedBill, RoamingItem(ApprovedBill), ChargeOf(c.scenario)))
        BY <1>3, <3>4, ChargeKept
      <4>2. /\ answer.status = "unavailable" /\ answer.evidence = <<"bill", "charge">>
            /\ answer.says = {"human_support"} \ lost
        BY <1>8, <2>1, <3>4, <4>1, ChargeAnswers
      <4> QED
        BY <3>4, <4>2, EvidenceTells DEF GradeCharge
    <3>5. c.group = "safety" => c.scenario \in {"missing", "stale", "conflicting", "ambiguous"}
      BY <1>8, ExpectationsAssumption
    <3> QED
      BY <1>2, <3>1, <3>2, <3>3, <3>4, <3>5
  <2> QED
    BY <1>4, <1>6, <1>8, <2>2 DEF Passes
<1>9. CASE c.feature = "plan_comparison"
  <2>1. Routed(c)
    BY <1>5, <1>9 DEF Asks
  <2> DEFINE kept == Keeps(ComparisonChecks(ApprovedPlan, CatalogOf(c.scenario), August(29)))
  <2>2. GradeComparison(c, answer)
    <3>1. CASE c.group = "routine" \/ c.scenario = "eligibility_disclosure"
      <4>1. c.scenario \in {"approved", "available", "eligibility_disclosure"}
        BY <1>1, <1>9, <3>1 DEF Asks
      <4>2. kept
        BY <4>1, ComparisonKept
      <4>3. /\ answer.status = "grounded" /\ answer.evidence = <<"comparison">>
            /\ answer.says = {"JPY", "the_offers", "eligibility_is_not_verified"} \ lost
        BY <1>9, <2>1, <4>1, <4>2, ComparisonAnswers
      <4> QED
        BY <1>3, <3>1, <4>3 DEF GradeComparison
    <3>2. CASE c.group = "safety" /\ c.scenario # "eligibility_disclosure"
      <4>1. c.scenario \in {"missing_current", "stale_catalog", "conflicting_catalog"}
        BY <1>9, <3>2, ExpectationsAssumption
      <4>2. c.scenario # "missing_current" => ~kept
        BY <1>3, <4>1, ComparisonKept
      <4>3. /\ answer.status = "unavailable" /\ answer.evidence = <<>>
            /\ answer.says = {"human_support"} \ lost
        BY <1>9, <2>1, <4>2, ComparisonAnswers
      <4> QED
        BY <1>3, <3>2, <4>3 DEF GradeComparison
    <3> QED
      BY <1>2, <3>1, <3>2
  <2> QED
    BY <1>4, <1>6, <1>9, <2>2 DEF Passes
<1>10. CASE c.feature = "conversation_history"
  BY <1>3, <1>4, <1>6, <1>10 DEF Passes, GradeHistory
<1>11. CASE c.feature = "escalation"
  <2>1. IF c.group = "safety"
        THEN c.scenario \in {"invalid_reason", "duplicate", "cross_customer", "provider_failure"}
        ELSE c.scenario \in {"queued", "trimmed", "status", "context", "empty"}
    BY <1>11, ExpectationsAssumption
  <2> QED
    BY <1>2, <1>3, <1>4, <1>6, <1>11, <2>1 DEF Passes, GradeEscalation
<1> QED
  BY <1>1, <1>7, <1>8, <1>9, <1>10, <1>11

(* The same for the questions about the current plan.                      *)
LEMMA PlanPasses ==
  ASSUME suite = "current_plan", mode = "offline", lost \cap Probed = {},
         NEW c \in Range(PlanCases), Heard(c.question) = c.question,
         NEW text \in TextsOf(c)
  PROVE  ~DiesOn(c, text) /\ Passes(c, AnswerTo(c, text))
<1> DEFINE answer == AnswerTo(c, text)
<1>1. /\ c.feature = "current_plan"
      /\ c.expected \in {"grounded", "unavailable", "unsupported"}
      /\ c.safe => c.expected = "grounded"
  BY CasesAssumption
<1>2. c \in AllCases
  BY DEF AllCases
<1>3. lost \cap {"values", "numbers", "unavailable", "human_support", "a_grounded_answer",
                 "not_implemented"} = {}
  BY DEF Probed
<1>4. text = Written(c.writes)
  BY <1>1 DEF TextsOf
<1>5. Routed(c)
  BY <1>1, <1>2, QuestionAssumption DEF Routed, Asks
<1>6. DataOf(c).plan = IF c.available THEN ApprovedPlan ELSE NoData
  BY <1>1, DataFacts
<1>7. ApprovedPlan # NoData
  BY FakesHaveData
<1>8. SUFFICES ~DiesOn(c, text) /\ GradePlan(c, answer)
  BY <1>1 DEF Passes
<1>9. \A phrase \in c.forbidden : /\ ~States(<<>>, phrase)
                                  /\ c.expected = "grounded" =>
                                       ~States(Written("canonical"), phrase)
  BY ExpectationsAssumption
<1>10. c.expected # "unsupported" => answer = PlanAnswer(DataOf(c), text)
  BY <1>1, <1>5, RoutedAnswers
<1>11. CASE c.expected = "grounded"
  <2>1. c.available /\ c.writes = "canonical" /\ c.terms = {}
    BY <1>11, ExpectationsAssumption
  <2>2. Keeps(OutputChecks(text, Facts(ApprovedPlan))) /\ StatesAll(text, Facts(ApprovedPlan))
    BY <1>4, <2>1, OutputKept
  <2>3. answer.status = "grounded" /\ answer.evidence = <<"plan">> /\ answer.text = text
    BY <1>6, <1>7, <1>10, <1>11, <2>1, <2>2, PlanFacts
  <2>4. text # NoData
    BY <1>4, <2>1, NoDataAssumption
  <2>5. ~DiesOn(c, text)
    BY <2>4 DEF DiesOn, Crashes
  <2> HIDE DEF answer
  <2> QED
    BY <1>4, <1>9, <1>11, <2>1, <2>2, <2>3, <2>5, EvidenceTells DEF GradePlan
<1>12. CASE c.expected = "unavailable" /\ c.available
  <2>1. /\ c.writes \in {"extra_numeric", "missing_fact"}
        /\ c.terms \subseteq {"a_grounded_answer", "human_support"}
    BY <1>12, ExpectationsAssumption
  <2>2. ~Keeps(OutputChecks(text, Facts(ApprovedPlan)))
    BY <1>3, <1>4, <2>1, OutputKept
  <2>3. /\ answer.status = "unavailable" /\ answer.evidence = <<>> /\ answer.text = <<>>
        /\ answer.says = {"a_grounded_answer", "human_support"} \ lost
    BY <1>6, <1>7, <1>10, <1>12, <2>2, PlanFacts
  <2>4. text # NoData
    BY <1>4, <2>1, NoDataAssumption
  <2>5. ~DiesOn(c, text)
    BY <2>4 DEF DiesOn, Crashes
  <2> HIDE DEF answer
  <2> QED
    BY <1>1, <1>3, <1>9, <1>12, <2>1, <2>3, <2>5, EvidenceTells DEF GradePlan
<1>13. CASE c.expected = "unavailable" /\ ~c.available
  <2>1. c.terms \subseteq {"unavailable", "human_support"}
    BY <1>13, ExpectationsAssumption
  <2>2. DataOf(c).plan = NoData
    BY <1>6, <1>13
  <2>3. /\ answer.status = "unavailable" /\ answer.evidence = <<>> /\ answer.text = <<>>
        /\ answer.says = {"unavailable", "human_support"} \ lost
    BY <1>10, <1>13, <2>2, PlanFacts
  <2>4. ~DiesOn(c, text)
    BY <2>2 DEF DiesOn, Crashes
  <2> HIDE DEF answer
  <2> QED
    BY <1>1, <1>3, <1>9, <1>13, <2>1, <2>3, <2>4, EvidenceTells DEF GradePlan
<1>14. CASE c.expected = "unsupported"
  <2>1. c.terms \subseteq {"not_implemented"}
    BY <1>14, ExpectationsAssumption
  <2>2. /\ answer.status = "unsupported" /\ answer.evidence = <<>> /\ answer.text = <<>>
        /\ answer.says = {"not_implemented"} \ lost
    BY <1>1, <1>5, <1>14, RoutedAnswers
  <2>3. ~DiesOn(c, text)
    BY <1>1, <1>5, <1>14 DEF DiesOn, Crashes, Routed, Intended
  <2> HIDE DEF answer
  <2> QED
    BY <1>1, <1>3, <1>9, <1>14, <2>1, <2>2, <2>3, EvidenceTells DEF GradePlan
<1> QED
  BY <1>1, <1>11, <1>12, <1>13, <1>14

(* Four in five pass if at most one in five may fail. *)
LEMMA FourInFive ==
  ASSUME NEW all, IsFiniteSet(all), NEW spared \in SUBSET all, all \ passed \subseteq spared,
         5 * Cardinality(spared) <= Cardinality(all)
  PROVE  Reaches80(all)
<1>1. IsFiniteSet(all \ passed) /\ IsFiniteSet(all \cap passed) /\ IsFiniteSet(spared)
  BY FS_Difference, FS_Intersection, FS_Subset
<1>2. /\ Cardinality(all \ passed) = Cardinality(all) - Cardinality(all \cap passed)
      /\ Cardinality(all) \in Nat /\ Cardinality(all \cap passed) \in Nat
      /\ Cardinality(all \ passed) \in Nat /\ Cardinality(spared) \in Nat
  BY <1>1, FS_Difference, FS_CardinalityType
<1>3. Cardinality(all \ passed) <= Cardinality(spared)
  BY <1>1, FS_Subset
<1> QED
  BY <1>2, <1>3 DEF Reaches80

(* A gate that has refused a build offline had a reason. *)
LEMMA RefusedForCause ==
  ASSUME GradedInv, exit = "1", mode = "offline", lost \cap Probed = {},
         suite = "mvp" => ~({"codes", "names"} \subseteq lost),
         \A i \in DOMAIN Cases : Heard(Cases[i].question) = Cases[i].question
  PROVE  FALSE
<1> DEFINE trimmed == {i \in DOMAIN Cases : /\ Cases[i].feature = "escalation"
                                           /\ Cases[i].group = "routine"
                                           /\ Cases[i].scenario = "trimmed"}
<1>1. /\ suite \in {"mvp", "current_plan"} /\ DOMAIN Cases = 1 .. Count /\ Count \in Nat
      /\ \A i \in DOMAIN Cases : Cases[i] \in AllCases /\ Cases[i] \in Range(Cases)
  BY CasesAreSequences DEF GradedInv, Range
<1>2. ASSUME NEW i \in DOMAIN Cases, NEW text \in TextsOf(Cases[i])
      PROVE  /\ ~DiesOn(Cases[i], text)
             /\ Passes(Cases[i], AnswerTo(Cases[i], text)) \/ (suite = "mvp" /\ i \in trimmed)
  <2>1. CASE suite = "mvp"
    <3>1. Cases = MvpCases
      BY <2>1 DEF Cases
    <3>2. /\ TextsOf(Cases[i]) = {NoData} /\ ~DiesOn(Cases[i], NoData)
          /\ \/ Passes(Cases[i], AnswerTo(Cases[i], NoData))
             \/ /\ Cases[i].feature = "escalation" /\ Cases[i].group = "routine"
                /\ Cases[i].scenario = "trimmed"
      BY <1>1, <2>1, <3>1, MvpPasses
    <3> QED
      BY <1>2, <2>1, <3>2
  <2>2. CASE suite = "current_plan"
    <3>1. Cases = PlanCases
      BY <2>2 DEF Cases
    <3> QED
      BY <1>1, <1>2, <2>2, <3>1, PlanPasses
  <2> QED
    BY <1>1, <2>1, <2>2
<1>3. ~Deadly
  BY <1>2 DEF Deadly
<1>4. next = Count + 1 /\ ~ReleaseAllowed
  BY <1>3 DEF GradedInv
<1>5. \A i \in DOMAIN Cases : i \in passed \/ (suite = "mvp" /\ i \in trimmed)
  <2>1. \A i \in DOMAIN Cases : i \in passed \/ Failable(i)
    BY <1>1, <1>4 DEF GradedInv
  <2> HIDE DEF trimmed
  <2> QED
    BY <1>2, <2>1 DEF Failable
<1>6. Safety \subseteq passed
  BY <1>5 DEF Safety
<1>7. ASSUME NEW feature \in Features PROVE Reaches80(Routine(feature))
  <2> DEFINE all == Routine(feature)
             spared == all \cap trimmed
  <2>1. IsFiniteSet(all)
    <3>1. all \subseteq 1 .. Count
      BY <1>1 DEF Routine
    <3> QED
      BY <1>1, <3>1, FS_Interval, FS_Subset
  <2>2. CASE suite = "mvp" /\ feature = "escalation"
    <3>1. Cases = MvpCases
      BY <2>2 DEF Cases
    <3>2. /\ all = {i \in DOMAIN MvpCases : /\ MvpCases[i].feature = "escalation"
                                           /\ MvpCases[i].group = "routine"}
          /\ spared = {i \in all : MvpCases[i].scenario = "trimmed"}
      BY <2>2, <3>1 DEF Routine
    <3>3. 5 * Cardinality(spared) <= Cardinality(all)
      BY <3>2, ExpectationsAssumption
    <3>4. spared \in SUBSET all /\ all \ passed \subseteq spared
      BY <1>5 DEF Routine
    <3> HIDE DEF all, spared
    <3>5. Reaches80(all)
      BY <2>1, <3>3, <3>4, FourInFive
    <3> QED
      BY <3>5 DEF all
  <2>3. CASE ~(suite = "mvp" /\ feature = "escalation")
    <3>1. all \ passed \subseteq {}
      BY <1>5, <2>3 DEF Routine
    <3>2. Cardinality({}) = 0 /\ Cardinality(all) \in Nat /\ {} \in SUBSET all
      BY <2>1, FS_EmptySet, FS_CardinalityType
    <3> HIDE DEF all
    <3>3. 5 * Cardinality({}) <= Cardinality(all)
      BY <3>2
    <3>4. Reaches80(all)
      BY <2>1, <3>1, <3>2, <3>3, FourInFive
    <3> QED
      BY <3>4 DEF all
  <2> QED
    BY <2>2, <2>3
<1> QED
  BY <1>4, <1>6, <1>7 DEF ReleaseAllowed

(* A build that has lost any parts at all and is released has all that the *)
(* suite probes; one that is refused offline lacks some of it or does not  *)
(* know a keyword of one of the questions (the exit code of each gate).    *)
THEOREM GatesDecide == Spec => []GateDecidesRight
<1>1. GradedInv => GateDecidesRight
  <2> SUFFICES ASSUME GradedInv PROVE GateDecidesRight
    OBVIOUS
  <2>1. suite \in {"mvp", "current_plan"}
    BY DEF GradedInv
  <2>2. exit = "0" => /\ lost \cap Probed = {}
                      /\ suite = "mvp" => ~({"codes", "names"} \subseteq lost)
    BY <2>1, MvpPassed, PlanPassed
  <2>3. exit = "1" /\ mode = "offline" =>
          \/ lost \cap Probed # {}
          \/ suite = "mvp" /\ {"codes", "names"} \subseteq lost
          \/ \E i \in DOMAIN Cases : Heard(Cases[i].question) # Cases[i].question
    BY RefusedForCause
  <2> QED
    BY <2>2, <2>3 DEF GateDecidesRight
<1> QED
  BY <1>1, Invariance, PTL
=============================================================================
