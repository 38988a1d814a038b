---------------------------- MODULE IntentRouting ----------------------------
(***************************************************************************)
(* The keyword rules that find the intent of a question                    *)
(* (services/send_support_message.py).  A text is the sequence of its      *)
(* words, folded and without punctuation.  Some rules look for a word,     *)
(* others for a phrase anywhere in the joined text, so that a phrase is    *)
(* also found in "roaming charges" or in "unavailable plan".               *)
(***************************************************************************)
EXTENDS Integers, Sequences

CONSTANTS
  Numerals,   \* the words that contain a digit
  Endings,    \* <<word, tail>>: the word ends with the tail
  Beginnings  \* <<word, head>>: the word begins with the head

Words(text) == {text[i] : i \in DOMAIN text}

(* phrase in normalized *)
Mentions(text, phrase) ==
  \E at \in 0 .. Len(text) - Len(phrase) :
    \A i \in DOMAIN phrase :
      \/ text[at + i] = phrase[i]
      \/ i = 1 /\ <<text[at + i], phrase[i]>> \in Endings
      \/ i = Len(phrase) /\ <<text[at + i], phrase[i]>> \in Beginnings

MentionsOneOf(text, phrases) == \E phrase \in phrases : Mentions(text, phrase)

HasDigit(text) == Words(text) \cap Numerals # {}

DiagnosticWords == {"why", "higher", "unexpected", "wrong", "incorrect"}

IsDiagnostic(text) == Words(text) \cap DiagnosticWords # {}

IsCurrentPlanQuestion(text) ==
  \/ "plan" \in Words(text)
  \/ MentionsOneOf(text, {<<"data", "allowance">>, <<"how", "much", "data">>,
                          <<"monthly", "recurring", "charge">>,
                          <<"mobile", "package">>, <<"mobile", "service">>})

IsPlanComparisonQuestion(text) ==
  \/ /\ {"compare", "available"} \cap Words(text) # {}
     /\ {"plan", "plans"} \cap Words(text) # {}
  \/ MentionsOneOf(text, {<<"other", "plans">>, <<"plan", "options">>,
                          <<"available", "plan">>, <<"available", "plans">>})

IsLatestBillQuestion(text) ==
  /\ \/ {"bill", "invoice"} \cap Words(text) # {}
     \/ MentionsOneOf(text, {<<"billing", "period">>, <<"latest", "statement">>})
  /\ ~IsDiagnostic(text)

IsAmbiguousChargeQuestion(text) ==
  /\ Mentions(text, <<"this", "charge">>)
  /\ ~Mentions(text, <<"unexpected">>)
  /\ ~HasDigit(text)

IsUnexpectedChargeQuestion(text) ==
  \/ "unexpected" \in Words(text)
  \/ "bill" \in Words(text) /\ IsDiagnostic(text)
  \/ "charged" \in Words(text) /\ HasDigit(text)
  \/ Mentions(text, <<"roaming", "charge">>)
  \/ {"roaming", "recognize"} \subseteq Words(text)

Intents == {"comparison", "ambiguous_charge", "unexpected_charge", "latest_bill",
            "current_plan", "unsupported"}

(* Error: the rule of the current plan comes first. *)
RoutePlanFirst(text) ==
  IF IsCurrentPlanQuestion(text) THEN "current_plan"
  ELSE IF IsUnexpectedChargeQuestion(text) THEN "unexpected_charge"
  ELSE IF IsLatestBillQuestion(text) THEN "latest_bill"
  ELSE "unsupported"

(* The first rule that applies, in the order of execute. *)
Route(text) ==
  IF IsPlanComparisonQuestion(text) THEN "comparison"
  ELSE IF IsAmbiguousChargeQuestion(text) THEN "ambiguous_charge"
  ELSE IF IsUnexpectedChargeQuestion(text) THEN "unexpected_charge"
  ELSE IF IsLatestBillQuestion(text) THEN "latest_bill"
  ELSE IF IsCurrentPlanQuestion(text) THEN "current_plan"
  ELSE "unsupported"
=============================================================================
