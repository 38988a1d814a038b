--------------------------- MODULE GroundingGuard ---------------------------
(***************************************************************************)
(* The guard on the text a model writes about a plan                       *)
(* (services/send_support_message.py).  A text is a sequence of tokens; a  *)
(* token has letters and at most one number, as "20GB", "GB" and "4,500"   *)
(* have, a number with the punctuation that trails it cut off.             *)
(***************************************************************************)
EXTENDS Integers, Sequences, FiniteSets, Currency

CONSTANTS
  MaxText,         \* tokens of the longest text accepted (1000 characters in the code)
  TokenEndings,    \* <<token, tail>>: the token is longer and ends with the tail
  TokenBeginnings  \* <<token, head>>: the token is longer and begins with the head

Word(letters) == [letters |-> letters, number |-> {}]
Number(n) == [letters |-> Blank, number |-> {n}]

(* The four canonical values of a plan as a customer reads them: its name, *)
(* "20 GB", "JPY 4,500" and a date, which is a day number here.            *)
Facts(plan) == <<plan.name,
                 <<Number(plan.data), Word("GB")>>,
                 <<Word(plan.currency), Number(plan.charge)>>,
                 <<Word("date"), Number(plan.from)>>>>

(* value in content: a substring, which may begin and end inside a token,  *)
(* as "GB" in "GBs" and "4,500" in "4,5000".                               *)
States(text, value) ==
  \E at \in 0 .. Len(text) - Len(value) :
    \A i \in DOMAIN value :
      \/ text[at + i] = value[i]
      \/ i = 1 /\ <<text[at + i], value[i]>> \in TokenEndings
      \/ i = Len(value) /\ <<text[at + i], value[i]>> \in TokenBeginnings

StatesAll(text, values) == \A i \in DOMAIN values : States(text, values[i])

NumbersIn(text) == UNION {text[i].number : i \in DOMAIN text}

(* How often a text has the numeric token n. *)
Occurrences(text, n) == Cardinality({i \in DOMAIN text : n \in text[i].number})

(* How often the values have it. *)
Allowed(values, n) ==
  LET count[i \in 0 .. Len(values)] ==
        IF i = 0 THEN 0 ELSE count[i - 1] + Occurrences(values[i], n)
  IN  count[Len(values)]

OutputChecks(text, values) ==
  [length  |-> text # <<>> /\ Len(text) <= MaxText,
   values  |-> StatesAll(text, values),
   numbers |-> \A n \in NumbersIn(text) : Occurrences(text, n) <= Allowed(values, n)]

(* Error: the numbers of the text are not compared. *)
IsCompleteOutput(text, values) ==
  text # <<>> /\ Len(text) <= MaxText /\ StatesAll(text, values)

(* Error: the values may be missing. *)
HasNoOtherNumber(text, values) ==
  /\ text # <<>> /\ Len(text) <= MaxText
  /\ \A n \in NumbersIn(text) : Occurrences(text, n) <= Allowed(values, n)

IsGroundedOutput(text, values) == AllHold(OutputChecks(text, values))
=============================================================================
