------------------------------ MODULE Currency ------------------------------
(* Shared by the checks on plans, bills, charges and generated texts, each *)
(* a record with a truth value for every condition, by name, and by what   *)
(* the columns of their snapshots can hold.                                *)
EXTENDS Integers

CONSTANTS
  Currencies,    \* the codes of three characters: len(currency) == 3
  LongCodes,     \* texts a code's column refuses: over 64 characters
  LongVersions,  \* texts a source_version's refuses: over 128 characters
  MoneyLimit,    \* an amount this high overflows Numeric(12, 2): 10^10 in the code
  CountLimit     \* a data allowance this high overflows Integer: 2^31 in the code

Blank == ""   \* what is left of a blank text without its spaces

FitsCode(text) == text \notin LongCodes
FitsVersion(text) == text \notin LongVersions
FitsMoney(amount) == amount < MoneyLimit
FitsCount(number) == number < CountLimit

AllHold(checks) == \A name \in DOMAIN checks : checks[name]
=============================================================================
