------------------------------ MODULE FormKit ------------------------------
(***************************************************************************)
(* What the edit forms of the frontend have in common.  Every input holds  *)
(* a string in the program; here an empty input is Blank, a lone minus     *)
(* sign is Sign, an amount is an integer, and any other text or choice is  *)
(* a member of a small set.  None is null, in a body and in a row.         *)
(***************************************************************************)
EXTENDS Integers, FiniteSets, Sequences

CONSTANTS Blank,     \* the empty string of an input
          None,      \* null
          Sign,      \* "-", what a signed amount input holds before a digit
          Malformed, \* a text that its input should not take: decimals, no address
          TooBig,    \* an amount its column cannot hold
          Amounts    \* the amounts that are typed

(* The texts and choices that an input, a body or a row can hold in the    *)
(* place of a stand-in.                                                    *)
Texts == {"n", "m", "me", "you", "gone", "a", "b", "c", "x", "z", "p", "q", "r",
          "2024-01", "bullet", "food", "salary", "deposit", "old", "rent", "living",
          "cash", "credit_card", "debit_card", "d1", "d2", "00:00", "09:00",
          "a@", "b@", "c@"}

(* The stand-ins are none of these, no amounts and no truth values.        *)
ASSUME InputsAssumption ==
    /\ \A x \in {Blank, None, Sign, Malformed, TooBig} :
           x \notin Int /\ x \notin BOOLEAN /\ x \notin Texts
    /\ Blank \notin {None, Sign, Malformed, TooBig} /\ None \notin {Sign, Malformed, TooBig}

ASSUME AmountsAssumption == Amounts \subseteq Nat

(* A name that is in use, a new one, and the empty one. *)
Names == {"n", "m"}
TypedNames == Names \cup {Blank}

(* Both members; "gone" is a removed one that old rows still name. *)
Members == {"me", "you"}
Owners == Members \cup {"gone", None}

(* What one edit can leave in an amount input: nothing, an amount, one the *)
(* column cannot hold, and, where a minus is allowed, a negative amount or *)
(* the sign alone.                                                         *)
TypedAmounts == {Blank, TooBig} \cup Amounts
TypedSigned == TypedAmounts \cup {Sign} \cup {-a : a \in Amounts}

(* `x || null`, and `x ?? ""` on the way back. *)
OrNone(x) == IF x = Blank THEN None ELSE x
OrBlank(x) == IF x = None THEN Blank ELSE x

(* _blank_to_zero. *)
Won(a) == IF a = Blank THEN 0 ELSE a

(* KrwAmount and KrwBalance; SignedKrwBalance. *)
AmountFits(a) == a = Blank \/ a \in Nat
SignedFits(a) == a = Blank \/ a \in Int

(* `KrwBalance | None` where the form sends null for an empty input. *)
OptAmountFits(a) == a = None \/ AmountFits(a)

(* The drafts that one onChange reaches: d with input k holding a v of S.  *)
Put(d, k, S) == {[d EXCEPT ![k] = v] : v \in S \ {d[k]}}
=============================================================================
