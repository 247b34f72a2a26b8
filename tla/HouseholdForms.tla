--------------------------- MODULE HouseholdForms ---------------------------
(***************************************************************************)
(* The forms of the household: insurance policies with their riders, what  *)
(* a coverage should amount to, and the settings that both members share,  *)
(* each with the operators that AssetForms explains.                       *)
(* A setting has no dialog: its section shows the cached row with what was *)
(* typed laid over it, and sends both.  Its draft holds None for an input  *)
(* that was not touched, and XShows is what the section shows.             *)
(***************************************************************************)
EXTENDS FormKit

(* The edits d laid over row r. *)
Over(d, r) == [k \in DOMAIN r |-> IF d[k] = None THEN r[k] ELSE d[k]]
-----------------------------------------------------------------------------
(* Insurance policies.  A rider has no id until it is saved; its end has   *)
(* no input and is sent back as it came.                                   *)

PolicyTypes == {"indemnity", "auto", "other"}
Coverages == {"medical", "driver", "cancer"}

Rider == [id: {None} \cup 1 .. 3, coverage: {"cancer", "other"},
          amount: {None} \cup Nat, premium: Nat, finish: {None, "d1"}]

PolicyRow ==
    [name: Names, type: PolicyTypes, insured: Owners, insuredName: Names \cup {None},
     premium: Nat, renewable: BOOLEAN, renewal: {None, "d1"},
     coverages: SUBSET Coverages, riders: Seq(Rider), rule: {None, "r"}]

PolicyRows ==
    {[name |-> "n", type |-> "indemnity", insured |-> "gone", insuredName |-> None,
      premium |-> 2, renewable |-> TRUE, renewal |-> "d1", coverages |-> {"cancer"},
      riders |-> <<[id |-> 1, coverage |-> "cancer", amount |-> None, premium |-> 1,
                    finish |-> "d1"]>>,
      rule |-> "r"],
     [name |-> "n", type |-> "auto", insured |-> None, insuredName |-> "n",
      premium |-> 2, renewable |-> TRUE, renewal |-> None,
      coverages |-> {"driver"}, riders |-> <<>>, rule |-> None]}

(* DEFAULT_COVERAGES. *)
Typical(type) == CASE type = "indemnity" -> {"medical"}
                   [] type = "auto" -> {"driver"}
                   [] type = "other" -> {}

PolicyEmpty ==
    [name |-> Blank, type |-> "indemnity", insured |-> "me", insuredName |-> Blank,
     premium |-> Blank, renewable |-> FALSE, renewal |-> Blank,
     coverages |-> Typical("indemnity"), riders |-> <<>>, rule |-> Blank]

(* riderDraftFrom. *)
RiderDraft(x) == [x EXCEPT !.amount = OrBlank(@)]

PolicyDraft(r) ==
    [r EXCEPT !.insuredName = OrBlank(@), !.renewal = OrBlank(@),
              !.riders = [i \in DOMAIN @ |-> RiderDraft(@[i])],
              !.rule = OrBlank(@)]

(* withPolicyType: the coverages follow the type while they are those that *)
(* are typical of it.                                                      *)
PolicyTypeChosen(d) ==
    {[d EXCEPT !.type = t,
               !.coverages = IF @ = Typical(d.type) THEN Typical(t) ELSE @] :
        t \in PolicyTypes \ {d.type}}

(* The list of riders: add one, remove one, change an input of one. *)
RidersTyped(d) ==
    LET x == d.riders
        rider == [id |-> None, coverage |-> "cancer", amount |-> Blank,
                  premium |-> Blank, finish |-> None]
        At(i, S) == {[x EXCEPT ![i] = y] : y \in S}
    IN  {[d EXCEPT !.riders = y] :
            y \in UNION ({IF Len(x) < 2 THEN {Append(x, rider)} ELSE {},
                          {SubSeq(x, 1, i - 1) \o SubSeq(x, i + 1, Len(x)) :
                               i \in DOMAIN x}}
                         \cup {At(i, Put(x[i], "coverage", {"cancer", "other"})
                                     \cup Put(x[i], "amount", {Blank, 1})
                                     \cup Put(x[i], "premium", TypedAmounts)) :
                               i \in DOMAIN x})}

(* The box "renewable" is hidden for a car, whose policies all are; the    *)
(* tags are drawn only while there is no rider.                            *)
PolicyTyped(d, r) ==
    UNION {PolicyTypeChosen(d), RidersTyped(d),
           Put(d, "name", TypedNames), Put(d, "premium", TypedAmounts),
           Put(d, "insured", Members \cup {None}),
           IF d.insured = None THEN Put(d, "insuredName", TypedNames) ELSE {},
           IF d.type = "auto" THEN {} ELSE Put(d, "renewable", BOOLEAN),
           IF d.renewable \/ d.type = "auto" THEN Put(d, "renewal", {Blank, "d1"})
           ELSE {},
           IF d.riders = <<>>
           THEN {[d EXCEPT !.coverages = IF c \in @ THEN @ \ {c} ELSE @ \cup {c}] :
                     c \in Coverages}
           ELSE {},
           Put(d, "rule", {Blank, "r"})}

PolicyReady(d) == d.name # Blank /\ d.premium # Blank

MutRiderBody(x) ==
    [x EXCEPT !.amount = OrNone(@), !.premium = Won(@), !.finish = None]

RiderBody(x) == [x EXCEPT !.amount = OrNone(@), !.premium = Won(@)]

PolicyBody(d, r) ==
    LET renewable == d.renewable \/ d.type = "auto"
    IN  [d EXCEPT !.insuredName = IF d.insured = None THEN OrNone(@) ELSE None,
                  !.renewable = renewable,
                  !.renewal = IF renewable THEN OrNone(@) ELSE None,
                  !.riders = [i \in DOMAIN @ |-> RiderBody(@[i])],
                  !.rule = OrNone(@)]

(* An insured the policy had before may stay; an id names one of its own   *)
(* riders.                                                                 *)
PolicyAccepts(b, r) ==
    /\ AmountFits(b.premium)
    /\ \A i \in DOMAIN b.riders : /\ AmountFits(b.riders[i].premium)
                                  /\ OptAmountFits(b.riders[i].amount)
    /\ b.insured \in Members \cup {None} \/ (r # None => b.insured = r.insured)
    /\ r # None =>
        \A i \in DOMAIN b.riders :
            b.riders[i].id # None =>
                \E j \in DOMAIN r.riders : r.riders[j].id = b.riders[i].id

(* New riders are numbered. *)
Numbered(x) ==
    LET used == {x[i].id : i \in DOMAIN x} \ {None}
        free(k) == CHOOSE n \in 1 .. 3 :
                      n \notin used /\ Cardinality({m \in 1 .. n : m \notin used}) = k
        nth(i) == Cardinality({j \in 1 .. i : x[j].id = None})
    IN  [i \in DOMAIN x |-> IF x[i].id # None THEN x[i]
                            ELSE [x[i] EXCEPT !.id = free(nth(i))]]

Covered(x, otherwise) ==
    IF x = <<>> THEN otherwise ELSE {x[i].coverage : i \in DOMAIN x} \ {"other"}

(* _apply: the riders are replaced, and decide the coverages if there are  *)
(* any.                                                                    *)
PolicyWrite(b, r) ==
    [b EXCEPT !.premium = Won(@), !.riders = Numbered(@),
              !.coverages = Covered(b.riders, @)]

RiderSettled(x) == [x EXCEPT !.premium = Won(@)]

PolicySettled(d, r) ==
    [d EXCEPT !.insuredName = IF d.insured = None THEN @ ELSE Blank,
              !.renewable = @ \/ d.type = "auto",
              !.renewal = IF d.renewable \/ d.type = "auto" THEN @ ELSE Blank,
              !.coverages = Covered(d.riders, @),
              !.riders = Numbered([i \in DOMAIN @ |-> RiderSettled(@[i])])]

PolicyOffers == {"add", "deactivate"}

(* The other member removes the riders or changes the premium. *)
PolicyElsewhere(r) == {[r EXCEPT !.riders = <<>>], [r EXCEPT !.premium = @ + 1]}

-----------------------------------------------------------------------------
(* What each coverage should amount to, for every member; 0 is no target.  *)

TargetsRow == [cancer: Nat, death: Nat]
TargetsRows == {[cancer |-> 3, death |-> 0]}

TargetsTyped(d, r) == Put(d, "cancer", TypedAmounts) \cup Put(d, "death", TypedAmounts)

TargetsBody(d, r) == [k \in DOMAIN d |-> IF d[k] = Blank THEN 0 ELSE d[k]]

TargetsAccepts(b, r) == AmountFits(b.cancer) /\ AmountFits(b.death)

TargetsElsewhere(r) == {[r EXCEPT !.death = @ + 1]}

-----------------------------------------------------------------------------
(* The thresholds of the coaching.  An emptied input is 0. *)

ThresholdsRow == [warn: 0 .. 3, critical: 0 .. 3]
ThresholdsRows == {[warn |-> 2, critical |-> 1]}
Presets == {[warn |-> 3, critical |-> 2]}

Untouched(r) == [k \in DOMAIN r |-> None]

ThresholdsTyped(d, r) ==
    Presets \cup Put(d, "warn", {0, 1, 3}) \cup Put(d, "critical", {0, 3})

ThresholdsReady(d) == \E k \in DOMAIN d : d[k] # None

ThresholdsBody(d, r) == Over(d, r)

(* threshold_order_errors. *)
InOrder(b) == b.warn > b.critical
ThresholdsAccepts(b, r) == InOrder(b)

ThresholdsElsewhere(r) == {[r EXCEPT !.warn = 3]}

-----------------------------------------------------------------------------
(* Which notifications are sent: a switch sends all of them at once.       *)

PrefsRow == [weekly: BOOLEAN, todo: BOOLEAN]
PrefsRows == {[weekly |-> TRUE, todo |-> TRUE]}

PrefsSuggested(r) == {[Untouched(r) EXCEPT ![k] = ~r[k]] : k \in DOMAIN r}

PrefsElsewhere(r) == {[r EXCEPT !.todo = ~@]}

-----------------------------------------------------------------------------
(* Who receives them, at least one address and at most as many as          *)
(* MAX_NOTIFY_RECIPIENTS, here two.                                        *)

MaxRecipients == 2
EmailsRow == [emails: SUBSET {"a@", "b@", "c@"}]
EmailsRows == {[emails |-> {"a@"}], [emails |-> {"a@", "b@"}]}

EmailsDraft(r) == [email |-> Blank, drop |-> None]

EmailsTyped(d, r) == Put(d, "email", {Blank, "b@", "c@", Malformed})

EmailsReady(d, r) == d.email # Blank /\ Cardinality(r.emails) < MaxRecipients

(* The button of an address removes it. *)
EmailsSuggested(r) ==
    IF Cardinality(r.emails) > 1
    THEN {[email |-> Blank, drop |-> e] : e \in r.emails} ELSE {}

EmailsBody(d, r) ==
    [emails |-> IF d.drop # None THEN r.emails \ {d.drop} ELSE r.emails \cup {d.email}]

EmailsAccepts(b, r) == b.emails # {} /\ Malformed \notin b.emails

EmailsElsewhere(r) == {[emails |-> r.emails \cup {"c@"}]}

-----------------------------------------------------------------------------
(* The name a member is shown by. *)

NameRow == [name: Names]
NameRows == {[name |-> "n"]}

NameTyped(d, r) == Put(d, "name", TypedNames)

NameReady(d, r) == d.name \notin {None, Blank} /\ d.name # r.name

NameElsewhere(r) == {[name |-> "m"]}
=============================================================================
