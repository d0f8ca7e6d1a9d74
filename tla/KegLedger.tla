------------------------------ MODULE KegLedger ------------------------------
(***************************************************************************)
(* What the pulses are turned into: volumes by a calibration, the stock of *)
(* a keg, and charges to people's accounts.  One action per method of      *)
(* Repository, each a transaction, in any order the API allows; results of *)
(* the controller arrive while sessions are active and after they ended.   *)
(*                                                                         *)
(* The five active statuses are one, "active"; "closed" stands for failed, *)
(* interrupted, timed out and cancelled, which no rule here tells apart.   *)
(* Names, reasons, notes and timestamps are left out.  PourSystem has the  *)
(* bindings and replays, so a session gets one result here.                *)
(***************************************************************************)
EXTENDS Integers, Sequences, FiniteSets, SequencesExt

CONSTANTS
  People,      \* participants that can be created
  NoOne,       \* participant_id is NULL
  Unknown,     \* volume_ml is NULL
  Pulses,      \* pulses of a pour and of a sample
  Masses,      \* volumes of the samples that are weighed, in ml
  Scale,       \* a common multiple of Masses, for ratios in integers
  KegSize,     \* starting_volume_ml
  Percents,    \* what the remaining stock is corrected to
  Ounce,       \* ml of the unit a price is for
  Rates,       \* beer_price_cents_per_fl_oz
  Deposit,     \* cents of an adjustment of a balance
  Ordinals,    \* of the samples: 10 make a calibration run
  NoOrdinal,   \* target_ordinal is NULL
  MinIncluded, \* 7 of them at least are included
  MaxFactor,   \* PLAUSIBLE_FACTOR_MAX, in pulses per ml
  MaxRows,     \* bounds kegs, calibrations, sessions and pours, each
  MaxSteps     \* bounds the transactions

ASSUME LedgerAssumption ==
  /\ NoOne \notin People /\ Unknown \notin Int
  /\ Masses \subseteq Nat \ {0} /\ {Pulses, KegSize, Ounce, MinIncluded} \subseteq Nat \ {0}
  /\ Scale \in Nat \ {0} /\ \A ml \in Masses : Scale % ml = 0
  /\ IsFiniteSet(Ordinals) /\ MinIncluded <= Cardinality(Ordinals)
  /\ Percents \cup Rates \cup {MaxFactor, MaxRows} \subseteq Nat /\ Deposit \in Int

VARIABLES
  people,   \* participants: created, active
  balance,  \* balance_cents
  ledger,   \* account_ledger: the sum per person and pour, 0 for adjustments
  rate,     \* the price setting
  kegs,     \* kegs with the sum of their inventory_adjustments
  cals,     \* calibrations with their live samples
  sessions, \* provisional_sessions
  pours,    \* pour_events, each with its row of pour_charges
  steps

accounts == <<people, balance, ledger, rate>>
vars == <<accounts, kegs, cals, sessions, pours, steps>>

NoSample == [ml |-> 0, included |-> FALSE, flag |-> FALSE]
Samples(c) == {o \in Ordinals : c.samples[o].ml # 0}
Included(c) == {o \in Samples(c) : c.samples[o].included}

NoFactor == [pulses |-> 0, ml |-> 0]

Keg == [open : BOOLEAN, adjusted : Int]
Sample == [ml : Masses \cup {0}, included : BOOLEAN, flag : BOOLEAN]
Calibration == [status : {"draft", "active", "superseded"},
                factor : [pulses : Nat, ml : Int], samples : [Ordinals -> Sample]]
Session == [purpose : {"pour", "calibration", "verification"}, who : People \cup {NoOne},
            keg : Nat, cal : Nat, ordinal : Ordinals \cup {NoOrdinal},
            status : {"active", "closed", "complete", "consumed", "discarded"},
            settled : BOOLEAN, measured : BOOLEAN, made : Nat]
PourRow == [session : Nat, who : People \cup {NoOne}, keg : Nat, cal : Nat,
            ml : Int \cup {Unknown}, payer : People \cup {NoOne}, cents : Nat]

TypeOK ==
  /\ people \in [People -> {"none", "active", "inactive"}]
  /\ balance \in [People -> Int]
  /\ ledger \in [People -> [0..MaxRows -> Int]]
  /\ rate \in Rates \cup {0}
  /\ kegs \in Seq(Keg)
  /\ cals \in Seq(Calibration)
  /\ sessions \in Seq(Session)
  /\ pours \in Seq(PourRow) /\ Len(pours) <= MaxRows
  /\ \A c \in DOMAIN cals : (cals[c].status = "draft") = (cals[c].factor = NoFactor)
  /\ \A i \in DOMAIN pours : (pours[i].payer = NoOne) = (pours[i].cents = 0)

NewKeg == [open |-> TRUE, adjusted |-> 0]
NewCalibration == [status |-> "draft", factor |-> NoFactor,
                   samples |-> [o \in Ordinals |-> NoSample]]

(* An installation before the first pour: empty, or partly set up, which   *)
(* CreateParticipant, SetPrice, ReplaceKeg and CreateCalibration lead to.  *)
Init ==
  /\ people \in [People -> {"none", "active"}]
  /\ balance = [p \in People |-> 0]
  /\ ledger = [p \in People |-> [i \in 0..MaxRows |-> 0]]
  /\ rate \in Rates \cup {0}
  /\ kegs \in {<< >>, <<NewKeg>>}
  /\ cals \in {<< >>, <<NewCalibration>>}
  /\ sessions = << >> /\ pours = << >>
  /\ steps = 0

Step == steps < MaxSteps /\ steps' = steps + 1

(* f[1] + ... + f[n] *)
Total(f, n) ==
  LET sum[i \in 0..n] == IF i = 0 THEN 0 ELSE sum[i - 1] + f[i]
  IN  sum[n]

(* The one open keg and the one active calibration, or 0. *)
OpenKeg == IF \E k \in DOMAIN kegs : kegs[k].open
           THEN CHOOSE k \in DOMAIN kegs : kegs[k].open ELSE 0
ActiveCal == IF \E c \in DOMAIN cals : cals[c].status = "active"
             THEN CHOOSE c \in DOMAIN cals : cals[c].status = "active" ELSE 0
NoActiveSession == \A s \in DOMAIN sessions : sessions[s].status # "active"

-------------------------------------------------------------------------------
(* People and prices.                                                      *)

CreateParticipant(p) ==
  /\ Step
  /\ people[p] = "none"
  /\ people' = [people EXCEPT ![p] = "active"]
  /\ UNCHANGED <<balance, ledger, rate, kegs, cals, sessions, pours>>

UpdateParticipant(p) ==
  /\ Step
  /\ people[p] # "none"
  /\ people' = [people EXCEPT ![p] = IF @ = "active" THEN "inactive" ELSE "active"]
  /\ UNCHANGED <<balance, ledger, rate, kegs, cals, sessions, pours>>

AdjustBalance(p) ==
  /\ Step
  /\ people[p] # "none"
  /\ balance' = [balance EXCEPT ![p] = @ + Deposit]
  /\ ledger' = [ledger EXCEPT ![p][0] = @ + Deposit]
  /\ UNCHANGED <<people, rate, kegs, cals, sessions, pours>>

SetPrice(r) ==
  /\ Step
  /\ rate' = r
  /\ UNCHANGED <<people, balance, ledger, kegs, cals, sessions, pours>>

(* _charge_pour(): cents for a volume, a half rounded up. *)
Cents(ml) == (2 * ml * rate + Ounce) \div (2 * Ounce)
ChargesAnyVolume(who, ml) == who # NoOne /\ ml # Unknown
Charges(who, ml) == who # NoOne /\ ml # Unknown /\ rate > 0 /\ Cents(ml) > 0

(* Pour i, with its row of pour_charges when there is one. *)
Billed(pour) ==
  IF Charges(pour.who, pour.ml)
  THEN [pour EXCEPT !.payer = pour.who, !.cents = Cents(pour.ml)] ELSE pour

Debit(i, pour) ==
  IF pour.payer = NoOne THEN UNCHANGED <<balance, ledger>>
  ELSE /\ balance' = [balance EXCEPT ![pour.payer] = @ - pour.cents]
       /\ ledger' = [ledger EXCEPT ![pour.payer][i] = @ - pour.cents]

-------------------------------------------------------------------------------
(* Kegs and their stock.                                                   *)

WithNewKeg == Append([k \in DOMAIN kegs |-> [kegs[k] EXCEPT !.open = FALSE]], NewKeg)

ReplaceKeg ==
  /\ Step /\ Len(kegs) < MaxRows
  /\ NoActiveSession
  /\ kegs' = WithNewKeg
  /\ UNCHANGED <<accounts, cals, sessions, pours>>

AdjustInventory(k, amount) ==
  /\ Step
  /\ kegs' = [kegs EXCEPT ![k].adjusted = @ + amount]
  /\ UNCHANGED <<accounts, cals, sessions, pours>>

(* calculate_inventory(): a pour without a volume counts for nothing. *)
PouredFrom(k) ==
  Total([i \in DOMAIN pours |->
           IF pours[i].keg = k /\ pours[i].ml # Unknown THEN pours[i].ml ELSE 0], Len(pours))
Remaining(k) == KegSize - PouredFrom(k) + kegs[k].adjusted

Target(percent) == (KegSize * percent) \div 100
CorrectionOfPours(k, percent) == Target(percent) - (KegSize - PouredFrom(k))
Correction(k, percent) == Target(percent) - Remaining(k)

SetRemaining(percent) ==
  LET k == OpenKeg IN
  /\ Step
  /\ NoActiveSession
  /\ k # 0
  /\ Correction(k, percent) # 0
  /\ kegs' = [kegs EXCEPT ![k].adjusted = @ + Correction(k, percent)]
  /\ UNCHANGED <<accounts, cals, sessions, pours>>

-------------------------------------------------------------------------------
(* Calibrations.                                                           *)

CreateCalibration ==
  /\ Step /\ Len(cals) < MaxRows
  /\ cals' = Append(cals, NewCalibration)
  /\ UNCHANGED <<accounts, kegs, sessions, pours>>

(* analyze_calibration(): the factor is the sum of the pulses by the sum of*)
(* the volumes.                                                            *)
Volume(c) ==
  LET order == SetToSeq(Included(c)) IN
  Total([i \in DOMAIN order |-> c.samples[order[i]].ml], Len(order))
Factor(c) == [pulses |-> Pulses * Cardinality(Included(c)), ml |-> Volume(c)]
Plausible(f) == f.pulses <= MaxFactor * f.ml

(* pulses_to_ml(); the volumes are chosen so that the division is exact. *)
ToMl(c) ==
  IF c = 0 \/ cals[c].factor = NoFactor THEN Unknown
  ELSE (Pulses * cals[c].factor.ml) \div cals[c].factor.pulses

(* _outlier_flags() of three samples or more, all of Pulses, so that the   *)
(* ratio of a sample is told by its volume: with the median as the center, *)
(* a sample is flagged when it is five percent off and most are equal, or  *)
(* when it is 3.5/0.6745 median deviations off.  Ratios and deviations are *)
(* scaled to integers.  Ranked is the k-th smallest of the values.         *)
Ranked(values, k) ==
  CHOOSE v \in {values[o] : o \in DOMAIN values} :
    /\ Cardinality({o \in DOMAIN values : values[o] < v}) < k
    /\ Cardinality({o \in DOMAIN values : values[o] <= v}) >= k
TwiceMedian(values) ==
  LET n == Cardinality(DOMAIN values) IN
  Ranked(values, (n + 1) \div 2) + Ranked(values, n \div 2 + 1)
Outliers(volumes) ==
  LET ratio == [o \in DOMAIN volumes |-> (Pulses * Scale) \div volumes[o]]
      center == TwiceMedian(ratio)
      off == [o \in DOMAIN volumes |->
                IF 2 * ratio[o] >= center THEN 2 * ratio[o] - center ELSE center - 2 * ratio[o]]
      mad == TwiceMedian(off)
  IN {o \in DOMAIN volumes :
        IF mad = 0 THEN 20 * off[o] > center ELSE 13490 * off[o] > 35000 * mad}
Flags(c) == Outliers([o \in Included(c) |-> c.samples[o].ml])

(* _update_outlier_flags(), which ends every change of a sample. *)
Flagged(c) ==
  LET marked == IF Cardinality(Included(c)) < 3 THEN {} ELSE Flags(c) IN
  [c EXCEPT !.samples = [o \in Ordinals |->
     IF o \in Samples(c) THEN [c.samples[o] EXCEPT !.flag = o \in marked] ELSE NoSample]]

(* The new row takes the place of the live one of its ordinal. *)
WithSample(c, o, ml, included) ==
  Flagged([c EXCEPT !.samples[o] = [ml |-> ml, included |-> included, flag |-> FALSE]])

(* A sample with pulses and mass typed in. *)
AddSample(c, o, ml) ==
  /\ Step
  /\ cals[c].status = "draft"
  /\ cals' = [cals EXCEPT ![c] = WithSample(@, o, ml, TRUE)]
  /\ UNCHANGED <<accounts, kegs, sessions, pours>>

SetSampleIncludedAnyTime(c, o, included) ==
  /\ Step
  /\ o \in Samples(cals[c])
  /\ cals' = [cals EXCEPT ![c] = Flagged([@ EXCEPT !.samples[o].included = included])]
  /\ UNCHANGED <<accounts, kegs, sessions, pours>>

SetSampleIncluded(c, o, included) ==
  /\ Step
  /\ cals[c].status = "draft"
  /\ o \in Samples(cals[c])
  /\ cals' = [cals EXCEPT ![c] = Flagged([@ EXCEPT !.samples[o].included = included])]
  /\ UNCHANGED <<accounts, kegs, sessions, pours>>

Activated(c) ==
  [d \in DOMAIN cals |->
     IF d = c THEN [cals[c] EXCEPT !.status = "active", !.factor = Factor(cals[c])]
     ELSE IF cals[d].status = "active" THEN [cals[d] EXCEPT !.status = "superseded"]
     ELSE cals[d]]

(* activate_calibration() of a full run. *)
Activate(c) ==
  /\ Step
  /\ cals[c].status = "draft"
  /\ Samples(cals[c]) = Ordinals
  /\ Cardinality(Included(cals[c])) >= MinIncluded
  /\ Plausible(Factor(cals[c]))
  /\ NoActiveSession
  /\ cals' = Activated(c)
  /\ UNCHANGED <<accounts, kegs, sessions, pours>>

(* activate_provisional_calibration() of a partial one. *)
ActivateProvisional(c) ==
  /\ Step
  /\ cals[c].status = "draft"
  /\ Samples(cals[c]) # Ordinals
  /\ Included(cals[c]) # {}
  /\ NoActiveSession
  /\ Plausible(Factor(cals[c]))
  /\ cals' = Activated(c)
  /\ UNCHANGED <<accounts, kegs, sessions, pours>>

-------------------------------------------------------------------------------
(* Sessions and their results.                                             *)

Arm(purpose, who, keg, cal, ordinal) ==
  /\ Step /\ Len(sessions) < MaxRows
  /\ NoActiveSession
  /\ sessions' = Append(sessions,
       [purpose |-> purpose, who |-> who, keg |-> keg, cal |-> cal, ordinal |-> ordinal,
        status |-> "active", settled |-> FALSE, measured |-> FALSE, made |-> 0])
  /\ UNCHANGED <<accounts, kegs, cals, pours>>

(* create_provisional() for each purpose. *)
ArmPour(who) ==
  /\ who \in {NoOne} \cup {p \in People : people[p] = "active"}
  /\ Arm("pour", who, OpenKeg, ActiveCal, NoOrdinal)
ArmCalibration(c, o) ==
  /\ cals[c].status = "draft"
  /\ Arm("calibration", NoOne, 0, c, o)
ArmVerification ==
  /\ ActiveCal # 0
  /\ Arm("verification", NoOne, OpenKeg, ActiveCal, NoOrdinal)

(* The coordinator closes a session that has no result yet. *)
EndSession(s) ==
  /\ Step
  /\ sessions[s].status = "active"
  /\ sessions' = [sessions EXCEPT ![s].status = "closed"]
  /\ UNCHANGED <<accounts, kegs, cals, pours>>

Pour(s, who, keg, cal) ==
  [session |-> s, who |-> who, keg |-> keg, cal |-> cal, ml |-> ToMl(cal),
   payer |-> NoOne, cents |-> 0]

AddPour(pour) ==
  /\ Len(pours) < MaxRows
  /\ pours' = Append(pours, pour)
  /\ Debit(Len(pours) + 1, pour)

(* finalize_device_result() for a session, active or ended; a result has   *)
(* pulses, or timed out without.                                           *)
AwaitsResult(s) == ~sessions[s].settled /\ sessions[s].status \in {"active", "closed"}

ResultContext(s) == <<OpenKeg, ActiveCal>>
BoundContext(s) == <<sessions[s].keg, sessions[s].cal>>

FinalizePour(s) ==
  LET context == BoundContext(s) IN
  /\ Step
  /\ AwaitsResult(s) /\ sessions[s].purpose = "pour"
  /\ sessions' = [sessions EXCEPT ![s].status = "complete", ![s].settled = TRUE]
  /\ AddPour(Billed(Pour(s, sessions[s].who, context[1], context[2])))
  /\ UNCHANGED <<people, rate, kegs, cals>>

FinalizeTimeout(s) ==
  /\ Step
  /\ AwaitsResult(s)
  /\ sessions' = [sessions EXCEPT ![s].status = "closed", ![s].settled = TRUE]
  /\ UNCHANGED <<accounts, kegs, cals, pours>>

(* A capture that was interrupted keeps its pulses and is no sample. *)
FinalizeCapture(s, interrupted) ==
  /\ Step
  /\ AwaitsResult(s) /\ sessions[s].purpose # "pour"
  /\ sessions' = [sessions EXCEPT ![s].status = IF interrupted THEN "closed" ELSE "complete",
                                  ![s].settled = TRUE, ![s].measured = TRUE]
  /\ UNCHANGED <<accounts, kegs, cals, pours>>

(* A result or a recovered count of no session, in the present context. *)
FinalizeUnattributed ==
  /\ Step
  /\ AddPour(Pour(0, NoOne, OpenKeg, ActiveCal))
  /\ UNCHANGED <<people, rate, kegs, cals, sessions>>

(* recover_same_boot_delta() *)
RecoverPour(s) ==
  /\ Step
  /\ sessions[s].status = "active" /\ sessions[s].purpose = "pour"
  /\ sessions' = [sessions EXCEPT ![s].status = "closed", ![s].settled = TRUE]
  /\ AddPour(Pour(s, NoOne, sessions[s].keg, sessions[s].cal))
  /\ UNCHANGED <<people, rate, kegs, cals>>

RecoverCapture(s) ==
  /\ Step
  /\ sessions[s].status = "active" /\ sessions[s].purpose # "pour"
  /\ sessions' = [sessions EXCEPT ![s].status = "complete",
                                  ![s].settled = TRUE, ![s].measured = TRUE]
  /\ UNCHANGED <<accounts, kegs, cals, pours>>

-------------------------------------------------------------------------------
(* What is done with a pour or a capture later.                            *)

ReassignedKeepsPayer(pour, p) ==
  IF pour.payer = NoOne THEN Billed([pour EXCEPT !.who = p]) ELSE [pour EXCEPT !.who = p]

(* The row after reassign_pour(): its charge follows, or is made now. *)
Reassigned(pour, p) ==
  IF pour.payer = NoOne THEN Billed([pour EXCEPT !.who = p])
  ELSE [pour EXCEPT !.who = p, !.payer = p]

ReassignPour(i, p) ==
  LET old == pours[i]
      new == Reassigned(old, p) IN
  /\ Step
  /\ people[p] # "none"
  /\ pours' = [pours EXCEPT ![i] = new]
  /\ IF old.payer = NoOne THEN Debit(i, new)
     ELSE IF old.who = p THEN UNCHANGED <<balance, ledger>>
     ELSE /\ balance' = [balance EXCEPT ![old.who] = @ + old.cents, ![p] = @ - old.cents]
          /\ ledger' = [ledger EXCEPT ![old.who][i] = @ + old.cents, ![p][i] = @ - old.cents]
  /\ UNCHANGED <<people, rate, kegs, cals, sessions>>

CanConsumeAgain(s) == sessions[s].status \in {"complete", "consumed"} /\ sessions[s].measured

(* A capture can be consumed; one that was is answered with its old row.   *)
CanConsume(s) == sessions[s].status = "complete" /\ sessions[s].measured

ConsumeCalibration(s, ml, included) ==
  LET c == sessions[s].cal IN
  /\ Step
  /\ sessions[s].purpose = "calibration"
  /\ CanConsume(s)
  /\ cals[c].status = "draft"
  /\ cals' = [cals EXCEPT ![c] = WithSample(@, sessions[s].ordinal, ml, included)]
  /\ sessions' = [sessions EXCEPT ![s].status = "consumed", ![s].made = @ + 1]
  /\ UNCHANGED <<accounts, kegs, pours>>

ConsumeVerification(s) ==
  /\ Step
  /\ sessions[s].purpose = "verification"
  /\ CanConsume(s)
  /\ cals[sessions[s].cal].factor # NoFactor
  /\ sessions' = [sessions EXCEPT ![s].status = "consumed", ![s].made = @ + 1]
  /\ UNCHANGED <<accounts, kegs, cals, pours>>

(* latest_pending_capture(): the youngest capture that is not at its end.  *)
PendingCapture(s) ==
  sessions[s].purpose # "pour" /\ sessions[s].status \in {"active", "complete"}

DiscardCapture(s) ==
  /\ Step
  /\ PendingCapture(s)
  /\ \A t \in DOMAIN sessions : t > s => ~PendingCapture(t)
  /\ sessions[s].status = "complete"
  /\ sessions' = [sessions EXCEPT ![s].status = "discarded"]
  /\ UNCHANGED <<accounts, kegs, cals, pours>>

Accounts == \/ \E p \in People : CreateParticipant(p) \/ UpdateParticipant(p) \/ AdjustBalance(p)
            \/ \E r \in Rates \ {rate} : SetPrice(r)
            \/ \E i \in DOMAIN pours, p \in People : ReassignPour(i, p)

Stock == \/ ReplaceKeg
         \/ \E k \in DOMAIN kegs : AdjustInventory(k, -1)
         \/ \E percent \in Percents : SetRemaining(percent)

Calibrations ==
  \/ CreateCalibration
  \/ \E c \in DOMAIN cals :
       \/ Activate(c) \/ ActivateProvisional(c)
       \/ \E o \in Ordinals :
            \/ ArmCalibration(c, o)
            \/ \E ml \in Masses : AddSample(c, o, ml)
            \/ \E included \in BOOLEAN :
                 cals[c].samples[o].included # included /\ SetSampleIncluded(c, o, included)

Sessions ==
  \/ \E who \in People \cup {NoOne} : ArmPour(who)
  \/ ArmVerification
  \/ FinalizeUnattributed
  \/ \E s \in DOMAIN sessions :
       \/ EndSession(s) \/ FinalizePour(s) \/ FinalizeTimeout(s)
       \/ \E interrupted \in BOOLEAN : FinalizeCapture(s, interrupted)
       \/ RecoverPour(s) \/ RecoverCapture(s)
       \/ \E ml \in Masses, included \in BOOLEAN : ConsumeCalibration(s, ml, included)
       \/ ConsumeVerification(s) \/ DiscardCapture(s)

Next == Accounts \/ Stock \/ Calibrations \/ Sessions

Spec == Init /\ [][Next]_vars

-------------------------------------------------------------------------------
(* Every balance is the sum of the ledger's entries for that person: the   *)
(* two are written apart, by a charge, a refund, a reassignment and an     *)
(* adjustment (repository.py _charge_pour, reassign_pour).                 *)
BalanceIsLedgerSum ==
  \A p \in People : balance[p] = ledger[p][0] + Total(ledger[p], MaxRows)

(* A pour that was charged is charged to the person it is assigned to, for *)
(* its whole amount and to nobody else, however often it moved             *)
(* (repository.py reassign_pour).                                          *)
ChargeFollowsPour ==
  \A i \in DOMAIN pours :
    /\ pours[i].payer \in {NoOne, pours[i].who}
    /\ \A p \in People :
         ledger[p][i] = IF p = pours[i].payer THEN -pours[i].cents ELSE 0

(* An account is its ledger, and the ledger of a pour is its charge.       *)
ChargesAreBooked == BalanceIsLedgerSum /\ ChargeFollowsPour

(* While a pour session is active the keg on tap and the calibration in    *)
(* use are those it was armed with (repository.py replace_keg,             *)
(* activate_calibration, activate_provisional_calibration).                *)
ActiveSessionUsesCurrentContext ==
  \A s \in DOMAIN sessions :
    sessions[s].status = "active" /\ sessions[s].purpose = "pour" =>
      sessions[s].keg = OpenKeg /\ sessions[s].cal = ActiveCal

(* A result that comes after its session ended, when the keg and the       *)
(* calibration may have been replaced, is still poured from the keg and    *)
(* measured by the calibration of its session; and a session is one pour   *)
(* (repository.py finalize_device_result, recover_same_boot_delta).        *)
LatePourStaysOnItsKeg ==
  \A i \in DOMAIN pours :
    pours[i].session # 0 =>
      LET s == sessions[pours[i].session] IN
      /\ pours[i].keg = s.keg /\ pours[i].cal = s.cal
      /\ pours[i].ml = ToMl(s.cal)
      /\ \A j \in DOMAIN pours : pours[j].session = pours[i].session => j = i

(* A pour belongs to the keg and the calibration of its arming.            *)
PoursKeepTheirContext == ActiveSessionUsesCurrentContext /\ LatePourStaysOnItsKeg

(* The factor of a calibration that was ever active is the one of its      *)
(* samples of today: no change of a sample, no late capture and no second  *)
(* activation comes between (repository.py add_calibration_sample,         *)
(* set_sample_included, consume_calibration_capture).                      *)
ActiveFactorFromSamples ==
  \A c \in DOMAIN cals : cals[c].status # "draft" => cals[c].factor = Factor(cals[c])

(* The outlier flags of the samples are those of the samples that are      *)
(* included now, after any of the changes (repository.py                   *)
(* _update_outlier_flags).                                                 *)
FlagsAreFresh == \A c \in DOMAIN cals : cals[c] = Flagged(cals[c])

(* They never flag most of the samples (calibration.py _outlier_flags).    *)
FewAreFlagged ==
  \A c \in DOMAIN cals :
    LET marked == {o \in Ordinals : cals[c].samples[o].flag} IN
    marked # {} => 2 * Cardinality(marked) < Cardinality(Included(cals[c]))

(* What a calibration says is computed from the samples it has.            *)
CalibrationFollowsSamples == ActiveFactorFromSamples /\ FlagsAreFresh /\ FewAreFlagged

(* A capture becomes one sample or one check, and only by being consumed,  *)
(* however its result and its session's end were ordered                   *)
(* (repository.py consume_calibration_capture).                            *)
CaptureConsumedOnce ==
  \A s \in DOMAIN sessions :
    sessions[s].made = IF sessions[s].status = "consumed" THEN 1 ELSE 0

(* After a correction the stock is what was entered, whatever was poured   *)
(* and adjusted before, and whether or not every pour has a volume         *)
(* (repository.py set_current_keg_remaining_percent, inventory.py          *)
(* calculate_inventory).                                                   *)
RemainingAsCorrected ==
  [][\A percent \in Percents : SetRemaining(percent) => Remaining(OpenKeg)' = Target(percent)]_vars
-------------------------------------------------------------------------------
(* Why they hold: there is one keg on tap and one calibration in use, ...  *)
OneOfEach ==
  /\ \A k, l \in DOMAIN kegs : kegs[k].open /\ kegs[l].open => k = l
  /\ \A c, d \in DOMAIN cals : cals[c].status = "active" /\ cals[d].status = "active" => c = d

(* ... no row of the ledger is for a pour that is not there, ...           *)
NothingBookedAhead ==
  \A p \in People, i \in 1..MaxRows : i > Len(pours) => ledger[p][i] = 0

(* ... a session has its pour once it is settled, and no factor of its     *)
(* calibration can change by then.                                         *)
SessionsSettleOnce ==
  /\ \A s \in DOMAIN sessions :
       /\ sessions[s].status = "active" => ~sessions[s].settled
       /\ sessions[s].purpose = "pour" /\ sessions[s].cal # 0 =>
            sessions[s].cal \in DOMAIN cals /\ cals[sessions[s].cal].status # "draft"
  /\ \A i \in DOMAIN pours :
       pours[i].session # 0 =>
         /\ pours[i].session \in DOMAIN sessions
         /\ sessions[pours[i].session].settled /\ sessions[pours[i].session].purpose = "pour"

Inv ==
  /\ TypeOK
  /\ ChargesAreBooked /\ NothingBookedAhead
  /\ OneOfEach /\ SessionsSettleOnce /\ PoursKeepTheirContext
  /\ ActiveFactorFromSamples /\ FlagsAreFresh
  /\ CaptureConsumedOnce
===============================================================================
