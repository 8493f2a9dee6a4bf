---------------------------- MODULE SessionPeriods ----------------------------
(***************************************************************************)
(* The charging periods of a session, computed from the meter values       *)
(* stored of a transaction: what the CDR lists, and what a partner appends *)
(* who is PATCHed.  Readings arrive late, twice, or without energy.        *)
(*                                                                         *)
(* Instants and registers are in tenths of the last of the four decimals   *)
(* that OCPI numbers keep (of an hour, of a kWh).  The comparisons'        *)
(* tolerance of a millionth is below that.                                 *)
(***************************************************************************)
EXTENDS Integers, Sequences, SequencesExt, FiniteSetsExt, Functions

CONSTANTS Meter,       \* Meter[t]: the station's register at each instant there is
          Starts,      \* the instants at which the transaction may begin
          Reports,     \* what a reading may sample, a set of kinds for each
          MaxReadings  \* bound: readings stored

Instants == DOMAIN Meter
Energies == {"all", "L1", "L2", "L1-N", "L2-N"}
Kinds == Energies \cup {"SoC"}

ASSUME MeterAssumption == /\ Instants \subseteq Nat /\ Meter \in [Instants -> Nat]
                          /\ \A t, u \in Instants : t <= u => Meter[t] <= Meter[u]
                          /\ Starts \subseteq Instants
                          /\ Reports \subseteq SUBSET Kinds /\ MaxReadings \in Nat

VARIABLES now,       \* the instant
          tx,        \* the row of the transaction
          readings,  \* its meterValues, in the order they were stored
          appended,  \* the periods at a partner who appends what it is sent, while steady
          steady     \* history: each reading was the latest, and each PATCH due to one

periodVars == <<now, tx, readings, appended, steady>>

\* A value that is not known is the empty set.
MeterStarts(t) == {{}, {Meter[t]}, {Meter[t] * 1000}}

\* A station that samples phases samples all of them.
Sample(t, kinds) ==
    LET half == Meter[t] \div 2
    IN  [at |-> t, samples |-> [k \in kinds |-> CASE k \in {"L1", "L1-N"} -> half
                                                  [] k \in {"L2", "L2-N"} -> Meter[t] - half
                                                  [] OTHER -> Meter[t]]]

Readings == {Sample(t, kinds) : t \in Instants, kinds \in Reports}
Transactions == [start : Starts, meterStart : SUBSET Nat, end : SUBSET Instants, total : SUBSET Nat]

PeriodsTypeOK ==
    /\ now \in Instants
    /\ tx \in Transactions /\ tx.start <= now /\ tx.meterStart \in MeterStarts(tx.start)
    /\ \A t \in tx.end : tx.start <= t /\ t <= now
    /\ readings \in Seq(Readings) /\ Len(readings) <= MaxReadings
    /\ \A i \in DOMAIN readings : readings[i].at \in tx.start..now

\* A transaction has begun.  The core stores its meterStart in kWh, once stored it in Wh,
\* or has none.  No PUT has reached the partner: what is PATCHed is all it has.
PeriodsInit == /\ now \in Starts
               /\ tx \in {[start |-> now, meterStart |-> s, end |-> {}, total |-> {}] : s \in MeterStarts(now)}
               /\ readings = <<>> /\ appended = <<>> /\ steady = TRUE
-----------------------------------------------------------------------------
(* Readings *)

\* Mutant: the difference of the exact values is rounded.
DifferenceRoundedLast(to, from) == (to - from + 5) \div 10

Rounded(x) == (x + 5) \div 10
Difference(to, from) == Rounded(to) - Rounded(from)

\* A sample without a usable unit or number counts as none, and is not in the model.
PhaseGroups == <<{"L1", "L2"}, {"L1-N", "L2-N"}>>

\* getEnergyKwh: the total, or the sum over the first group of phases there is.
Energy(r) ==
    LET phases(i) == PhaseGroups[i] \cap DOMAIN r.samples
        sampled == {i \in DOMAIN PhaseGroups : phases(i) # {}}
    IN  IF "all" \in DOMAIN r.samples THEN {r.samples["all"]}
        ELSE {MapThenSumSet(LAMBDA k : r.samples[k], phases(i)) : i \in {j \in sampled : \A k \in sampled : j <= k}}

\* One reading per timestamp, in their order; of samples of one kind the first one stored.
Merged(mv) ==
    LET times == SetToSortSeq({mv[i].at : i \in DOMAIN mv}, <)
        at(t) == SelectSeq(mv, LAMBDA r : r.at = t)
    IN  [i \in DOMAIN times |->
           [at |-> times[i], samples |-> FoldLeft(LAMBDA known, r : known @@ r.samples, <<>>, at(times[i]))]]

Boundary(t, energy) == [at |-> t, samples |-> [k \in {"all"} \cap (IF energy = {} THEN {} ELSE Kinds) |-> Max(energy)]]

FirstEnergy(rs) == LET known == {i \in DOMAIN rs : Energy(rs[i]) # {}}
                   IN  IF known = {} THEN {} ELSE Energy(rs[Min(known)])

\* getTrustedStartKwh: not if it is above the first energy that was read.
TrustedStart(rs, t) == {s \in t.meterStart : \A e \in FirstEnergy(rs) : s <= e}
-----------------------------------------------------------------------------
(* getChargingPeriods *)

WithStart(rs, t, start) ==
    IF rs = <<>> \/ t.start < rs[1].at THEN <<Boundary(t.start, start)>> \o rs ELSE rs

\* Mutant: what was charged is taken for the register.
WithEndOfTotal(rs, t, start) ==
    IF \A end \in t.end : end <= Last(rs).at THEN rs ELSE Append(rs, Boundary(Max(t.end), t.total))

\* The end energy is the start plus what was charged, unless the last reading is above it.
WithEnd(rs, t, start) ==
    LET lastly == Energy(Last(rs))
        ending == {e \in {s + k : s \in start, k \in t.total} : \A l \in lastly : e >= l}
    IN  IF \A end \in t.end : end <= Last(rs).at THEN rs
        ELSE Append(rs, Boundary(Max(t.end), ending))

\* getCdrDimensions; an OCPI partner reads an absent dimension as none.
Period(from, to, start) ==
    [from |-> from.at,
     time |-> Difference(to.at, from.at),
     energy |-> {Difference(e, f) : e \in Energy(to), f \in Energy(from)},
     import |-> {Rounded(e - s) : e \in Energy(to), s \in start},
     soc |-> {to.samples[k] : k \in DOMAIN to.samples \ Energies}]

Boundaries(mv, t) == LET rs == Merged(mv)
                         start == TrustedStart(rs, t)
                     IN  WithEnd(WithStart(rs, t, start), t, start)

ChargingPeriods(mv, t) ==
    LET rs == Boundaries(mv, t)
        start == TrustedStart(Merged(mv), t)
    IN  [i \in 1..(Len(rs) - 1) |-> Period(rs[i], rs[i + 1], start)]

\* Mutant: a PATCH lists all periods, as a PUT does.
PatchAllPeriods(mv, t) == ChargingPeriods(mv, t)

\* mapIncrementalSessionPatch: the last period, if there is one.
PatchPeriods(mv, t) == LET ps == ChargingPeriods(mv, t)
                       IN  IF ps = <<>> THEN <<>> ELSE <<Last(ps)>>

\* The CDR: what only a session lists is left out.
CdrPeriods(mv, t) == LET ps == ChargingPeriods(mv, t)
                     IN  [i \in DOMAIN ps |-> [from |-> ps[i].from, time |-> ps[i].time, energy |-> ps[i].energy]]
TotalTime(t) == IF t.end = {} THEN 0 ELSE Difference(Max(t.end), t.start)
-----------------------------------------------------------------------------
(* The core and the handlers *)

Later == /\ \E t \in Instants : now < t /\ now' = t
         /\ tx.end = {}
         /\ UNCHANGED <<tx, readings, appended, steady>>

\* A reading is stored, of now or of before, the same again or with more.
Store(t, kinds) ==
    /\ Len(readings) < MaxReadings /\ t \in tx.start..now
    /\ readings' = Append(readings, Sample(t, kinds))
    /\ steady' = (steady /\ tx.end = {} /\ \A i \in DOMAIN readings : readings[i].at < t)
    /\ appended' = IF steady' THEN appended ELSE <<>>
    /\ UNCHANGED <<now, tx>>

\* The transaction ends; the core may know what was charged in all.
End == /\ tx.end = {}
       /\ \E total \in {{}, {Meter[now] - Meter[tx.start]}} :
            tx' = [tx EXCEPT !.end = {now}, !.total = total]
       /\ UNCHANGED <<now, readings, appended, steady>>

\* The insert's handler PUTs all periods.
PutSession == /\ appended = <<>> /\ steady
              /\ appended' = ChargingPeriods(readings, tx)
              /\ UNCHANGED <<now, tx, readings, steady>>

\* An update's handler reads the meter values and PATCHes the session.
PatchSession == /\ steady' = steady /\ (ChargingPeriods(readings, tx) # <<>> =>
                                         Len(ChargingPeriods(readings, tx)) = Len(appended) + 1)
                /\ appended' = IF steady' THEN appended \o PatchPeriods(readings, tx) ELSE <<>>
                /\ UNCHANGED <<now, tx, readings>>

PeriodsNext == \/ Later \/ End \/ PutSession \/ PatchSession
               \/ \E t \in Instants, kinds \in Reports : Store(t, kinds)

PeriodsSpec == PeriodsInit /\ [][PeriodsNext]_periodVars
-----------------------------------------------------------------------------
(* Properties *)

Periods == CdrPeriods(readings, tx)
Sum(ps, value(_)) == FoldLeft(LAMBDA sum, p : sum + value(p), 0, ps)
EnergyOf(p) == IF p.energy = {} THEN 0 ELSE Max(p.energy)
Ends(ps, i) == IF i < Len(ps) THEN ps[i + 1].from ELSE Max(tx.end)

\* A row that holds its meterStart in Wh is found out by the first energy that is read.
NotInWh == tx.meterStart \subseteq {Meter[tx.start]} \/ FirstEnergy(Merged(readings)) # {}

\* The periods of a CDR follow one another from the start of the session.
TimeAddsUp(ps) == /\ Sum(ps, LAMBDA p : p.time) = TotalTime(tx)
                  /\ \A i \in DOMAIN ps : ps[i].from < Ends(ps, i)
                  /\ ps # <<>> => ps[1].from = tx.start

\* The ENERGY of a period is what the meter counted between its ends.
EnergyIsMetered(ps) ==
    \A i \in DOMAIN ps : ps[i].energy \subseteq {Difference(Meter[Ends(ps, i)], Meter[ps[i].from])}

\* If a period has no ENERGY the others add up to less, and never to more.
EnergyAddsUp(ps) ==
    LET drawn == Difference(Meter[Max(tx.end)], Meter[tx.start])
        total == Sum(ps, EnergyOf)
    IN  /\ total <= drawn
        /\ (\A i \in DOMAIN ps : ps[i].energy # {}) /\ ps # <<>> => total = drawn

\* The TIME of a CDR's periods adds up to total_time and their ENERGY to what the meter counted
\* in all, exactly and in four decimals, whatever readings came late, twice or without energy.
PeriodsAddUp == tx.end # {} => /\ TimeAddsUp(Periods)
                               /\ NotInWh => EnergyIsMetered(Periods) /\ EnergyAddsUp(Periods)

\* If every reading is newer than those before and PATCHed before the next, a partner who
\* appends what it is sent has the periods of the session, and none of a negative amount.
PatchesBuildTheList ==
    steady => /\ IsPrefix(appended, ChargingPeriods(readings, tx))
              /\ \A i \in DOMAIN appended : /\ appended[i].from \in Instants /\ appended[i].time \in Nat
                                            /\ appended[i].energy \cup appended[i].import \subseteq Nat
=============================================================================
