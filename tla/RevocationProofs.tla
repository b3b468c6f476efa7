-------------------------- MODULE RevocationProofs --------------------------
(***************************************************************************)
(* Proofs about Revocation, for every set of keys, passports, instants and *)
(* windows and every length of the ledger.  A reading of a passport is     *)
(* void exactly when a known retroactive declaration strikes one of its    *)
(* sources (VoidMeans); a step only adds declarations to the ledger        *)
(* (LedgerGrows); the action properties compare the two readings.          *)
(***************************************************************************)
EXTENDS Revocation, TLAPS

-----------------------------------------------------------------------------
(* Type correctness *)

LEMMA InitTyped == Init => TypeOK
BY TimeAssumption, DeclarationAssumption, PassportAssumption DEF Init, TypeOK

\* What a step does to the ledger.
Grows ==
  \/ ledger' = ledger
  \/ \E r \in Filed : /\ ~(IsRetroactive(r.reason) /\ ~r.quorum)
                      /\ ledger' = Append(ledger, r)

LEMMA LedgerGrows == ASSUME [Next]_vars PROVE Grows
<1>1. CASE \E r \in Filed : Declare(r)
  BY <1>1 DEF Declare, Grows
<1>2. CASE ~\E r \in Filed : Declare(r)
  BY <1>2 DEF Next, vars, Tick, RecordIssuance, VerifyHistorical, RecordCombine, Grows
<1> QED
  BY <1>1, <1>2

\* Growing adds at the end, and a punctual registrar dates what it adds.
Extended ==
  /\ DOMAIN ledger \subseteq DOMAIN ledger'
  /\ \A i \in DOMAIN ledger : ledger'[i] = ledger[i]
  /\ \A i \in DOMAIN ledger' \ DOMAIN ledger :
       /\ i > Len(ledger)
       /\ \A j \in DOMAIN ledger : j < i
       /\ Punctual => ledger'[i].declared_at = clock

LEMMA GrowthExtends == ASSUME TypeOK, [Next]_vars PROVE Extended
<1>1. ledger \in Seq(Revocation)
  BY DEF TypeOK
<1>2. CASE ledger' = ledger
  BY <1>2 DEF Extended
<1>3. ASSUME NEW r \in Filed, ledger' = Append(ledger, r) PROVE Extended
  <2>1. r \in Revocation /\ (Punctual => r.declared_at = clock)
    BY <1>3 DEF Filed
  <2> QED
    BY <1>1, <1>3, <2>1 DEF Extended
<1> QED
  BY <1>2, <1>3, LedgerGrows DEF Grows

LEMMA StepTyped == ASSUME TypeOK, [Next]_vars PROVE TypeOK'
<1>1. /\ ledger' \in Seq(Revocation)
      /\ \A i \in DOMAIN ledger' : IsRetroactive(ledger'[i].reason) => ledger'[i].quorum
  <2>1. CASE ledger' = ledger
    BY <2>1 DEF TypeOK
  <2>2. ASSUME NEW r \in Filed,
               ~(IsRetroactive(r.reason) /\ ~r.quorum),
               ledger' = Append(ledger, r)
        PROVE  <1>1!1 /\ <1>1!2
    BY <2>2 DEF TypeOK, Filed
  <2> QED
    BY <2>1, <2>2, LedgerGrows DEF Grows
<1>2. clock' \in Time /\ clock' >= clock
  <2>1. clock' = clock \/ Tick
    BY DEF Next, vars, Declare, RecordIssuance, RecordCombine, VerifyHistorical
  <2>2. clock \in Time /\ clock \in Nat
    BY TimeAssumption DEF TypeOK
  <2> QED
    BY <2>1, <2>2 DEF Tick
<1>3. ASSUME NEW i \in DOMAIN ledger', Punctual PROVE ledger'[i].declared_at <= clock'
  <2>1. ledger'[i].declared_at <= clock
    <3>1. clock \in Nat
      BY TimeAssumption DEF TypeOK
    <3> QED
      BY <1>3, <3>1, GrowthExtends DEF Extended, TypeOK
  <2>2. ledger'[i].declared_at \in Nat /\ clock \in Nat /\ clock' \in Nat
    <3>1. ledger'[i] \in Revocation
      BY <1>1, <1>3
    <3>2. ledger'[i].declared_at \in Time /\ clock \in Time
      BY <3>1 DEF Revocation, TypeOK
    <3> QED
      BY <1>2, <3>2, TimeAssumption
  <2> QED
    BY <1>2, <2>1, <2>2
<1>4. issuances' \in [Passport -> Issuance \cup {None}]
  <2>1. ASSUME NEW p \in Passport, NEW t \in Time, NEW k \in Key, RecordIssuance(p, t, k)
        PROVE  issuances' \in [Passport -> Issuance \cup {None}]
    <3>1. [at |-> t, key |-> k] \in Issuance
      BY DEF Issuance
    <3> QED
      BY <2>1, <3>1 DEF RecordIssuance, TypeOK
  <2>2. CASE UNCHANGED issuances
    BY <2>2 DEF TypeOK
  <2> QED
    BY <2>1, <2>2 DEF Next, vars, Tick, Declare, VerifyHistorical, RecordCombine
<1>5. parents' \in [Passport -> SUBSET Passport]
  <2>1. ASSUME NEW out \in Passport, NEW inputs \in SUBSET Passport,
               RecordCombine(out, inputs)
        PROVE  parents' \in [Passport -> SUBSET Passport]
    BY <2>1 DEF RecordCombine, TypeOK
  <2>2. CASE UNCHANGED parents
    BY <2>2 DEF TypeOK
  <2> QED
    BY <2>1, <2>2 DEF Next, vars, Tick, Declare, RecordIssuance, VerifyHistorical
<1>6. stamps' \in Seq(HistoricalVerification)
  <2>1. ASSUME NEW p \in Passport, NEW t \in Time, VerifyHistorical(p, t)
        PROVE  stamps' \in Seq(HistoricalVerification)
    <3>1. VoidAsOf(p, t) \in BOOLEAN
      BY DEF VoidAsOf, VoidsAbInitio
    <3>2. [subject |-> p, as_of |-> t, void |-> VoidAsOf(p, t)] \in HistoricalVerification
      BY <3>1 DEF HistoricalVerification
    <3> QED
      BY <2>1, <3>2 DEF VerifyHistorical, TypeOK
  <2>2. CASE UNCHANGED stamps
    BY <2>2 DEF TypeOK
  <2> QED
    BY <2>1, <2>2 DEF Next, vars, Tick, Declare, RecordIssuance, RecordCombine
<1> QED
  BY <1>1, <1>2, <1>3, <1>4, <1>5, <1>6 DEF TypeOK

\* The ledger, the index, the provenance and the stamps keep their types, no
\* punctual declaration is dated in the future, and every retroactive one
\* carries an attestation.
THEOREM TypeCorrect == Spec => []TypeOK
BY InitTyped, StepTyped, PTL DEF Spec

-----------------------------------------------------------------------------
(* What makes a reading void *)

\* A retroactive declaration that strikes p's source src.
Strikes(r, src) ==
  /\ IsRetroactive(r.reason)
  /\ \/ /\ r.subject = [kind |-> "passport", id |-> src]
        /\ Voids(r, IF issuances[src] # None THEN issuances[src].at ELSE r.declared_at)
     \/ /\ issuances[src] # None
        /\ r.subject = [kind |-> "key", id |-> issuances[src].key]
        /\ Voids(r, issuances[src].at)

LEMMA RetroactiveTaint ==
  ASSUME TypeOK, NEW i \in DOMAIN ledger, NEW src
  PROVE  Taint(src, ledger[i]).window # None <=> IsRetroactive(ledger[i].reason)
<1>1. ledger[i].window \in Window
  <2>1. ledger \in Seq(Revocation)
    BY DEF TypeOK
  <2>2. ledger[i] \in Revocation
    BY <2>1
  <2> QED
    BY <2>2 DEF Revocation
<1> QED
  BY <1>1, NoneAssumption DEF Taint

\* A reading is void exactly when a declaration known to it strikes a source.
LEMMA VoidMeans ==
  ASSUME TypeOK, NEW p \in Passport, NEW cutoff
  PROVE  VoidsAbInitio(TaintsOf(p, cutoff)) <=>
           \E i \in DOMAIN ledger, src \in Sources(p) :
             KnownBy(ledger[i], cutoff) /\ Strikes(ledger[i], src)
<1>1. ASSUME NEW taint \in TaintsOf(p, cutoff), taint.window # None
      PROVE  \E i \in DOMAIN ledger, src \in Sources(p) :
               KnownBy(ledger[i], cutoff) /\ Strikes(ledger[i], src)
  <2>1. PICK src \in Sources(p) :
          taint \in PassportTaints(src, cutoff) \/ taint \in KeyTaints(src, cutoff)
    BY <1>1 DEF TaintsOf
  <2>2. CASE taint \in PassportTaints(src, cutoff)
    <3>1. PICK i \in Against("passport", src, cutoff) :
            /\ taint = Taint(src, ledger[i])
            /\ \/ ~IsRetroactive(ledger[i].reason)
               \/ Voids(ledger[i], IF issuances[src] # None
                                   THEN issuances[src].at
                                   ELSE ledger[i].declared_at)
      BY <2>2 DEF PassportTaints
    <3> QED
      BY <1>1, <3>1, RetroactiveTaint DEF Against, Strikes
  <2>3. CASE taint \in KeyTaints(src, cutoff)
    <3>1. issuances[src] # None
      BY <2>3 DEF KeyTaints
    <3>2. PICK i \in Bearing(issuances[src].key, issuances[src].at, cutoff) :
            taint = Taint(src, ledger[i])
      BY <2>3, <3>1 DEF KeyTaints
    <3> QED
      BY <1>1, <3>1, <3>2, RetroactiveTaint DEF Against, Bearing, Strikes
  <2> QED
    BY <2>1, <2>2, <2>3
<1>2. ASSUME NEW i \in DOMAIN ledger, NEW src \in Sources(p),
             KnownBy(ledger[i], cutoff), Strikes(ledger[i], src)
      PROVE  VoidsAbInitio(TaintsOf(p, cutoff))
  <2>1. Taint(src, ledger[i]) \in PassportTaints(src, cutoff) \cup KeyTaints(src, cutoff)
    <3>1. CASE ledger[i].subject = [kind |-> "passport", id |-> src]
      <4>1. Voids(ledger[i], IF issuances[src] # None THEN issuances[src].at
                             ELSE ledger[i].declared_at)
        BY <1>2, <3>1 DEF Strikes
      <4>2. i \in Against("passport", src, cutoff)
        BY <1>2, <3>1 DEF Against
      <4> QED
        BY <4>1, <4>2 DEF PassportTaints
    <3>2. CASE ledger[i].subject # [kind |-> "passport", id |-> src]
      <4>1. /\ issuances[src] # None
            /\ ledger[i].subject = [kind |-> "key", id |-> issuances[src].key]
            /\ Voids(ledger[i], issuances[src].at)
        BY <1>2, <3>2 DEF Strikes
      <4>2. i \in Bearing(issuances[src].key, issuances[src].at, cutoff)
        BY <1>2, <4>1 DEF Bearing, Against
      <4> QED
        BY <4>1, <4>2 DEF KeyTaints
    <3> QED
      BY <3>1, <3>2
  <2>2. Taint(src, ledger[i]) \in TaintsOf(p, cutoff)
    BY <2>1 DEF TaintsOf
  <2>3. Taint(src, ledger[i]).window # None
    BY <1>2, RetroactiveTaint DEF Strikes
  <2> QED
    BY <2>2, <2>3 DEF VoidsAbInitio
<1> QED
  BY <1>1, <1>2 DEF VoidsAbInitio

\* The same, as a state formula that can be primed.
Struck(p, cutoff) ==
  \E i \in DOMAIN ledger, src \in Sources(p) :
    KnownBy(ledger[i], cutoff) /\ Strikes(ledger[i], src)

ReadingsMean ==
  \A p \in Passport, cutoff \in Time \cup {None} :
    VoidsAbInitio(TaintsOf(p, cutoff)) <=> Struck(p, cutoff)

LEMMA ReadingsHold == TypeOK => ReadingsMean
BY VoidMeans DEF ReadingsMean, Struck

LEMMA ReadingsHoldAfter == TypeOK' => ReadingsMean'
BY ReadingsHold, PTL

-----------------------------------------------------------------------------
(* The cascade *)

LEMMA SourcesNest ==
  ASSUME TypeOK, NEW p \in Passport, NEW src \in Sources(p)
  PROVE  src \in Passport /\ Sources(src) \subseteq Sources(p)
<1>1. src \in Passport
  BY DEF Sources, Ancestors
<1>2. ASSUME src \in Ancestors(p), NEW a \in Ancestors(src) PROVE a \in Ancestors(p)
  <2>1. a \in Passport
    BY <1>2 DEF Ancestors
  <2>2. ASSUME NEW S \in SUBSET Passport,
               parents[p] \subseteq S, \A x \in S : parents[x] \subseteq S
        PROVE  a \in S
    <3>1. src \in S
      BY <1>2, <2>2 DEF Ancestors
    <3>2. parents[src] \subseteq S
      BY <2>2, <3>1
    <3> QED
      BY <1>2, <2>2, <3>2 DEF Ancestors
  <2> QED
    BY <2>1, <2>2 DEF Ancestors
<1> QED
  BY <1>1, <1>2 DEF Sources

LEMMA CascadeHolds == TypeOK => DistrustCascades
<1> SUFFICES ASSUME TypeOK, NEW p \in Passport, NEW src \in Sources(p)
             PROVE  /\ VoidNow(src) => VoidNow(p)
                    /\ issuances[src] # None
                         /\ KeyStanding(issuances[src].key, issuances[src].at, None).standing = "void"
                       => VoidNow(p)
  BY DEF DistrustCascades
<1>1. VoidNow(src) => VoidNow(p)
  <2>1. TaintsOf(src, None) \subseteq TaintsOf(p, None)
    BY SourcesNest DEF TaintsOf
  <2> QED
    BY <2>1 DEF VoidNow, VoidsAbInitio
<1>2. ASSUME issuances[src] # None,
             KeyStanding(issuances[src].key, issuances[src].at, None).standing = "void"
      PROVE  VoidNow(p)
  <2> DEFINE all == Bearing(issuances[src].key, issuances[src].at, None)
  <2>1. \E i \in all : IsRetroactive(ledger[i].reason)
    BY <1>2 DEF KeyStanding, Valid
  <2>2. PICK i \in all : IsRetroactive(ledger[i].reason)
    BY <2>1
  <2>3. i \in DOMAIN ledger /\ KnownBy(ledger[i], None) /\ Strikes(ledger[i], src)
    BY <1>2, <2>2 DEF Bearing, Against, Strikes
  <2> QED
    BY <2>3, VoidMeans DEF VoidNow
<1> QED
  BY <1>1, <1>2

\* Fraud is not laundered by deriving from it: a void source, or one issued
\* under a key whose standing was void at that moment, voids everything made
\* from it.
THEOREM DistrustAlwaysCascades == Spec => []DistrustCascades
BY TypeCorrect, CascadeHolds, PTL

-----------------------------------------------------------------------------
(* What later declarations change *)

\* With the history of p unchanged, the next reading is the present index and
\* provenance read against the next ledger.
LEMMA StruckAfter ==
  ASSUME NEW p \in Passport, NEW cutoff, SameHistory(p)
  PROVE  Struck(p, cutoff)' <=>
           \E i \in DOMAIN ledger', src \in Sources(p) :
             KnownBy(ledger'[i], cutoff) /\ Strikes(ledger'[i], src)
<1>1. Sources(p)' = Sources(p)
  BY DEF SameHistory
<1>2. ASSUME NEW src \in Sources(p), NEW i \in DOMAIN ledger'
      PROVE  Strikes(ledger[i], src)' <=> Strikes(ledger'[i], src)
  BY DEF SameHistory, Strikes
<1>3. ASSUME NEW i \in DOMAIN ledger'
      PROVE  KnownBy(ledger[i], cutoff)' <=> KnownBy(ledger'[i], cutoff)
  BY DEF KnownBy
<1> QED
  BY <1>1, <1>2, <1>3 DEF Struck

\* What was known and struck is still known and struck.
LEMMA StruckStays ==
  ASSUME TypeOK, [Next]_vars, NEW p \in Passport, NEW cutoff, SameHistory(p),
         Struck(p, cutoff)
  PROVE  Struck(p, cutoff)'
<1>1. PICK i \in DOMAIN ledger, src \in Sources(p) :
        KnownBy(ledger[i], cutoff) /\ Strikes(ledger[i], src)
  BY DEF Struck
<1>2. i \in DOMAIN ledger' /\ ledger'[i] = ledger[i]
  BY GrowthExtends DEF Extended
<1> QED
  BY <1>1, <1>2, StruckAfter

\* What is newly struck is struck by a declaration of this step.
LEMMA StruckByNew ==
  ASSUME TypeOK, [Next]_vars, NEW p \in Passport, NEW cutoff, SameHistory(p),
         ~Struck(p, cutoff), Struck(p, cutoff)'
  PROVE  \E i \in DOMAIN ledger', src \in Sources(p) :
           /\ i > Len(ledger)
           /\ Punctual => ledger'[i].declared_at = clock
           /\ KnownBy(ledger'[i], cutoff)
           /\ Strikes(ledger'[i], src)
<1>1. PICK i \in DOMAIN ledger', src \in Sources(p) :
        KnownBy(ledger'[i], cutoff) /\ Strikes(ledger'[i], src)
  BY StruckAfter
<1>2. i \notin DOMAIN ledger
  <2>1. ASSUME i \in DOMAIN ledger PROVE FALSE
    <3>1. ledger'[i] = ledger[i]
      BY <2>1, GrowthExtends DEF Extended
    <3>2. KnownBy(ledger[i], cutoff) /\ Strikes(ledger[i], src)
      BY <1>1, <3>1
    <3> QED
      BY <2>1, <3>2 DEF Struck
  <2> QED
    BY <2>1
<1> QED
  BY <1>1, <1>2, GrowthExtends DEF Extended

\* Void is for good, and for whatever is made from it.
VoidReaches(src) ==
  VoidNow(src) /\ SameHistory(src) =>
    \A p \in Passport : src \in Sources(p)' => VoidNow(p)'

LEMMA VoidStep ==
  ASSUME TypeOK, TypeOK', [Next]_vars, NEW src \in Passport
  PROVE  VoidReaches(src)
<1> SUFFICES ASSUME VoidNow(src), SameHistory(src),
                    NEW p \in Passport, src \in Sources(p)'
             PROVE  VoidNow(p)'
  BY DEF VoidReaches
<1>1. Struck(src, None)
  BY VoidMeans DEF VoidNow, Struck
<1>2. Struck(src, None)'
  BY <1>1, StruckStays
<1>3. VoidNow(src)'
  BY <1>2, ReadingsHoldAfter DEF ReadingsMean, VoidNow
<1>4. DistrustCascades'
  BY CascadeHolds, PTL
<1> QED
  BY <1>3, <1>4 DEF DistrustCascades

\* Once a passport is void, it stays void, and everything that is made from it
\* then or later is void, while its issuance and provenance are what they were:
\* fraud is not laundered by what is declared or combined afterwards.
THEOREM VoidIsForGood == Spec => [][\A src \in Passport : VoidReaches(src)]_vars
<1>1. ASSUME TypeOK, TypeOK', [Next]_vars PROVE \A src \in Passport : VoidReaches(src)
  BY <1>1, VoidStep
<1> QED
  BY <1>1, TypeCorrect, PTL DEF Spec

\* still_stands, in terms of what is struck.
LEMMA Standing ==
  ASSUME TypeOK, NEW stamp \in HistoricalVerification
  PROVE  StillStands(stamp) <=>
           ~(Struck(stamp.subject, None) /\ ~Struck(stamp.subject, stamp.as_of))
BY VoidMeans DEF StillStands, VoidNow, VoidAsOf, Struck, HistoricalVerification

StandingMeans ==
  \A stamp \in HistoricalVerification :
    StillStands(stamp) <=>
      ~(Struck(stamp.subject, None) /\ ~Struck(stamp.subject, stamp.as_of))

LEMMA StandingHolds == TypeOK => StandingMeans
BY Standing DEF StandingMeans

LEMMA StandingAfter == TypeOK' => StandingMeans'
BY StandingHolds, PTL

LEMMA StampTyped ==
  ASSUME TypeOK, [Next]_vars, NEW n \in DOMAIN stamps
  PROVE  /\ stamps[n] \in HistoricalVerification
         /\ stamps'[n] = stamps[n]
<1>1. stamps \in Seq(HistoricalVerification)
  BY DEF TypeOK
<1>2. UNCHANGED stamps \/ \E x : stamps' = Append(stamps, x)
  BY DEF Next, vars, Tick, Declare, RecordIssuance, RecordCombine, VerifyHistorical
<1> QED
  BY <1>1, <1>2

-----------------------------------------------------------------------------
(* The stamps *)

LEMMA DeservedStep ==
  ASSUME TypeOK, TypeOK', [Next]_vars, NEW n \in DOMAIN stamps,
         StillStands(stamps[n]), ~StillStands(stamps[n])', SameHistory(stamps[n].subject)
  PROVE  \E i \in DOMAIN ledger' : i > Len(ledger) /\ Covers(ledger'[i], stamps[n].subject)
<1> DEFINE stamp == stamps[n]
           p == stamp.subject
<1>1. stamp \in HistoricalVerification /\ stamps'[n] = stamp /\ p \in Passport
  BY StampTyped DEF HistoricalVerification
<1>2. Struck(p, None)' /\ ~Struck(p, stamp.as_of)'
  BY <1>1, StandingAfter DEF StandingMeans
<1>3. ~Struck(p, stamp.as_of)
  BY <1>1, <1>2, StruckStays
<1>4. ~Struck(p, None)
  BY <1>1, <1>3, Standing
<1>5. PICK i \in DOMAIN ledger', src \in Sources(p) :
        i > Len(ledger) /\ Strikes(ledger'[i], src)
  BY <1>1, <1>2, <1>4, StruckByNew
<1>6. Covers(ledger'[i], p)
  BY <1>5 DEF Covers, Strikes, Voids
<1> QED
  BY <1>5, <1>6

\* Prospective declarations, and retroactive ones whose window misses it, leave
\* a stamp standing.
THEOREM InvalidationsAreDeserved == Spec => InvalidationIsDeserved
<1>1. ASSUME TypeOK, TypeOK', [Next]_vars
      PROVE  \A n \in DOMAIN stamps :
               /\ StillStands(stamps[n])
               /\ ~StillStands(stamps[n])'
               /\ SameHistory(stamps[n].subject)
               => \E i \in DOMAIN ledger' :
                    i > Len(ledger) /\ Covers(ledger'[i], stamps[n].subject)
  BY <1>1, DeservedStep
<1> QED
  BY <1>1, TypeCorrect, PTL DEF Spec, InvalidationIsDeserved

LEMMA PermanentStep ==
  ASSUME Punctual, TypeOK, TypeOK', [Next]_vars, NEW n \in DOMAIN stamps,
         ~StillStands(stamps[n]), SameHistory(stamps[n].subject)
  PROVE  ~StillStands(stamps[n])'
<1> DEFINE stamp == stamps[n]
           p == stamp.subject
           t == stamp.as_of
<1>1. stamp \in HistoricalVerification /\ stamps'[n] = stamp /\ p \in Passport /\ t \in Time
  BY StampTyped DEF HistoricalVerification
<1>2. Struck(p, None) /\ ~Struck(p, t)
  BY <1>1, Standing
<1>3. Struck(p, None)'
  BY <1>1, <1>2, StruckStays
<1>4. t < clock
  <2>1. PICK i \in DOMAIN ledger, src \in Sources(p) : Strikes(ledger[i], src)
    BY <1>2 DEF Struck
  <2>2. ~KnownBy(ledger[i], t)
    BY <1>2, <2>1 DEF Struck
  <2>3. ~(ledger[i].declared_at <= t)
    BY <2>2 DEF KnownBy
  <2>4. ledger[i].declared_at <= clock
    BY DEF TypeOK
  <2>5. ledger[i].declared_at \in Nat /\ clock \in Nat /\ t \in Nat
    <3>1. ledger \in Seq(Revocation)
      BY DEF TypeOK
    <3>2. ledger[i] \in Revocation
      BY <3>1
    <3> QED
      BY <1>1, <3>2, TimeAssumption DEF Revocation, TypeOK
  <2> QED
    BY <2>3, <2>4, <2>5
<1>5. ~Struck(p, t)'
  <2>1. ASSUME Struck(p, t)' PROVE FALSE
    <3>1. PICK i \in DOMAIN ledger' :
            ledger'[i].declared_at = clock /\ KnownBy(ledger'[i], t)
      BY <1>1, <1>2, <2>1, StruckByNew
    <3>2. clock <= t
      BY <1>1, <3>1, TimeAssumption DEF KnownBy
    <3>3. clock \in Nat /\ t \in Nat
      BY <1>1, TimeAssumption DEF TypeOK
    <3> QED
      BY <1>4, <3>2, <3>3
  <2> QED
    BY <2>1
<1> QED
  BY <1>1, <1>3, <1>5, StandingAfter DEF StandingMeans

\* With declarations dated when they are made, an invalidated stamp never
\* stands again.
THEOREM InvalidationsArePermanent ==
  ASSUME Punctual PROVE Spec => InvalidationIsPermanent
<1>1. ASSUME TypeOK, TypeOK', [Next]_vars
      PROVE  \A n \in DOMAIN stamps :
               ~StillStands(stamps[n]) /\ SameHistory(stamps[n].subject)
                 => ~StillStands(stamps[n])'
  BY <1>1, PermanentStep
<1> QED
  BY <1>1, TypeCorrect, PTL DEF Spec, InvalidationIsPermanent

-----------------------------------------------------------------------------
(* The evidence *)

\* A declaration made now is not known at a moment before now.
LEMMA KnownThen ==
  ASSUME Punctual, TypeOK, [Next]_vars, NEW t \in Time, t < clock, NEW i \in DOMAIN ledger',
         KnownBy(ledger'[i], t)
  PROVE  i \in DOMAIN ledger
<1>1. clock \in Nat /\ t \in Nat
  BY TimeAssumption DEF TypeOK
<1>2. ledger'[i].declared_at <= t
  BY TimeAssumption DEF KnownBy
<1> QED
  BY <1>1, <1>2, GrowthExtends DEF Extended

LEMMA SameAgainst ==
  ASSUME Punctual, TypeOK, [Next]_vars, NEW t \in Time, t < clock, NEW kind, NEW id
  PROVE  /\ Against(kind, id, t)' = Against(kind, id, t)
         /\ \A i \in Against(kind, id, t) : ledger'[i] = ledger[i]
<1>1. Against(kind, id, t)' =
        {i \in DOMAIN ledger' : /\ ledger'[i].subject = [kind |-> kind, id |-> id]
                                /\ KnownBy(ledger'[i], t)}
  BY DEF Against, KnownBy
<1>2. \A i \in DOMAIN ledger : i \in DOMAIN ledger' /\ ledger'[i] = ledger[i]
  BY GrowthExtends DEF Extended
<1>3. \A i \in DOMAIN ledger' : KnownBy(ledger'[i], t) => i \in DOMAIN ledger
  BY KnownThen
<1> QED
  BY <1>1, <1>2, <1>3 DEF Against

LEMMA SameTaints ==
  ASSUME Punctual, TypeOK, [Next]_vars, NEW t \in Time, t < clock, NEW src,
         issuances'[src] = issuances[src]
  PROVE  /\ PassportTaints(src, t)' = PassportTaints(src, t)
         /\ KeyTaints(src, t)' = KeyTaints(src, t)
<1>1. PassportTaints(src, t)' = PassportTaints(src, t)
  BY SameAgainst DEF PassportTaints, Voids, Taint
<1>2. KeyTaints(src, t)' = KeyTaints(src, t)
  <2>1. CASE issuances[src] = None
    BY <2>1 DEF KeyTaints
  <2>2. CASE issuances[src] # None
    <3> DEFINE k == issuances[src].key
               at == issuances[src].at
    <3>1. Bearing(k, at, t)' = Bearing(k, at, t)
      BY SameAgainst DEF Bearing, Voids
    <3> QED
      BY <2>2, <3>1, SameAgainst DEF KeyTaints, Bearing, Taint
  <2> QED
    BY <2>1, <2>2
<1> QED
  BY <1>1, <1>2

\* With declarations dated when they are made, what could be known at a past
\* moment stays what it was.
THEOREM EvidenceStaysStable ==
  ASSUME Punctual PROVE Spec => EvidenceIsStable
<1>1. ASSUME TypeOK, [Next]_vars
      PROVE  \A p \in Passport, t \in Time :
               t < clock /\ SameHistory(p) => TaintsOf(p, t)' = TaintsOf(p, t)
  <2>1. SUFFICES ASSUME NEW p \in Passport, NEW t \in Time, t < clock, SameHistory(p)
                 PROVE  TaintsOf(p, t)' = TaintsOf(p, t)
    OBVIOUS
  <2>2. Sources(p)' = Sources(p)
    BY <2>1 DEF SameHistory
  <2>3. \A src \in Sources(p) :
          /\ PassportTaints(src, t)' = PassportTaints(src, t)
          /\ KeyTaints(src, t)' = KeyTaints(src, t)
    BY <1>1, <2>1, SameTaints DEF SameHistory
  <2> QED
    BY <2>2, <2>3 DEF TaintsOf
<1> QED
  BY <1>1, TypeCorrect, PTL DEF Spec, EvidenceIsStable

-----------------------------------------------------------------------------
(* The standing of a key *)

\* The declarations bearing on a key's acts are those that did, then new ones.
LEMMA BearingGrows ==
  ASSUME TypeOK, [Next]_vars, NEW k, NEW t
  PROVE  /\ Bearing(k, t, None) \subseteq Bearing(k, t, None)'
         /\ \A i \in Bearing(k, t, None)' \ Bearing(k, t, None) :
              \A j \in DOMAIN ledger : j < i
         /\ \A i \in Bearing(k, t, None) :
              i \in DOMAIN ledger /\ i \in Nat /\ ledger'[i] = ledger[i]
         /\ \A i \in Bearing(k, t, None)' : i \in Nat
<1>1. ledger \in Seq(Revocation) /\ ledger' \in Seq(Revocation)
  BY StepTyped DEF TypeOK
<1>2. Bearing(k, t, None)' =
        {i \in DOMAIN ledger' : /\ ledger'[i].subject = [kind |-> "key", id |-> k]
                                /\ Voids(ledger'[i], t)}
  BY DEF Bearing, Against, KnownBy, Voids
<1>3. Bearing(k, t, None) =
        {i \in DOMAIN ledger : /\ ledger[i].subject = [kind |-> "key", id |-> k]
                               /\ Voids(ledger[i], t)}
  BY DEF Bearing, Against, KnownBy
<1>4. \A i \in DOMAIN ledger : i \in DOMAIN ledger' /\ ledger'[i] = ledger[i]
  BY GrowthExtends DEF Extended
<1>5. \A i \in DOMAIN ledger' \ DOMAIN ledger : \A j \in DOMAIN ledger : j < i
  BY GrowthExtends DEF Extended
<1> QED
  BY <1>1, <1>2, <1>3, <1>4, <1>5

\* The first of a set is the first of what grows from it at the end.
LEMMA FirstStays ==
  ASSUME NEW S \in SUBSET Nat, NEW T \in SUBSET Nat, S # {}, S \subseteq T,
         \A i \in T \ S : \A j \in S : j < i
  PROVE  (CHOOSE i \in T : \A j \in T : i <= j) = (CHOOSE i \in S : \A j \in S : i <= j)
<1>1. \A i : (i \in T /\ \A j \in T : i <= j) <=> (i \in S /\ \A j \in S : i <= j)
  <2>1. ASSUME NEW i \in T, \A j \in T : i <= j PROVE i \in S
    <3>1. PICK j \in S : TRUE
      OBVIOUS
    <3> QED
      BY <2>1, <3>1
  <2>2. ASSUME NEW i \in S, \A j \in S : i <= j PROVE \A j \in T : i <= j
    BY <2>2
  <2> QED
    BY <2>1, <2>2
<1> QED
  BY <1>1

LEMMA StandingStep ==
  ASSUME TypeOK, [Next]_vars, NEW k \in Key, NEW t \in Time
  PROVE  /\ Rank[KeyStanding(k, t, None).standing] <= Rank[KeyStanding(k, t, None)'.standing]
         /\ KeyStanding(k, t, None).standing = KeyStanding(k, t, None)'.standing
              => KeyStanding(k, t, None).by = KeyStanding(k, t, None)'.by
<1> DEFINE A == Bearing(k, t, None)
           B == Bearing(k, t, None)'
           RA == {i \in A : IsRetroactive(ledger[i].reason)}
           RB == {i \in B : IsRetroactive(ledger'[i].reason)}
           First(S) == CHOOSE i \in S : \A j \in S : i <= j
<1>1. A \in SUBSET Nat /\ B \in SUBSET Nat /\ A \subseteq B
      /\ \A i \in B \ A : \A j \in A : j < i
  BY BearingGrows
<1>2. RA \in SUBSET Nat /\ RB \in SUBSET Nat /\ RA \subseteq RB
      /\ \A i \in RB \ RA : \A j \in RA : j < i
  BY <1>1, BearingGrows
<1>3. KeyStanding(k, t, None) =
        IF RA # {} THEN [standing |-> "void", by |-> First(RA)]
        ELSE IF A # {} THEN [standing |-> "suspended", by |-> First(A)] ELSE Valid
  BY DEF KeyStanding
<1>4. KeyStanding(k, t, None)' =
        IF RB # {} THEN [standing |-> "void", by |-> First(RB)]
        ELSE IF B # {} THEN [standing |-> "suspended", by |-> First(B)] ELSE Valid
  BY DEF KeyStanding, Valid
<1>5. RA # {} => RB # {} /\ First(RB) = First(RA)
  BY <1>2, FirstStays
<1>6. A # {} => B # {} /\ First(B) = First(A)
  BY <1>1, FirstStays
<1> HIDE DEF A, B, RA, RB, First
<1> QED
  BY <1>3, <1>4, <1>5, <1>6 DEF Rank, Valid

\* The current standing of a key at a moment only worsens.
THEOREM StandingsOnlyWorsen == Spec => StandingOnlyWorsens
<1>1. ASSUME TypeOK, [Next]_vars
      PROVE  \A k \in Key, t \in Time :
               LET old == KeyStanding(k, t, None)
                   new == KeyStanding(k, t, None)'
               IN /\ Rank[old.standing] <= Rank[new.standing]
                  /\ old.standing = new.standing => old.by = new.by
  BY <1>1, StandingStep
<1> QED
  BY <1>1, TypeCorrect, PTL DEF Spec, StandingOnlyWorsens

=============================================================================
