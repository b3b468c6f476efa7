----------------------------- MODULE Revocation -----------------------------
(***************************************************************************)
(* The revocation ledger of revoke.rs and the historical stamps of         *)
(* verify.rs that are judged against it.  Declarations of distrust are     *)
(* appended with a moment of declaration and a window.  A reason is        *)
(* prospective or retroactive.  A passport is tainted by declarations      *)
(* against itself, against the key that issued it, and against whatever    *)
(* the provenance graph says it was made from.  A stamp is the notarized   *)
(* verdict a verifier could reach at a past moment.                        *)
(*                                                                         *)
(* Reasons are tokens, ids are model values, instants are numbers.  The    *)
(* provenance graph and the event logs are other crates: the graph is its  *)
(* parent relation, and of a log only the instant of its first event is    *)
(* kept, before which verify_historical has no state to stamp.             *)
(***************************************************************************)
EXTENDS Integers, Sequences

CONSTANTS
  Key,               \* signing keys
  NodeId,            \* authority nodes
  Owner,             \* the node that owns each key
  Condition,         \* the scope conditions that are granted
  Passport,          \* passports
  Born,              \* the instant of the first event of each passport's log
  Time,              \* instants
  Subject,           \* the subjects that are declared against
  Reason,            \* the reasons that are given
  Window,            \* the distrust windows that are declared
  Punctual,          \* whether declared_at is the instant of the declaration
  MaxDeclarations,   \* bound on the ledger
  MaxStamps,         \* bound on the stamps
  None               \* Rust's Option::None

ProspectiveReason ==
  {"key-compromise", "cessation", "supersession", "affiliation-change",
   "condition-withdrawal"}

RetroactiveReason == {"misissuance", "fraudulent-issuance", "authority-compromised"}

ASSUME TimeAssumption == Time \subseteq Nat /\ None \notin Time

ASSUME PassportAssumption == Owner \in [Key -> NodeId] /\ Born \in [Passport -> Time]

ASSUME SubjectAssumption ==
  Subject \subseteq [kind : {"key"}, id : Key]
                      \cup [kind : {"node"}, id : NodeId]
                      \cup [kind : {"passport"}, id : Passport]
                      \cup [kind : {"condition"}, id : NodeId, condition : Condition]

ASSUME DeclarationAssumption ==
  /\ Reason \subseteq ProspectiveReason \cup RetroactiveReason
  /\ Window \subseteq [from : Time, to : Time \cup {None}]
  /\ Punctual \in BOOLEAN
  /\ MaxDeclarations \in Nat
  /\ MaxStamps \in Nat

VARIABLES
  ledger,      \* RevocationLedger.revocations, in the order declared
  issuances,   \* IssuanceIndex.issuances
  parents,     \* the provenance graph: what each passport was combined from
  stamps,      \* the HistoricalVerifications handed out, in order
  clock        \* the present

vars == <<ledger, issuances, parents, stamps, clock>>

-----------------------------------------------------------------------------
(* Data *)

Issuance == [at : Time, key : Key]

ASSUME NoneAssumption == None \notin Issuance /\ None \notin Window

Revocation ==
  [subject     : Subject,
   reason      : Reason,
   declared_at : Time,
   window      : Window,
   quorum      : BOOLEAN]

\* The verdict of a stamp is kept as whether it voided the subject ab initio.
HistoricalVerification == [subject : Passport, as_of : Time, void : BOOLEAN]

IsRetroactive(reason) == reason \in RetroactiveReason

\* Interval::contains: both ends are inside, and a window may have no end.
Contains(window, t) ==
  /\ window.from <= t
  /\ window.to # None => t <= window.to

Voids(r, t) == Contains(r.window, t)

\* Everything the passport was made from, over any number of steps: the least
\* set closed under parents that holds the passport's own.
Ancestors(p) ==
  {a \in Passport : \A S \in SUBSET Passport :
     parents[p] \subseteq S /\ (\A x \in S : parents[x] \subseteq S) => a \in S}

\* What taints_of walks.
Sources(p) == Ancestors(p) \cup {p}

-----------------------------------------------------------------------------
(* What the ledger says *)

\* Mutant: the cutoff is not looked at.
KnownAlways(r, cutoff) == cutoff \in Time \cup {None}

\* The evidentiary cutoff; None is the current-state reading.
KnownBy(r, cutoff) == cutoff # None => r.declared_at <= cutoff

\* against_key: only a Key subject matches, whoever owns the key.
Against(kind, id, cutoff) ==
  {i \in DOMAIN ledger : /\ ledger[i].subject = [kind |-> kind, id |-> id]
                         /\ KnownBy(ledger[i], cutoff)}

\* The declarations against a key that bear on its acts at t.
Bearing(k, t, cutoff) == {i \in Against("key", k, cutoff) : Voids(ledger[i], t)}

Valid == [standing |-> "valid", by |-> 0]

\* Mutant: a later declaration decides, whatever came before it.
LatestStanding(k, t, cutoff) ==
  LET all == Bearing(k, t, cutoff) IN
  IF all = {} THEN Valid
  ELSE LET i == CHOOSE i \in all : \A j \in all : j <= i IN
       [standing |-> IF IsRetroactive(ledger[i].reason) THEN "void" ELSE "suspended",
        by |-> i]

\* key_standing_at: the first retroactive declaration, else the first
\* prospective one.  "by" stands for the reason and window it reports.
KeyStanding(k, t, cutoff) ==
  LET all   == Bearing(k, t, cutoff)
      retro == {i \in all : IsRetroactive(ledger[i].reason)}
      First(S) == CHOOSE i \in S : \A j \in S : i <= j
  IN IF retro # {} THEN [standing |-> "void", by |-> First(retro)]
     ELSE IF all # {} THEN [standing |-> "suspended", by |-> First(all)]
     ELSE Valid

\* Mutant: every taint carries the window of its declaration.
AlwaysWindowed(src, r) ==
  [source |-> src, reason |-> r.reason, at |-> r.declared_at, window |-> r.window]

\* A taint carries a window when, and only when, its reason is retroactive.
Taint(src, r) ==
  [source |-> src, reason |-> r.reason, at |-> r.declared_at,
   window |-> IF IsRetroactive(r.reason) THEN r.window ELSE None]

\* Declarations against the passport itself.  A prospective one taints in and
\* out of its window; a passport that was never indexed counts as issued when
\* it was declared against.
PassportTaints(src, cutoff) ==
  LET hits == {i \in Against("passport", src, cutoff) :
                 \/ ~IsRetroactive(ledger[i].reason)
                 \/ Voids(ledger[i], IF issuances[src] # None
                                     THEN issuances[src].at
                                     ELSE ledger[i].declared_at)}
  IN {Taint(src, ledger[i]) : i \in hits}

\* Declarations against the key that issued it, in force when it did.
KeyTaints(src, cutoff) ==
  IF issuances[src] = None THEN {}
  ELSE {Taint(src, ledger[i]) :
          i \in Bearing(issuances[src].key, issuances[src].at, cutoff)}

\* Mutant: of the sources only the passports are looked up, not their keys.
TaintsOfOwnKey(p, cutoff) ==
  KeyTaints(p, cutoff) \cup UNION {PassportTaints(src, cutoff) : src \in Sources(p)}

TaintsOf(p, cutoff) ==
  UNION {PassportTaints(src, cutoff) \cup KeyTaints(src, cutoff) : src \in Sources(p)}

\* withdrawn_conditions_at: whatever reason the declaration gives.
WithdrawnConditionsAt(node, t) ==
  LET withdrawals == {i \in DOMAIN ledger : /\ ledger[i].subject.kind = "condition"
                                            /\ ledger[i].subject.id = node
                                            /\ Voids(ledger[i], t)}
  IN {ledger[i].subject.condition : i \in withdrawals}

VoidsAbInitio(taints) == \E taint \in taints : taint.window # None

VoidNow(p) == VoidsAbInitio(TaintsOf(p, None))

VoidAsOf(p, t) == VoidsAbInitio(TaintsOf(p, t))

\* HistoricalVerification::still_stands reads the ledger twice; it does not
\* read the verdict the stamp carries.
StillStands(stamp) == ~(VoidNow(stamp.subject) /\ ~VoidAsOf(stamp.subject, stamp.as_of))

-----------------------------------------------------------------------------
(* Operations *)

Tick ==
  /\ clock + 1 \in Time
  /\ clock' = clock + 1
  /\ UNCHANGED <<ledger, issuances, parents, stamps>>

\* Mutant: a declaration replaces the earlier ones against its subject.
DeclareLatestOnly(r) ==
  /\ Len(ledger) < MaxDeclarations
  /\ ~(IsRetroactive(r.reason) /\ ~r.quorum)
  /\ ledger' = Append(SelectSeq(ledger, LAMBDA x : x.subject # r.subject), r)
  /\ UNCHANGED <<issuances, parents, stamps, clock>>

\* Mutant: the attestation is not asked for.
DeclareUnattested(r) ==
  /\ Len(ledger) < MaxDeclarations
  /\ ledger' = Append(ledger, r)
  /\ UNCHANGED <<issuances, parents, stamps, clock>>

\* declare: a retroactive reason without a quorum attestation is refused.
Declare(r) ==
  /\ Len(ledger) < MaxDeclarations
  /\ ~(IsRetroactive(r.reason) /\ ~r.quorum)
  /\ ledger' = Append(ledger, r)
  /\ UNCHANGED <<issuances, parents, stamps, clock>>

\* IssuanceIndex::record: a second record of a passport replaces the first.
RecordIssuance(p, t, k) ==
  /\ issuances' = [issuances EXCEPT ![p] = [at |-> t, key |-> k]]
  /\ UNCHANGED <<ledger, parents, stamps, clock>>

\* ProvenanceGraph::record_combine; the graph stays acyclic.
RecordCombine(out, inputs) ==
  /\ \A p \in inputs : out \notin Sources(p)
  /\ parents' = [parents EXCEPT ![out] = @ \cup inputs]
  /\ UNCHANGED <<ledger, issuances, stamps, clock>>

\* verify_historical: refused when the log has no state as of the moment.
VerifyHistorical(p, t) ==
  /\ Len(stamps) < MaxStamps
  /\ Born[p] <= t
  /\ stamps' = Append(stamps, [subject |-> p, as_of |-> t, void |-> VoidAsOf(p, t)])
  /\ UNCHANGED <<ledger, issuances, parents, clock>>

-----------------------------------------------------------------------------

Init ==
  /\ ledger = <<>>
  /\ issuances = [p \in Passport |-> None]
  /\ parents = [p \in Passport |-> {}]
  /\ stamps = <<>>
  /\ clock \in {t \in Time : \A u \in Time : t <= u}

\* The declarations that reach the ledger now.
Filed == {r \in Revocation : Punctual => r.declared_at = clock}

\* Acts are indexed, and stamps asked for, up to the present.
Next ==
  \/ Tick
  \/ \E r \in Filed : Declare(r)
  \/ \E p \in Passport, t \in Time :
       /\ t <= clock
       /\ \/ \E k \in Key : RecordIssuance(p, t, k)
          \/ VerifyHistorical(p, t)
  \/ \E out \in Passport : \E inputs \in SUBSET Passport : RecordCombine(out, inputs)

Spec == Init /\ [][Next]_vars

-----------------------------------------------------------------------------
(* Properties *)

\* Nothing is declared or indexed in the future of a punctual registrar, and
\* every retroactive declaration of the ledger came with an attestation.
TypeOK ==
  /\ ledger \in Seq(Revocation)
  /\ \A i \in DOMAIN ledger :
       /\ IsRetroactive(ledger[i].reason) => ledger[i].quorum
       /\ Punctual => ledger[i].declared_at <= clock
  /\ issuances \in [Passport -> Issuance \cup {None}]
  /\ parents \in [Passport -> SUBSET Passport]
  /\ stamps \in Seq(HistoricalVerification)
  /\ clock \in Time

\* Fraud cannot be laundered by deriving from it: what voids a passport, and
\* what makes the standing of its key void at its issuance, voids everything
\* made from it, over any number of steps (taints_of and key_standing_at
\* agree).
DistrustCascades ==
  \A p \in Passport : \A src \in Sources(p) :
    /\ VoidNow(src) => VoidNow(p)
    /\ issuances[src] # None
         /\ KeyStanding(issuances[src].key, issuances[src].at, None).standing = "void"
       => VoidNow(p)

\* The index and the provenance of a passport are what they were.
SameHistory(p) ==
  /\ Sources(p)' = Sources(p)
  /\ \A src \in Sources(p) : issuances'[src] = issuances[src]

\* What a diligent verifier could know of the past does not change: whatever is
\* declared later, the taints known at a moment before the present stay the
\* same while the registrar dates its declarations with its clock.
EvidenceIsStable ==
  [][\A p \in Passport, t \in Time :
       t < clock /\ SameHistory(p) => TaintsOf(p, t)' = TaintsOf(p, t)]_vars

\* A retroactive declaration that covers the issuance of a source of p.
Covers(r, p) ==
  /\ IsRetroactive(r.reason)
  /\ \E src \in Sources(p) :
       \/ /\ r.subject = [kind |-> "passport", id |-> src]
          /\ issuances[src] # None => Contains(r.window, issuances[src].at)
       \/ /\ issuances[src] # None
          /\ r.subject = [kind |-> "key", id |-> issuances[src].key]
          /\ Contains(r.window, issuances[src].at)

\* Prospective reasons leave earlier verifications valid, and a window does
\* not leak: a stamp loses its standing only to a retroactive declaration
\* that covers the issuance of its subject or of something it was made from.
InvalidationIsDeserved ==
  [][\A n \in DOMAIN stamps :
       /\ StillStands(stamps[n])
       /\ ~StillStands(stamps[n])'
       /\ SameHistory(stamps[n].subject)
       => \E i \in DOMAIN ledger' : i > Len(ledger) /\ Covers(ledger'[i], stamps[n].subject)]_vars

\* An invalidated stamp never stands again, as long as what it certified has
\* the issuance and provenance it had and declarations are dated when made.
InvalidationIsPermanent ==
  [][\A n \in DOMAIN stamps :
       ~StillStands(stamps[n]) /\ SameHistory(stamps[n].subject) => ~StillStands(stamps[n])']_vars

Rank == [valid |-> 0, suspended |-> 1, void |-> 2]

\* The current standing of a key's acts at a moment only gets worse, and the
\* declaration it is attributed to changes only when it does.
StandingOnlyWorsens ==
  [][\A k \in Key, t \in Time :
       LET old == KeyStanding(k, t, None)
           new == KeyStanding(k, t, None)'
       IN /\ Rank[old.standing] <= Rank[new.standing]
          /\ old.standing = new.standing => old.by = new.by]_vars

\* What the comments of RevokedSubject and of against_key say of a declaration
\* against a node: it reaches all the keys the node owns.
NodeRevocationReachesItsKeys ==
  \A i \in DOMAIN ledger, k \in Key, t \in Time :
    /\ ledger[i].subject = [kind |-> "node", id |-> Owner[k]]
    /\ Voids(ledger[i], t)
    => KeyStanding(k, t, None).standing # "valid"

=============================================================================
