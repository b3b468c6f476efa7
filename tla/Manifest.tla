------------------------------ MODULE Manifest ------------------------------
(***************************************************************************)
(* The deployment manifest (manifest.rs): the suites a deployment accepts, *)
(* the phase of its migration and its topology.  Names are left out; the   *)
(* scope extensions are the set of those that are contradictions.          *)
(***************************************************************************)
EXTENDS Signing, FiniteSets

MigrationPhase == {"classical", "hybrid-co-signed", "hybrid-composite", "post-quantum"}

TopologyProfile == {"hierarchical", "federated", "cross-recognized", "mesh"}

DeploymentManifest ==
  [active : SUBSET Suite, deprecated : SUBSET Suite, phase : MigrationPhase,
   topology : TopologyProfile, contradictions : SUBSET {"dimension"}]

RequiresHybridMix(phase) == phase \in {"hybrid-co-signed", "hybrid-composite"}

\* algorithm_status.
AlgorithmStatus(m, suite) ==
  IF suite \in m.active THEN "active"
  ELSE IF suite \in m.deprecated THEN "deprecated" ELSE "not-listed"

AcceptsVerification(m, suite) == AlgorithmStatus(m, suite) # "not-listed"

Classical(suites) == {s \in suites : ~IsPostQuantum(s)}

\* DeploymentManifest::validate.  The classical phase asks nothing of the suites,
\* and no phase asks that a suite can be computed.
ManifestValid(m) ==
  /\ m.active # {}
  /\ m.active \cap m.deprecated = {}
  /\ RequiresHybridMix(m.phase) =>
       /\ Cardinality(m.active) >= 2
       /\ Classical(m.active) # {}
       /\ Classical(m.active) # m.active
  /\ m.phase = "post-quantum" => Classical(m.active) = {}
  /\ m.contradictions = {}

=============================================================================
