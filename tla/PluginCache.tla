------------------------------ MODULE PluginCache ------------------------------
(***************************************************************************)
(* Which fault a plugin cache has (src/core/plugin-cache): a target is     *)
(* observed through a handful of named files and classified into exactly   *)
(* one of four mechanisms, or none.  Hashes are contents.  An observation  *)
(* is a record of what inventory, manifest, reconciliation state and the   *)
(* four measured files say about the one registered cache entry.           *)
(***************************************************************************)
EXTENDS Integers

CONSTANTS NoContent  \* a file that is not there

NoMechanism == "none"

\* The files observed, and those a target may do without.
Documents == {"inventory", "manifest", "recon", "cache", "bundled", "trusted",
              "intent", "health"}
Optional  == {"recon", "bundled", "intent", "health"}

(***************************************************************************)
(* observePluginCache: no inventory, no plugin-cache target; any other     *)
(* file that is refused, or missing though required, refuses the target.   *)
(***************************************************************************)
Observed(doc) ==
  IF doc["inventory"] = "absent" THEN "not_a_target"
  ELSE IF \A d \in Documents : doc[d] = "ok" \/ (doc[d] = "absent" /\ d \in Optional)
  THEN "observed" ELSE "refused"

TrustedMatchesManifest(o) == o.trusted = o.rebuild

Healthy(o) ==
  o.measured = o.expected /\ o.measured = o.trusted /\ TrustedMatchesManifest(o)

VersionSkewed(o) ==
  /\ o.version # o.required_version \/ o.version # o.component_version
  /\ o.measured # o.trusted

Stale(o) ==
  /\ o.provenance = "shared_cache"
  /\ o.generation < o.required_generation
  /\ o.measured # o.trusted

\* recon is the last cycle's record: did it overwrite a local change, and which.
Overwritten(o) ==
  /\ o.overwrote
  /\ o.intent # NoContent
  /\ o.recon_intent = o.intent
  /\ o.measured # o.intent
  /\ o.measured = IF o.bundled # NoContent THEN o.bundled ELSE o.expected

Corrupted(o) ==
  /\ o.generation >= o.required_generation
  /\ o.version = o.required_version
  /\ o.measured \notin {o.expected, o.trusted}
  /\ TrustedMatchesManifest(o)

\* Mutant: there is no healthy gate, the evidence of each mechanism decides.
Classify_NoHealthyGate(o) ==
  IF o.dependency_install_failure \/ ~o.listed THEN NoMechanism
  ELSE IF VersionSkewed(o) THEN "dependency_version_skew"
  ELSE IF Stale(o) THEN "stale_shared_cache"
  ELSE IF Overwritten(o) THEN "reconciliation_overwrite"
  ELSE IF Corrupted(o) THEN "bundled_file_corruption"
  ELSE NoMechanism

(***************************************************************************)
(* classifyPluginCacheMechanism: the gates in their order.                 *)
(***************************************************************************)
Classify(o) ==
  IF o.dependency_install_failure \/ ~o.listed \/ Healthy(o) THEN NoMechanism
  ELSE IF VersionSkewed(o) THEN "dependency_version_skew"
  ELSE IF Stale(o) THEN "stale_shared_cache"
  ELSE IF Overwritten(o) THEN "reconciliation_overwrite"
  ELSE IF Corrupted(o) THEN "bundled_file_corruption"
  ELSE NoMechanism

\* planPluginCacheRepair: what may be repaired, by a copy of the trusted file.
Plannable(o) ==
  Classify(o) # NoMechanism /\ TrustedMatchesManifest(o) /\ o.measured # o.trusted

\* The prior bytes are put into quarantine for two of the mechanisms.
Quarantines(mechanism) ==
  mechanism \in {"bundled_file_corruption", "reconciliation_overwrite"}
================================================================================
