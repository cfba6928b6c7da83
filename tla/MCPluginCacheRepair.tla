------------------------- MODULE MCPluginCacheRepair --------------------------
(* Instances of PluginCacheRepair for TLC. *)
EXTENDS PluginCacheRepair, TLC

CONSTANTS good, bad, own

MCContents == {good, bad, own}

Requires(v, g) == [expected |-> good, rebuild |-> good, version |-> v, generation |-> g]

\* The manifest of the installed version, and the one an update brings.
MCManifests == {Requires(1, 1), Requires(2, 1)}

Install(v, g, provenance, bundled, intent, overwrote) ==
  [version |-> v, generation |-> g, provenance |-> provenance, bundled |-> bundled,
   intent |-> intent, overwrote |-> overwrote, dependency_install_failure |-> FALSE]

\* A plain installation, and one whose last reconciliation overwrote the
\* user's own file with bundled bytes that are bad.
MCInstalls == {Install(1, 1, "bundled", good, NoContent, FALSE),
               Install(1, 1, "local_override", bad, own, TRUE)}

Symmetry == Permutations(Tokens)
================================================================================
