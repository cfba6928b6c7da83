----------------------------- MODULE MCRecovery ------------------------------
(* Instances of Recovery for TLC. *)
EXTENDS Recovery, TLC

CONSTANTS f1, f2, o1, o2, r1, r2

\* Two faults, each with its own repaired result.
MCContents == {o1, o2, r1, r2}
MCFix == (o1 :> r1) @@ (o2 :> r2)

\* The bundled artifact's fault is looked for before the configuration's.
MCPrecedes == {<< f1, f2 >>} \cap (Files \X Files)

Symmetry == Permutations(Tokens)
==============================================================================
