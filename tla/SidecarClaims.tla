----------------------------- MODULE SidecarClaims -----------------------------
(***************************************************************************)
(* What documents and tests of the repository say of the kernel and the    *)
(* code does not do.  Each definition is checked by a run that ends in a   *)
(* counterexample; README.md tells the story of each.                      *)
(***************************************************************************)
EXTENDS Sidecar

\* "version optimistic locking covers every result write-back path, the
\* block/failed branches included" (docs/plans/
\* 2026-03-13-next-phase-implementation-plan.md:310): a result moves only the
\* version of the task it was computed for.  apply_result compares the version
\* it has just read with itself.
ResultsVersionChecked ==
  [][\A t \in Tasks : \A inv \in answered'[t] \ answered[t] :
       rows'[t].state # rows[t].state => inv.version = rows[t].version]_vars
================================================================================
