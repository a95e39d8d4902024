-------------------------- MODULE MCFormalization --------------------------
(***************************************************************************)
(* The formalization of a Matter on small instances.  A behaviour is about *)
(* replacements of the evidence file, or about revisions of the Matter     *)
(* that come in between, with one crash.  The issue is added ready, with   *)
(* its facets, since an earlier revision of it only uses up the bound.     *)
(***************************************************************************)
EXTENDS Formalization, TLC

Symmetry == Permutations(Databases) \cup Permutations(Formalizers)

VARIABLE focus

Events == {op[c].event : c \in {d \in Clients : op[d].pc = "append"}}
InFocus ==
  /\ focus = "swaps" => matter.revision <= 4
  /\ focus = "revisions" => faults <= 1 /\ evidence # NoDatabase
  /\ \A e \in Events :
       /\ e.kind = "ISSUE_ADDED" => e.state = "READY_TO_FORMALIZE" /\ e.facets # {}
       /\ e.kind = "ISSUE_REQUIRED_FACETS_SET" => focus = "swaps"

MCInit == FormalInit /\ focus \in {"swaps", "revisions"} /\ InFocus
MCNext ==
  /\ FormalNext
  /\ focus = "revisions" => UNCHANGED evidence
  /\ UNCHANGED focus
  /\ InFocus'
MCSpec == MCInit /\ [][MCNext]_<<allvars, focus>>
=============================================================================
