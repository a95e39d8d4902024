--------------------------- MODULE MCMatterStore ---------------------------
(***************************************************************************)
(* Small instances of the store, with rebuild_projection.  A behaviour is  *)
(* about the evidence of one issue, about the sources of two, or about     *)
(* the processes that open the store.                                      *)
(***************************************************************************)
EXTENDS MatterRebuild, StoreOpening, TLC

\* Within each of these sets no element is distinguished from another.
Symmetry ==
  Permutations(Clients) \cup Permutations(IssueIds) \cup Permutations(Idents)
    \cup Permutations(Databases) \cup Permutations(EvidenceIds)
    \cup Permutations(Titles)

VARIABLE focus

Events == {op[c].event : c \in {d \in Clients : op[d].pc = "append"}}
Kind(kinds) == {e \in Events : e.kind \in kinds}
IssuesNamed == Known(matter) \cup {e.issue : e \in Kind({"ISSUE_ADDED"})}

AboutEvidence ==
  /\ Cardinality(IssuesNamed) <= 1
  /\ Kind({"SOURCE_DEPENDENCY_REGISTERED"}) = {}
  /\ \A e \in Kind({"ISSUE_ADDED"}) : e.state = "OPEN"
  /\ \A c \in Clients : op[c].pc # "invalidate_loaded"

AboutSources ==
  /\ evidence = NoDatabase
  /\ Kind({"TITLE_CHANGED", "ISSUE_REQUIRED_FACETS_SET"}) = {}
  /\ \A e \in Kind({"ISSUE_ADDED"}) : e.facets = {}

InFocus ==
  CASE focus = "evidence" -> AboutEvidence
    [] focus = "sources" -> AboutSources
    [] OTHER -> TRUE

MCInit ==
  /\ Init /\ OpeningInit
  /\ focus \in {"evidence", "sources", "opening"} /\ InFocus
  /\ IF focus = "opening" THEN evidence = NoDatabase
     ELSE path = NoInode /\ store = [i \in Inodes |-> Empty]
MCNext ==
  /\ UNCHANGED focus
  /\ IF focus = "opening" THEN OpeningNext /\ UNCHANGED vars
     ELSE NextWithRebuild /\ InFocus' /\ UNCHANGED openingVars
MCSpec == MCInit /\ [][MCNext]_<<vars, openingVars, focus>>
=============================================================================
