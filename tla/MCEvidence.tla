------------------------------ MODULE MCEvidence ------------------------------
(* Small instances of the evidence build and its migrations, which share    *)
(* nothing: a behaviour is of one of them, named by focus.                  *)
EXTENDS EvidenceBuild, EvidenceMigration, LineageMigration, TLC
CONSTANTS d1, d2, h1

\* Two PDFs of one and two pages; the longer one cites the law in the shorter.
MCPageCount == (d1 :> 1) @@ (d2 :> 2)
MCCites == (d1 :> {}) @@ (d2 :> {d1})

It(role, doc, parser, supported, bound) ==
  [role |-> role, doc |-> doc, parser |-> parser, supported |-> supported, bound |-> bound]
Ref(bound) == It("REFERENCE_DOCUMENT", NoId, TRUE, TRUE, bound)

\* Two references; a bound one with a drawing; two under one id; one whose
\* parser output is missing; one of an unknown parser.
MCBatches ==
  {<<Ref(NoId), Ref(NoId)>>} \cup
  {<<Ref(d), It("CASE_DRAWING", NoId, FALSE, FALSE, NoId)>> : d \in Docs} \cup
  {<<It("REFERENCE_DOCUMENT", h1, TRUE, TRUE, NoId), It("CASE_TABLE", h1, TRUE, TRUE, NoId)>>,
   <<Ref(NoId), It("REFERENCE_DOCUMENT", NoId, FALSE, FALSE, NoId)>>,
   <<It("REFERENCE_DOCUMENT", NoId, TRUE, FALSE, NoId), It("SUPPORTING_IMAGE", NoId, FALSE, FALSE, NoId)>>}

\* Three documents of one revision and one page; the rest comes and goes: a
\* second element on the first two pages, a twin, links and review flags.
Row(id, table, parent, payload) == [id |-> id, table |-> table, parent |-> parent, payload |-> payload]
Fixed ==
  UNION {{Row(i, "documents", 0, "title"), Row(10 + i, "revisions", i, "hash"),
          Row(20 + i, "pages", 10 + i, 1)} : i \in 1..3}
  \cup {Row(31, "elements", 21, "x"), Row(33, "elements", 22, "x"), Row(35, "elements", 23, "x")}
Optional ==
  {Row(32, "elements", 21, "y"), Row(34, "elements", 22, "y"), Row(37, "elements", 22, "x"),
   Row(41, "links", 0, <<31, 21>>), Row(42, "links", 0, <<33, 22>>),
   Row(51, "review_flags", 31, "open"), Row(52, "review_flags", 33, "open")}
MCGraphs == {Fixed \cup rows : rows \in SUBSET Optional}
\* The first document is the second; or, in a chain, the second is the third too.
MCManifests ==
  {[hash |-> g, documents |-> {<<1, 2>>}, revisions |-> {<<11, 12>>}] : g \in MCGraphs}
  \cup {[hash |-> g, documents |-> {<<1, 2>>, <<2, 3>>}, revisions |-> {<<11, 12>>, <<12, 13>>}]
        : g \in MCGraphs}

VARIABLE focus

\* The component out of focus rests in one fixed initial state.
BuildRests == /\ batch = <<Ref(NoId), Ref(NoId)>>
              /\ src = [i \in Items |-> d1]
MigrationRests == version = 1 /\ source = CHOOSE c \in DbContents : TRUE

LineageRests == graph = Fixed /\ manifest.documents = {<<1, 2>>}

MCInit ==
  /\ focus \in {"build", "migration", "lineage"}
  /\ BuildInit /\ (focus # "build" => BuildRests)
  /\ MigrationInit /\ (focus # "migration" => MigrationRests)
  /\ LineageInit /\ (focus # "lineage" => LineageRests)
MCNext ==
  /\ UNCHANGED focus
  /\ \/ focus = "build" /\ BuildNext /\ UNCHANGED <<migrationVars, lineageVars>>
     \/ focus = "migration" /\ MigrationNext /\ UNCHANGED <<buildVars, lineageVars>>
     \/ focus = "lineage" /\ LineageNext /\ UNCHANGED <<buildVars, migrationVars>>
MCSpec ==
  /\ MCInit /\ [][MCNext]_<<buildVars, migrationVars, lineageVars, focus>>
  /\ \A p \in Importers :
       WF_buildVars(focus = "build" /\ ImportStep(p) /\ UNCHANGED <<migrationVars, lineageVars, focus>>)
===============================================================================
