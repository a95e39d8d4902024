--------------------------- MODULE LineageMigration ---------------------------
(***************************************************************************)
(* The migration of legacy document lineage: a reviewed manifest says that *)
(* a legacy document and a canonical one are the same; the planner proves  *)
(* from the rows of the database that every legacy row has a canonical     *)
(* counterpart, and only then a copy without the legacy rows is published, *)
(* with the aliases and a report.                                          *)
(*                                                                         *)
(* A row is a record [id, table, parent, payload]; payload stands for the  *)
(* columns that the comparison of its table looks at.  A link is a row of  *)
(* table "links" whose payload is <<source, target>>, a review flag one    *)
(* whose parent is the evidence it is about.                               *)
(***************************************************************************)
EXTENDS Integers, FiniteSets

CONSTANTS
  Graphs,       \* the databases considered: sets of rows
  Manifests,    \* reviewed manifests: [hash, documents, revisions], the last two sets of <<legacy, canonical>>
  MaxGraphSwaps \* bound: replacements of the source by another program

VARIABLES
  graph,     \* rows of the source database
  manifest,  \* the reviewed manifest
  graphSwaps,
  line,      \* the migration: where it is, the hash and the plan it made, its copy
  shelf      \* what is published: a subset of {"output", "aliases", "report"}, and the output

lineageVars == <<graph, manifest, graphSwaps, line, shelf>>

-----------------------------------------------------------------------------
(* The plan.                                                               *)

RowsOf(g, table) == {r \in g : r.table = table}
Ids(rows) == {r.id : r \in rows}
RowById(g, id) == CHOOSE r \in g : r.id = id
Children(g, table, parent) == {r \in RowsOf(g, table) : r.parent = parent}

\* Ids are primary keys, and those of two tables have different prefixes.
\* Documents and links have no parent; no link or flag is about a link or a flag.
Tables == {"documents", "revisions", "pages", "elements", "clauses", "links", "review_flags"}
IsDatabase(g) ==
  LET evidence(id) == id \notin Ids(RowsOf(g, "links") \cup RowsOf(g, "review_flags"))
  IN /\ \A r \in g : r.table \in Tables
     /\ \A r, s \in g : r.id = s.id => r = s
     /\ \A r, s \in g : r.table = s.table /\ r.table \in {"documents", "links"} =>
          r.parent = s.parent /\ r.parent \notin Ids(g)
     /\ \A r \in RowsOf(g, "links") :
          r.payload = <<r.payload[1], r.payload[2]>> /\ evidence(r.payload[1]) /\ evidence(r.payload[2])
     /\ \A r \in RowsOf(g, "review_flags") : evidence(r.parent)
\* A manifest that names a legacy or a canonical id twice is refused.
OneToOne(pairs) ==
  /\ \A p \in pairs : p = <<p[1], p[2]>>
  /\ \A p, q \in pairs : p[1] = q[1] \/ p[2] = q[2] => p = q

ASSUME LineageAssumption ==
  /\ MaxGraphSwaps \in Nat
  /\ \A g \in Graphs : IsDatabase(g)
  /\ \A m \in Manifests : OneToOne(m.documents) /\ OneToOne(m.revisions)

\* Legacy rows are matched in the order of their ids with the one canonical
\* row of equal payload that no earlier row took: with two or more such rows
\* the match is ambiguous, and the second of two equal legacy rows has none.
MatchPayloadRows(legacy, canonical) ==
  {pair \in Ids(legacy) \X Ids(canonical) :
     \E l \in legacy, c \in canonical :
       /\ pair = <<l.id, c.id>>
       /\ l.payload = c.payload
       /\ \A x \in canonical : x.payload = l.payload => x = c
       /\ \A x \in legacy : x.payload = l.payload => l.id <= x.id}

\* Documents of equal title, revisions of the declared documents with the
\* declared source hash and equal metadata.
MatchDocuments(g, m) ==
  {pair \in m.documents : /\ {pair[1], pair[2]} \subseteq Ids(RowsOf(g, "documents"))
                          /\ RowById(g, pair[1]).payload = RowById(g, pair[2]).payload}
MatchRevisions(g, m, docs) ==
  {pair \in m.revisions :
     /\ {pair[1], pair[2]} \subseteq Ids(RowsOf(g, "revisions"))
     /\ <<RowById(g, pair[1]).parent, RowById(g, pair[2]).parent>> \in docs
     /\ RowById(g, pair[1]).payload = RowById(g, pair[2]).payload}

\* The pages of a revision pair: the same page numbers, else none.
PageNumbers(g, rev) == {r.payload : r \in Children(g, "pages", rev)}
MatchPages(g, revs) ==
  UNION {IF PageNumbers(g, pair[1]) = PageNumbers(g, pair[2])
         THEN MatchPayloadRows(Children(g, "pages", pair[1]), Children(g, "pages", pair[2])) ELSE {}
         : pair \in revs}
MatchContents(g, pages, revs) ==
  (UNION {MatchPayloadRows(Children(g, "elements", pair[1]), Children(g, "elements", pair[2])) : pair \in pages})
  \cup
  (UNION {MatchPayloadRows(Children(g, "clauses", pair[1]), Children(g, "clauses", pair[2])) : pair \in revs})

\* Where a legacy id leads, itself for any other.
Image(map, id) == IF \E pair \in map : pair[1] = id THEN (CHOOSE pair \in map : pair[1] = id)[2] ELSE id

\* A link or flag that touches a legacy row needs exactly one row that is its
\* image.
LegacyLinks(g, map) ==
  {r \in RowsOf(g, "links") : \E pair \in map : pair[1] \in {r.payload[1], r.payload[2]}}
MatchLinks(g, map) ==
  {pair \in Ids(LegacyLinks(g, map)) \X Ids(RowsOf(g, "links")) :
     \E r \in LegacyLinks(g, map), c \in RowsOf(g, "links") :
       /\ pair = <<r.id, c.id>>
       /\ LET image == <<Image(map, r.payload[1]), Image(map, r.payload[2])>>
          IN {x \in RowsOf(g, "links") : x.payload = image} = {c}}
LegacyFlags(g, map) == {r \in RowsOf(g, "review_flags") : \E pair \in map : pair[1] = r.parent}
MatchReviewFlags(g, map) ==
  {pair \in Ids(LegacyFlags(g, map)) \X Ids(RowsOf(g, "review_flags")) :
     \E r \in LegacyFlags(g, map), c \in RowsOf(g, "review_flags") :
       /\ pair = <<r.id, c.id>>
       /\ {x \in RowsOf(g, "review_flags") : x.parent = Image(map, r.parent) /\ x.payload = r.payload} = {c}}

\* The legacy rows a plan has to account for, table by table.
LegacyRows(g, m, docs, revs, pages) ==
  {pair[1] : pair \in m.documents \cup m.revisions}
  \cup Ids(UNION {Children(g, "pages", pair[1]) \cup Children(g, "clauses", pair[1]) : pair \in revs})
  \cup Ids(UNION {Children(g, "elements", pair[1]) : pair \in pages})

\* Links, flags and retrieval records are compared only once the rows match.
PlanLineage(g, m) ==
  LET docs == MatchDocuments(g, m)
      revs == MatchRevisions(g, m, docs)
      pages == MatchPages(g, revs)
      map == docs \cup revs \cup pages \cup MatchContents(g, pages, revs)
      structural == LegacyRows(g, m, docs, revs, pages) \subseteq {pair[1] : pair \in map}
      relations == MatchLinks(g, map) \cup MatchReviewFlags(g, map)
      related == Ids(LegacyLinks(g, map) \cup LegacyFlags(g, map)) \subseteq {pair[1] : pair \in relations}
  IN IF m.hash # g THEN [ready |-> FALSE, map |-> {}]
     ELSE [ready |-> structural /\ related, map |-> map \cup relations]

-----------------------------------------------------------------------------
(* The migration.                                                          *)

\* Every legacy row is deleted; a foreign key (a row left under a deleted
\* parent) or a canonical row that was itself deleted fails the check.
DeleteLegacy(g, map) == {r \in g : \A pair \in map : pair[1] # r.id}
Parented(g) == \A r \in g : r.table \in {"revisions", "pages", "elements", "clauses"} => r.parent \in Ids(g)

\* Mutant: the state after the deletion is not verified.
MutVerifyMapping(g, map) == Parented(g) \/ map = {}

VerifyMapping(g, map) == Parented(g) /\ \A pair \in map : pair[2] \in Ids(g)

LineageInit ==
  /\ graph \in Graphs
  /\ manifest \in {m \in Manifests : m.hash = graph}
  /\ graphSwaps = 0
  /\ line = [at |-> "plan", hash |-> {}, map |-> {}, copy |-> {}]
  /\ shelf = [files |-> {}, output |-> {}]

Halt(why) == line' = [line EXCEPT !.at = why]
Plan ==
  LET plan == PlanLineage(graph, manifest)
  IN /\ line.at = "plan"
     /\ IF plan.ready THEN line' = [line EXCEPT !.at = "copy", !.hash = graph, !.map = plan.map]
        ELSE Halt("blocked")
     /\ UNCHANGED <<graph, manifest, graphSwaps, shelf>>
CopyWithoutLegacy ==
  LET rest == DeleteLegacy(graph, line.map)
  IN /\ line.at = "copy"
     /\ IF {pair[1] : pair \in line.map} \subseteq Ids(graph) /\ VerifyMapping(rest, line.map)
        THEN line' = [line EXCEPT !.at = "recheck", !.copy = rest]
        ELSE Halt("failed")
     /\ UNCHANGED <<graph, manifest, graphSwaps, shelf>>
RecheckSource ==
  /\ line.at = "recheck"
  /\ Halt(IF graph = line.hash THEN "output" ELSE "failed")
  /\ UNCHANGED <<graph, manifest, graphSwaps, shelf>>

\* The database, the aliases and the report are linked one after the other.
PublishNext ==
  \E step \in {<<"output", "aliases">>, <<"aliases", "report">>, <<"report", "published">>} :
    /\ line.at = step[1]
    /\ shelf' = [files |-> shelf.files \cup {step[1]}, output |-> line.copy]
    /\ Halt(step[2])
    /\ UNCHANGED <<graph, manifest, graphSwaps>>
LineageCrash ==
  /\ line.at \notin {"plan", "blocked", "failed", "published", "crash"}
  /\ Halt("crash")
  /\ UNCHANGED <<graph, manifest, graphSwaps, shelf>>
ReplaceGraph ==
  /\ graphSwaps < MaxGraphSwaps
  /\ graphSwaps' = graphSwaps + 1
  /\ graph' \in Graphs \ {graph}
  /\ UNCHANGED <<manifest, line, shelf>>

LineageNext == Plan \/ CopyWithoutLegacy \/ RecheckSource \/ PublishNext \/ LineageCrash \/ ReplaceGraph
LineageSpec == LineageInit /\ [][LineageNext]_lineageVars

\* No evidence is lost: where an output is published and the source was not
\* replaced and replaced back, every row of the source is in it under its own
\* id or under that of a row of equal payload, with its parent, its links and
\* its flags in their images.
NothingLost ==
  "output" \in shelf.files /\ graphSwaps < 2 =>
    \A r \in line.hash : \E x \in shelf.output :
      /\ x.id = Image(line.map, r.id)
      /\ x.table = r.table
      /\ x.parent = Image(line.map, r.parent)
      /\ x.payload = IF r.table = "links"
                     THEN <<Image(line.map, r.payload[1]), Image(line.map, r.payload[2])>> ELSE r.payload
===============================================================================
