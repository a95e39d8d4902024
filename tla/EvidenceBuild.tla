---------------------------- MODULE EvidenceBuild ----------------------------
(***************************************************************************)
(* The build of an evidence database from a source batch:                  *)
(* import_source_batch hashes the declared PDFs, parses the parser         *)
(* artifact of each, fills the page-image cache, builds and finalizes a    *)
(* database in a temporary directory and links it to its output path       *)
(* create-only.  Several importers may run at once; the PDFs and the       *)
(* artifacts are ordinary files which other programs replace at any time.  *)
(*                                                                         *)
(* The bytes of a PDF are a member of Docs (which is also its hash and     *)
(* names its revision); different PDFs have different page sizes.  The     *)
(* bytes of an artifact are a record: the PDF it was made from and an      *)
(* edition.                                                                *)
(***************************************************************************)
EXTENDS Integers, FiniteSets, Sequences

CONSTANTS
  Importers,    \* processes that import the batch
  Items,        \* the source items of the batch
  Docs,         \* contents of PDFs
  Editions,     \* editions of a parser artifact
  DocIds,       \* document ids a batch may declare
  NoId,         \* an item without a declared document id or source hash
  Batches,      \* the batches considered: functions from Items to items
  PageCount,    \* number of pages of a PDF
  Cites,        \* the PDFs whose law the text of a PDF cites
  Articled,     \* PDFs whose text has articles, so that clauses derive
  MaxSwaps      \* bound: replacements of a file by another program

\* Items are positions in the declared order, which decides between duplicates.
ASSUME BuildAssumption ==
  /\ Items \subseteq Nat
  /\ Editions # {}
  /\ PageCount \in [Docs -> Nat \ {0}]
  /\ Cites \in [Docs -> SUBSET Docs]
  /\ Articled \subseteq Docs
  /\ MaxSwaps \in Nat
  /\ Batches \subseteq [Items -> [role : {"REFERENCE_DOCUMENT", "CASE_TABLE", "CASE_DRAWING",
                                          "SUPPORTING_IMAGE"},
                                  doc : DocIds \cup {NoId},
                                  parser : BOOLEAN, supported : BOOLEAN,
                                  bound : Docs \cup {NoId}]]

VARIABLES
  batch,    \* the declared items
  src,      \* bytes of each source file
  art,      \* bytes of each parser artifact
  swaps,    \* history: how many files were replaced
  cache,    \* the page-image directory of each revision
  lock,     \* holder of the lock of each revision, or "free"
  output,   \* the database at the output path
  imp,      \* what each importer knows and does next
  tmp       \* the database in each importer's temporary directory

buildVars == <<batch, src, art, swaps, cache, lock, output, imp, tmp>>

Artifacts == [doc : Docs, edition : Editions]
NoDb == [rows |-> {}, clauses |-> {}, links |-> {}, hash |-> <<>>, state |-> "NONE", index |-> <<>>]
NoCache == [pages |-> <<>>, geometry |-> <<>>]
Nothing == [payload |-> <<>>, elements |-> <<>>, tables |-> <<>>, geometry |-> <<>>,
            hash |-> <<>>, images |-> <<>>]

-----------------------------------------------------------------------------
(* The batch: identity, readiness, duplicates.                             *)

\* Readiness of one declared item.  A parser artifact that is declared was
\* resolved to a file before, so it is available.
Readiness(it) ==
  CASE it.role = "CASE_DRAWING" -> "PENDING_DRAWING_INGESTION"
    [] it.role = "SUPPORTING_IMAGE" -> "BLOCKED"
    [] OTHER -> IF ~it.parser THEN "PENDING_PARSER_OUTPUT"
                ELSE IF ~it.supported THEN "BLOCKED" ELSE "PENDING_REFERENCE_INGESTION"

PrepareItem(i) ==
  [item |-> i, hash |-> src[i], role |-> batch[i].role, parser |-> batch[i].parser,
   id |-> IF batch[i].doc = NoId THEN src[i] ELSE batch[i].doc, state |-> Readiness(batch[i])]

\* Two items with the same bytes are one source: same id, same role, and the
\* same parser binding where both have one.
MayMerge(a, b) ==
  /\ a.id = b.id
  /\ a.role = b.role
  /\ a.parser /\ b.parser => /\ batch[a.item].supported = batch[b.item].supported
                             /\ batch[a.item].bound = batch[b.item].bound
                             /\ art[a.item] = art[b.item]

\* Of a group of duplicates the first in path order that has a parser stays.
Merged(group) ==
  LET withParser == {a \in group : a.parser}
      from == IF withParser = {} THEN group ELSE withParser
  IN CHOOSE a \in from : \A b \in from : a.item <= b.item

PrepareSourceBatch ==
  LET all == {PrepareItem(i) : i \in Items}
      legal == \A a, b \in all : /\ a.id = b.id => a.hash = b.hash
                                 /\ a.hash = b.hash => MayMerge(a, b)
  IN [legal |-> legal,
      sources |-> IF legal THEN {Merged({a \in all : a.hash = h}) : h \in {a.hash : a \in all}}
                  ELSE {}]

\* Only parser-ready references and tables go into the database; one that is
\* pending or blocked stops the batch, a drawing or an image is left out.
Evidence(sources) == {s \in sources : s.role \in {"REFERENCE_DOCUMENT", "CASE_TABLE"}}
BatchReady(sources) ==
  /\ \A s \in Evidence(sources) : s.state \notin {"PENDING_PARSER_OUTPUT", "BLOCKED"}
  /\ \E s \in sources : s.state = "PENDING_REFERENCE_INGESTION"
Ingestible(sources) == {s \in sources : s.state = "PENDING_REFERENCE_INGESTION"}

-----------------------------------------------------------------------------
(* What is read from an artifact and from a PDF.                           *)

\* The parser's header: page count, title, declared page sizes.
ReadParserJson(a) == [pages |-> PageCount[a.doc], of |-> a]
LoadRawElements(a) == [kind |-> "elements", of |-> a]
LoadParsedTables(a, rev) == [kind |-> "tables", of |-> a, revision |-> rev]
ReadPdfPageGeometries(d) == [n |-> PageCount[d], of |-> d]

\* A source hash declared in the parser options must be the hash of the PDF.
SourceBinding(s) == batch[s.item].bound \in {NoId, src[s.item]}
ReconcilePages(payload, geometry) == payload.pages = geometry.n

-----------------------------------------------------------------------------
(* The database.                                                           *)

SourceRow(s, got) ==
  [revision |-> s.hash, id |-> s.id, payload |-> got.payload, elements |-> got.elements,
   tables |-> got.tables, geometry |-> got.geometry]

Content(db) == <<db.rows, db.clauses, db.links>>
Hash(db) == <<"logical", Content(db)>>

\* Elements and tables must lie on pages of their revision.
IngestAccepts(rows) ==
  \A r \in rows : \A read \in {r.elements, r.tables} : PageCount[read.of.doc] <= r.geometry.n
Ingested(rows) == [NoDb EXCEPT !.rows = rows, !.hash = <<"payload", rows>>, !.state = "BUILDING"]

Revisions(rows) == {r.revision : r \in rows}
UncoveredRevisions(db) == {r \in db.rows : r.revision \notin Revisions(db.clauses)}
DeriveClauses(rows) ==
  {[revision |-> r.revision, of |-> r.elements.of.doc] : r \in {x \in rows : x.elements.of.doc \in Articled}}
WithClauses(db) == [db EXCEPT !.clauses = @ \cup DeriveClauses(UncoveredRevisions(db))]

\* The full-text index, with the clause projection its trigger rebuilds.
IndexOf(db) == [hash |-> db.hash, rows |-> db.rows, clauses |-> db.clauses]
WithIndex(db) == [db EXCEPT !.index = IndexOf(db)]
FreshIndex(db) == db.index = IndexOf(db)

\* Each citation of an indexed clause resolves to clauses of an ingested
\* document, to a document without a match, or to none.
Titled(db, d) == {r \in db.rows : r.payload.of.doc = d}
Citation(db, c, d) ==
  [from |-> c.revision, to |-> d,
   kind |-> IF Cardinality(Titled(db, d)) # 1 THEN "source_not_ingested"
            ELSE IF \E k \in db.index.clauses :
                      k.of = d /\ k.revision \in Revisions(Titled(db, d))
                 THEN "rule_source" ELSE "reference_target_missing"]
WithLinks(db) ==
  [db EXCEPT !.links = UNION {{Citation(db, c, d) : d \in Cites[c.of]} : c \in db.index.clauses}]

CommitFinal(db) == [db EXCEPT !.hash = Hash(db), !.state = "FINALIZED"]

\* A finalized database holds the rows its hash names and their index.
ValidateFinalized(db) ==
  /\ db.state = "FINALIZED"
  /\ db.hash = Hash(db)
  /\ FreshIndex(db)

-----------------------------------------------------------------------------
BuildInit ==
  /\ batch \in Batches
  /\ src \in [Items -> Docs]
  /\ \A i \in Items : batch[i].bound \in {NoId, src[i]}
  /\ art = [i \in Items |-> [doc |-> src[i], edition |-> CHOOSE e \in Editions : TRUE]]
  /\ swaps = 0
  /\ cache = [d \in Docs |-> NoCache]
  /\ lock = [d \in Docs |-> "free"]
  /\ output = NoDb
  /\ imp = [p \in Importers |-> [pc |-> "start", sources |-> {}, todo |-> {}, got |-> Nothing, rows |-> {}]]
  /\ tmp = [p \in Importers |-> NoDb]

files == <<batch, src, art, swaps>>
At(p, where) == imp[p].pc = where
Goto(p, where) == imp' = [imp EXCEPT ![p].pc = where]
Current(p) == CHOOSE s \in imp[p].todo : \A t \in imp[p].todo : s.item <= t.item
Got(p, field, value, where) ==
  imp' = [imp EXCEPT ![p].got[field] = value, ![p].pc = where]

\* Mutant: the lock file stays locked.
MutRelease(p) == p \in Importers /\ UNCHANGED lock

\* An exception: the temporary directory and the lock go with it.
Release(p) == lock' = [d \in Docs |-> IF lock[d] = p THEN "free" ELSE lock[d]]
Refuse(p) ==
  /\ Goto(p, "refused")
  /\ tmp' = [tmp EXCEPT ![p] = NoDb]
  /\ Release(p)
  /\ UNCHANGED <<files, cache, output>>

Start(p) ==
  /\ At(p, "start")
  /\ IF output # NoDb THEN Refuse(p)
     ELSE Goto(p, "prepare") /\ UNCHANGED <<files, cache, lock, output, tmp>>

Prepare(p) ==
  LET prepared == PrepareSourceBatch
  IN /\ At(p, "prepare")
     /\ IF ~prepared.legal \/ ~BatchReady(prepared.sources) THEN Refuse(p)
        ELSE /\ imp' = [imp EXCEPT ![p] = [@ EXCEPT !.pc = "payload", !.sources = prepared.sources,
                                                    !.todo = Ingestible(prepared.sources)]]
             /\ UNCHANGED <<files, cache, lock, output, tmp>>

\* The adapter reads the artifact three times, the PDF once, and hashes the
\* artifact last.
ParsePayload(p) ==
  LET s == Current(p)
  IN /\ At(p, "payload")
     /\ IF ~SourceBinding(s) THEN Refuse(p)
        ELSE /\ Got(p, "payload", ReadParserJson(art[s.item]), "elements")
             /\ UNCHANGED <<files, cache, lock, output, tmp>>
ParseElements(p) ==
  /\ At(p, "elements")
  /\ Got(p, "elements", LoadRawElements(art[Current(p).item]), "tables")
  /\ UNCHANGED <<files, cache, lock, output, tmp>>
ParseTables(p) ==
  /\ At(p, "tables")
  /\ Got(p, "tables", LoadParsedTables(art[Current(p).item], Current(p).hash), "geometry")
  /\ UNCHANGED <<files, cache, lock, output, tmp>>
ParseGeometry(p) ==
  LET read == ReadPdfPageGeometries(src[Current(p).item])
  IN /\ At(p, "geometry")
     /\ IF \/ ~ReconcilePages(imp[p].got.payload, read)
           \/ PageCount[imp[p].got.elements.of.doc] > imp[p].got.payload.pages
        THEN Refuse(p)
        ELSE Got(p, "geometry", read, "hash") /\ UNCHANGED <<files, cache, lock, output, tmp>>
HashArtifact(p) ==
  /\ At(p, "hash")
  /\ Got(p, "hash", art[Current(p).item], "checkArtifact")
  /\ UNCHANGED <<files, cache, lock, output, tmp>>
CheckArtifact(p) ==
  /\ At(p, "checkArtifact")
  /\ IF art[Current(p).item] # imp[p].got.hash THEN Refuse(p)
     ELSE Goto(p, "checkSource") /\ UNCHANGED <<files, cache, lock, output, tmp>>

\* Mutant: the source is not hashed again.
MutTrustSource(p) == p \in Importers

\* The bytes of the source must still be the prepared ones.
SourceUnchanged(p) == src[Current(p).item] = Current(p).hash
CheckSource(p) ==
  LET s == Current(p)
      rest == imp[p].todo \ {s}
      rows == imp[p].rows \cup {SourceRow(s, imp[p].got)}
  IN /\ At(p, "checkSource")
     /\ IF ~SourceUnchanged(p) THEN Refuse(p)
        ELSE /\ imp' = [imp EXCEPT ![p] =
                  IF rest = {} THEN [@ EXCEPT !.pc = "cacheGeometry", !.rows = rows, !.got = Nothing,
                                              !.todo = Ingestible(imp[p].sources)]
                  ELSE [@ EXCEPT !.pc = "payload", !.rows = rows, !.got = Nothing, !.todo = rest]]
             /\ UNCHANGED <<files, cache, lock, output, tmp>>

-----------------------------------------------------------------------------
(* The page-image cache, one directory per revision, filled under a lock.  *)

CacheGeometry(p) ==
  /\ At(p, "cacheGeometry")
  /\ Got(p, "geometry", ReadPdfPageGeometries(src[Current(p).item]), "cacheLock")
  /\ UNCHANGED <<files, cache, lock, output, tmp>>

\* The next source, or on to the database.
NextSource(p) ==
  imp' = [imp EXCEPT ![p] =
            IF @.todo = {Current(p)} THEN [@ EXCEPT !.pc = "create", !.todo = {}, !.got = Nothing]
            ELSE [@ EXCEPT !.pc = "cacheGeometry", !.todo = imp[p].todo \ {Current(p)}, !.got = Nothing]]

CacheLock(p) ==
  LET rev == Current(p).hash
  IN /\ At(p, "cacheLock")
     /\ lock[rev] = "free"
     /\ lock' = [lock EXCEPT ![rev] = p]
     /\ Goto(p, "cacheVerify")
     /\ UNCHANGED <<files, cache, output, tmp>>

\* Every page of the geometry has its image and metadata bound to it.
LoadedPages(p, rev) ==
  /\ Len(cache[rev].pages) >= imp[p].got.geometry.n
  /\ cache[rev].geometry = imp[p].got.geometry
CacheVerify(p) ==
  LET rev == Current(p).hash
  IN /\ At(p, "cacheVerify")
     /\ IF ~SourceUnchanged(p) THEN Refuse(p)
        ELSE IF LoadedPages(p, rev)
             THEN NextSource(p) /\ Release(p) /\ UNCHANGED <<files, cache, output, tmp>>
             ELSE IF cache[rev] # NoCache THEN Refuse(p)
                  ELSE Goto(p, "render") /\ UNCHANGED <<files, cache, lock, output, tmp>>

\* One page of the PDF as it is now; it must still have that page.
RenderPage(p) ==
  LET page == Len(imp[p].got.images) + 1
      d == src[Current(p).item]
  IN /\ At(p, "render")
     /\ page <= imp[p].got.geometry.n
     /\ IF page > PageCount[d] THEN Refuse(p)
        ELSE /\ Got(p, "images", Append(imp[p].got.images, d), "render")
             /\ UNCHANGED <<files, cache, lock, output, tmp>>
RenameCache(p) ==
  LET rev == Current(p).hash
  IN /\ At(p, "render")
     /\ Len(imp[p].got.images) = imp[p].got.geometry.n
     /\ IF ~SourceUnchanged(p) THEN Refuse(p)
        ELSE /\ cache' = [cache EXCEPT ![rev] = [pages |-> imp[p].got.images,
                                                 geometry |-> imp[p].got.geometry]]
             /\ NextSource(p)
             /\ Release(p)
             /\ UNCHANGED <<files, output, tmp>>

-----------------------------------------------------------------------------
(* The temporary database; each step is a transaction of its own.          *)

Build(p, from, to, db) ==
  /\ At(p, from)
  /\ tmp' = [tmp EXCEPT ![p] = db]
  /\ Goto(p, to)
  /\ UNCHANGED <<files, cache, lock, output>>

IngestSnapshot(p) ==
  IF At(p, "create") /\ ~IngestAccepts(imp[p].rows) THEN Refuse(p)
  ELSE Build(p, "create", "clauses", Ingested(imp[p].rows))
MaterializeClauses(p) == Build(p, "clauses", "provisional", WithClauses(tmp[p]))
ProvisionalIndex(p) == Build(p, "provisional", "links", WithIndex(tmp[p]))
MaterializeLinks(p) == Build(p, "links", "commit", WithLinks(tmp[p]))
CommitFinalized(p) == Build(p, "commit", "index", CommitFinal(tmp[p]))
FinalIndex(p) == Build(p, "index", "validate", WithIndex(tmp[p]))
ValidateBuild(p) ==
  /\ At(p, "validate")
  /\ IF ~ValidateFinalized(tmp[p]) \/ output # NoDb THEN Refuse(p)
     ELSE Goto(p, "publish") /\ UNCHANGED <<files, cache, lock, output, tmp>>

\* Mutant: the database is moved over what is at the output path.
MutLinkOutput(p) ==
  /\ At(p, "publish")
  /\ output' = tmp[p]
  /\ Goto(p, "linked")
  /\ UNCHANGED <<files, cache, lock, tmp>>

\* os.link fails when the output exists.
LinkOutput(p) ==
  /\ At(p, "publish")
  /\ IF output # NoDb THEN Refuse(p)
     ELSE output' = tmp[p] /\ Goto(p, "linked") /\ UNCHANGED <<files, cache, lock, tmp>>
Report(p) ==
  /\ At(p, "linked")
  /\ tmp' = [tmp EXCEPT ![p] = NoDb]
  /\ Goto(p, "done")
  /\ UNCHANGED <<files, cache, lock, output>>

Ended == {"done", "refused", "crashed", "crashedLinked"}

\* The end of a process: its lock goes, its temporary directory stays.
BuildCrash(p) ==
  /\ imp[p].pc \notin Ended \cup {"start"}
  /\ Goto(p, IF At(p, "linked") THEN "crashedLinked" ELSE "crashed")
  /\ Release(p)
  /\ UNCHANGED <<files, cache, output, tmp>>

\* Another program replaces a PDF or its artifact.
Swap(i) ==
  /\ swaps < MaxSwaps
  /\ swaps' = swaps + 1
  /\ \/ \E d \in Docs \ {src[i]} : src' = [src EXCEPT ![i] = d] /\ UNCHANGED art
     \/ \E a \in Artifacts \ {art[i]} : art' = [art EXCEPT ![i] = a] /\ UNCHANGED src
  /\ UNCHANGED <<batch, cache, lock, output, imp, tmp>>

ImportStep(p) ==
  \/ Start(p) \/ Prepare(p)
  \/ ParsePayload(p) \/ ParseElements(p) \/ ParseTables(p) \/ ParseGeometry(p)
  \/ HashArtifact(p) \/ CheckArtifact(p) \/ CheckSource(p)
  \/ CacheGeometry(p) \/ CacheLock(p) \/ CacheVerify(p) \/ RenderPage(p) \/ RenameCache(p)
  \/ IngestSnapshot(p) \/ MaterializeClauses(p) \/ ProvisionalIndex(p) \/ MaterializeLinks(p)
  \/ CommitFinalized(p) \/ FinalIndex(p) \/ ValidateBuild(p) \/ LinkOutput(p) \/ Report(p)

BuildNext ==
  \/ \E p \in Importers : ImportStep(p) \/ BuildCrash(p)
  \/ \E i \in Items : Swap(i)

BuildSpec ==
  /\ BuildInit /\ [][BuildNext]_buildVars
  /\ \A p \in Importers : WF_buildVars(ImportStep(p))
-----------------------------------------------------------------------------
(* Properties.                                                             *)

\* What the output path promises its readers (see EvidenceAuthority): the
\* database appears there once, complete and valid, from the importer that
\* reports success, and never changes.
Answer(pc) == CASE pc \in {"done", "refused"} -> pc
                [] pc \in {"crashed", "crashedLinked"} -> "crashed"
                [] OTHER -> "none"
Authority == INSTANCE EvidenceAuthority WITH
  Builders <- Importers,
  NoEvidence <- <<>>,
  Invalid <- <<NoId>>,
  authority <- CASE output = NoDb -> <<>>
                 [] ValidateFinalized(output) -> Content(output)
                 [] OTHER -> <<NoId>>,
  owner <- {p \in Importers : imp[p].pc \in {"linked", "done", "crashedLinked"}},
  answer <- [p \in Importers |-> Answer(imp[p].pc)]
AuthorityRefined == Authority!AuthoritySpec

\* One replacement of a file is always noticed: a published row carries the
\* page geometry of another PDF than its revision names, or the image cache
\* of a revision a page of another PDF, only when the file was replaced and
\* replaced back between the checks of prepare, parse and render.
ForeignNeedsTwoSwaps ==
  swaps < 2 =>
     /\ \A r \in output.rows : r.geometry.of = r.revision
     /\ \A d \in Docs : \A k \in DOMAIN cache[d].pages : cache[d].pages[k] = d

\* A published database never cites a page without an image: the cache of
\* each of its revisions has every page of the geometry it was built with.
PublishedHasImages ==
  \A r \in output.rows : /\ cache[r.revision] # NoCache
                         /\ Len(cache[r.revision].pages) = cache[r.revision].geometry.n

\* What is published cites pages of its own PDFs, and all their images are there.
PublishedIsWhole == ForeignNeedsTwoSwaps /\ PublishedHasImages

\* An import that started ends: no lock of another import, finished, refused
\* or crashed, keeps it waiting.
ImportEnds == \A p \in Importers : At(p, "prepare") ~> imp[p].pc \in Ended
=============================================================================
