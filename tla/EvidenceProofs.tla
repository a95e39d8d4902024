---------------------------- MODULE EvidenceProofs ----------------------------
(***************************************************************************)
(* What the build of an evidence database and its migrations guarantee for *)
(* any number of importers and migrators, any batch, any PDFs and any      *)
(* number of replacements of a file by other programs.                     *)
(***************************************************************************)
EXTENDS EvidenceBuild, EvidenceMigration, LineageMigration, WellFoundedInduction, TLAPS

-----------------------------------------------------------------------------
(* The build: types.                                                       *)

Roles == {"REFERENCE_DOCUMENT", "CASE_TABLE", "CASE_DRAWING", "SUPPORTING_IMAGE"}
ReadyStates == {"PENDING_DRAWING_INGESTION", "BLOCKED", "PENDING_PARSER_OUTPUT",
                "PENDING_REFERENCE_INGESTION"}
Prepared == [item : Items, hash : Docs, role : Roles, parser : BOOLEAN,
             id : Docs \cup DocIds, state : ReadyStates]

Payloads == [pages : Nat, of : Artifacts]
ElementReads == [kind : {"elements"}, of : Artifacts]
TableReads == [kind : {"tables"}, of : Artifacts, revision : Docs]
Geometries == [n : Nat \ {0}, of : Docs]
Gots == [payload : Payloads \cup {<<>>}, elements : ElementReads \cup {<<>>},
         tables : TableReads \cup {<<>>}, geometry : Geometries \cup {<<>>},
         hash : Artifacts \cup {<<>>}, images : Seq(Docs)]

Rows == [revision : Docs, id : Docs \cup DocIds, payload : Payloads, elements : ElementReads,
         tables : TableReads, geometry : Geometries]
Clauses == [revision : Docs, of : Docs]
Links == [from : Docs, to : Docs,
          kind : {"source_not_ingested", "rule_source", "reference_target_missing"}]
Hashes == ({"logical"} \X ((SUBSET Rows) \X (SUBSET Clauses) \X (SUBSET Links)))
          \cup ({"payload"} \X SUBSET Rows) \cup {<<>>}
IndexRecords == [hash : Hashes, rows : SUBSET Rows, clauses : SUBSET Clauses]
Indexes == IndexRecords \cup {<<>>}
Dbs == [rows : SUBSET Rows, clauses : SUBSET Clauses, links : SUBSET Links, hash : Hashes,
        state : {"NONE", "BUILDING", "FINALIZED"}, index : Indexes]
Caches == [pages : Seq(Docs), geometry : Geometries] \cup {NoCache}

\* Where an importer works on a source, and what it has read of it by then.
AfterTables == {"geometry", "hash", "checkArtifact", "checkSource"}
AfterElements == AfterTables \cup {"tables"}
AfterPayload == AfterElements \cup {"elements"}
Caching == {"cacheGeometry", "cacheLock", "cacheVerify", "render"}
AfterGeometry == {"hash", "checkArtifact", "checkSource", "cacheLock", "cacheVerify", "render"}
OnSource == {"payload"} \cup AfterPayload \cup Caching
Indexing == {"clauses", "provisional", "links", "commit", "index", "validate", "publish", "linked"}
Steps == {"start", "prepare", "create"} \cup OnSource \cup Indexing \cup Ended

Knowledge == [pc : Steps, sources : SUBSET Prepared, todo : SUBSET Prepared,
              got : Gots, rows : SUBSET Rows]

BuildTypeOK ==
  /\ batch \in [Items -> [role : Roles, doc : DocIds \cup {NoId}, parser : BOOLEAN,
                          supported : BOOLEAN, bound : Docs \cup {NoId}]]
  /\ src \in [Items -> Docs]
  /\ art \in [Items -> Artifacts]
  /\ swaps \in Nat
  /\ cache \in [Docs -> Caches]
  /\ lock \in [Docs -> Importers \cup {"free"}]
  /\ output \in Dbs
  /\ imp \in [Importers -> Knowledge]
  /\ tmp \in [Importers -> Dbs]

\* What an importer has to do is part of what it prepared, and something while
\* it works on a source; what it knows of the source is what it has read.  It
\* resolves the citations of a database that has an index.
Read(i) ==
  /\ i.todo \subseteq Ingestible(i.sources)
  /\ i.pc \in OnSource => i.todo # {}
  /\ i.pc \in AfterPayload => i.got.payload \in Payloads
  /\ i.pc \in AfterElements => i.got.elements \in ElementReads
  /\ i.pc \in AfterTables => i.got.tables \in TableReads
  /\ i.pc \in AfterGeometry => i.got.geometry \in Geometries
ReadSoFar ==
  \A p \in Importers :
    /\ Read(imp[p])
    /\ imp[p].pc = "links" => tmp[p].index \in IndexRecords

-----------------------------------------------------------------------------
(* The build: the inductive invariant.                                     *)

\* An importer fills the cache source by source before it creates a database
\* of the sources it prepared; the temporary database holds those rows.
FromRows == {"create"} \cup Indexing
FromCache == Caching \cup FromRows
RowsAreCached(p) ==
  LET i == imp[p] IN
    /\ i.pc \in {"start", "prepare"} => i.rows = {}
    /\ i.pc \in FromRows => i.todo = {}
    /\ i.pc \in FromCache => \A s \in Ingestible(i.sources) \ i.todo : cache[s.hash] # NoCache
    /\ \A r \in i.rows : \E s \in Ingestible(i.sources) : r.revision = s.hash
    /\ i.pc \in Indexing => tmp[p].rows = i.rows
CacheBeforeRows == \A p \in Importers : RowsAreCached(p)

\* A cache directory that exists holds every page of its geometry.
CacheIsWhole == \A d \in Docs : cache[d] # NoCache => Len(cache[d].pages) = cache[d].geometry.n

OutputIsCached == \A r \in output.rows : cache[r.revision] # NoCache

\* What was read of a source other than its prepared bytes was read of bytes
\* that are still there, unless two files were replaced: the next comparison
\* with the prepared hash refuses it.
Stale(p) == src[Current(p).item] # Current(p).hash
ReadsAreOwn(p) ==
  LET i == imp[p] IN
    /\ swaps = 0 => \A s \in i.sources : src[s.item] = s.hash
    /\ i.pc \in AfterGeometry => i.got.geometry.of = Current(p).hash \/ Stale(p)
    /\ i.pc \in Caching =>
         (\A k \in DOMAIN i.got.images : i.got.images[k] = Current(p).hash) \/ Stale(p)
    /\ \A r \in i.rows : r.geometry.of = r.revision
ForeignIsStale ==
  swaps < 2 =>
    /\ \A p \in Importers : ReadsAreOwn(p)
    /\ \A d \in Docs : \A k \in DOMAIN cache[d].pages : cache[d].pages[k] = d
    /\ \A r \in output.rows : r.geometry.of = r.revision

\* The database at the output path was validated and has one owner.
Owners == {p \in Importers : imp[p].pc \in {"linked", "done", "crashedLinked"}}
OutputHasOwner ==
  /\ \A p \in Importers : imp[p].pc = "publish" => ValidateFinalized(tmp[p])
  /\ output # NoDb => ValidateFinalized(output)
  /\ output = NoDb => Owners = {}
  /\ \A p, q \in Owners : p = q

BuildInv ==
  /\ BuildTypeOK /\ ReadSoFar
  /\ CacheBeforeRows /\ CacheIsWhole /\ OutputIsCached
  /\ ForeignIsStale
  /\ OutputHasOwner

-----------------------------------------------------------------------------
(* Operators of the model.                                                 *)

\* A non-empty set of sources has a first one.
LEMMA FirstSource ==
    ASSUME NEW S, S \subseteq Prepared, S # {}
    PROVE  \E s \in S : \A t \in S : s.item <= t.item
  <1> DEFINE T == {s.item : s \in S}
  <1>0. Items \subseteq Nat
    BY BuildAssumption
  <1>1. T \subseteq Nat /\ T # {}
    BY <1>0 DEF Prepared
  <1>2. PICK x \in T : \A y \in T : ~(<<y, x>> \in OpToRel(<, Nat))
    <2> HIDE DEF T
    <2> QED BY <1>1, WFMin, NatLessThanWellFounded
  <1>3. \A y \in T : ~(y < x)
    BY <1>1, <1>2 DEF OpToRel
  <1>4. PICK s \in S : s.item = x
    OBVIOUS
  <1>5. \A t \in S : s.item <= t.item
    BY <1>1, <1>3, <1>4
  <1> QED
    BY <1>5

\* The source an importer works on is one of those it has to do.
LEMMA CurrentInTodo ==
    ASSUME NEW p \in Importers, imp[p].todo \subseteq Prepared, imp[p].todo # {}
    PROVE  Current(p) \in imp[p].todo
  BY FirstSource DEF Current

-----------------------------------------------------------------------------
(* The build: every step keeps the variables in their types.               *)

LEMMA ReadsTyped ==
    /\ \A a \in Artifacts : ReadParserJson(a) \in Payloads /\ LoadRawElements(a) \in ElementReads
    /\ \A a \in Artifacts, d \in Docs : LoadParsedTables(a, d) \in TableReads
    /\ \A d \in Docs : ReadPdfPageGeometries(d) \in Geometries
  <1>1. PageCount \in [Docs -> Nat \ {0}]
    BY BuildAssumption
  <1> QED
    BY <1>1 DEF ReadParserJson, LoadRawElements, LoadParsedTables, ReadPdfPageGeometries,
                Payloads, ElementReads, TableReads, Geometries, Artifacts

LEMMA NothingTyped == Nothing \in Gots /\ NoDb \in Dbs
  BY DEF Nothing, Gots, NoDb, Dbs, Hashes, Indexes

\* A step of one importer that only changes what it knows.
LEMMA KnowledgeStep ==
    ASSUME BuildTypeOK, ReadSoFar, NEW p \in Importers, NEW i \in Knowledge, Read(i),
           imp' = [imp EXCEPT ![p] = i],
           UNCHANGED <<batch, src, art, swaps>>, cache' \in [Docs -> Caches],
           lock' \in [Docs -> Importers \cup {"free"}], output' \in Dbs,
           tmp' \in [Importers -> Dbs], \A q \in Importers : q # p => tmp'[q] = tmp[q],
           i.pc = "links" => tmp'[p].index \in IndexRecords
    PROVE  BuildTypeOK' /\ ReadSoFar'
  <1>1. BuildTypeOK'
    BY DEF BuildTypeOK
  <1>2. ReadSoFar'
    BY DEF BuildTypeOK, ReadSoFar
  <1> QED BY <1>1, <1>2

\* An importer that moves on.
LEMMA Moved ==
    ASSUME BuildTypeOK, NEW p \in Importers, NEW where \in Steps
    PROVE  /\ [imp EXCEPT ![p].pc = where] = [imp EXCEPT ![p] = [imp[p] EXCEPT !.pc = where]]
           /\ [imp[p] EXCEPT !.pc = where] \in Knowledge
           /\ [imp[p] EXCEPT !.pc = where].pc = where
           /\ \A f \in {"sources", "todo", "got", "rows"} :
                [imp[p] EXCEPT !.pc = where][f] = imp[p][f]
  BY DEF BuildTypeOK, Knowledge

LEMMA ReleaseTyped ==
    ASSUME BuildTypeOK, NEW p \in Importers, Release(p)
    PROVE  lock' \in [Docs -> Importers \cup {"free"}]
  BY DEF BuildTypeOK, Release

LEMMA RefuseTyped ==
    ASSUME BuildTypeOK, ReadSoFar, NEW p \in Importers, Refuse(p)
    PROVE  BuildTypeOK' /\ ReadSoFar'
  <1> DEFINE i == [imp[p] EXCEPT !.pc = "refused"]
  <1>1. "refused" \in Steps
    BY DEF Steps, Ended
  <1>2. /\ imp' = [imp EXCEPT ![p] = i] /\ i \in Knowledge
        /\ i.pc = "refused" /\ i.todo = imp[p].todo /\ i.sources = imp[p].sources
    BY <1>1, Moved DEF Refuse, Goto
  <1>3. Read(i)
    BY <1>2 DEF Read, ReadSoFar, OnSource, AfterPayload, AfterElements, AfterTables, AfterGeometry,
                Caching
  <1>4. tmp' \in [Importers -> Dbs]
    BY NothingTyped DEF Refuse, BuildTypeOK
  <1> HIDE DEF i
  <1> QED
    BY <1>2, <1>3, <1>4, KnowledgeStep, ReleaseTyped DEF Refuse, files, BuildTypeOK

\* An importer that reads something.
GotFields == {"payload", "elements", "tables", "geometry", "hash", "images"}
Fits(field, value) ==
  \/ field = "payload" /\ value \in Payloads
  \/ field = "elements" /\ value \in ElementReads
  \/ field = "tables" /\ value \in TableReads
  \/ field = "geometry" /\ value \in Geometries
  \/ field = "hash" /\ value \in Artifacts
  \/ field = "images" /\ value \in Seq(Docs)
LEMMA Learned ==
    ASSUME BuildTypeOK, NEW p \in Importers, NEW where \in Steps,
           NEW field \in GotFields, NEW value, Fits(field, value),
           Got(p, field, value, where)
    PROVE  \E i \in Knowledge :
             /\ imp' = [imp EXCEPT ![p] = i]
             /\ i.pc = where /\ i.sources = imp[p].sources /\ i.todo = imp[p].todo
             /\ i.rows = imp[p].rows
             /\ i.got[field] = value
             /\ \A f \in GotFields \ {field} : i.got[f] = imp[p].got[f]
  <1> DEFINE g == [imp[p].got EXCEPT ![field] = value]
             i == [[imp[p] EXCEPT !.got = g] EXCEPT !.pc = where]
  <1>1. imp[p] \in Knowledge /\ imp[p].got \in Gots
    BY DEF BuildTypeOK, Knowledge
  <1>2. g \in Gots
    BY <1>1 DEF Gots, GotFields, Fits
  <1>3. g[field] = value /\ \A f \in GotFields \ {field} : g[f] = imp[p].got[f]
    BY <1>1 DEF Gots, GotFields
  <1>4. imp' = [imp EXCEPT ![p] = i]
    BY <1>1 DEF Got, BuildTypeOK
  <1> HIDE DEF g
  <1>5. /\ i \in Knowledge /\ i.pc = where /\ i.sources = imp[p].sources
        /\ i.todo = imp[p].todo /\ i.rows = imp[p].rows /\ i.got = g
    BY <1>1, <1>2 DEF Knowledge
  <1> HIDE DEF i
  <1> QED
    BY <1>3, <1>4, <1>5

\* The source an importer works on.
LEMMA CurrentTyped ==
    ASSUME BuildTypeOK, ReadSoFar, NEW p \in Importers, imp[p].pc \in OnSource
    PROVE  /\ Current(p) \in imp[p].todo /\ Current(p) \in Ingestible(imp[p].sources)
           /\ Current(p) \in imp[p].sources
           /\ Current(p) \in Prepared /\ Current(p).item \in Items /\ Current(p).hash \in Docs
           /\ src[Current(p).item] \in Docs /\ art[Current(p).item] \in Artifacts
  <1>1. imp[p].todo # {} /\ imp[p].todo \subseteq Prepared
        /\ imp[p].todo \subseteq Ingestible(imp[p].sources)
    BY DEF BuildTypeOK, ReadSoFar, Read, Knowledge
  <1>2. Current(p) \in imp[p].todo
    BY <1>1, CurrentInTodo
  <1>3. Current(p) \in Prepared
    BY <1>1, <1>2
  <1>4. Current(p).item \in Items /\ Current(p).hash \in Docs
    BY <1>3 DEF Prepared
  <1> QED
    BY <1>1, <1>2, <1>3, <1>4 DEF BuildTypeOK, Ingestible

LEMMA PrepareTyped ==
    ASSUME BuildTypeOK
    PROVE  /\ PrepareSourceBatch.sources \subseteq Prepared
           /\ PrepareSourceBatch.sources \subseteq {PrepareItem(i) : i \in Items}
  <1>1. \A i \in Items : PrepareItem(i) \in Prepared
    BY DEF BuildTypeOK, PrepareItem, Prepared, Readiness, ReadyStates, Roles
  <1> DEFINE all == {PrepareItem(i) : i \in Items}
  <1>2. ASSUME NEW h \in {a.hash : a \in all} PROVE Merged({a \in all : a.hash = h}) \in all
    <2> DEFINE group == {a \in all : a.hash = h}
               withParser == {a \in group : a.parser}
               from == IF withParser = {} THEN group ELSE withParser
    <2>1. group # {} /\ group \subseteq Prepared
      BY <1>1, <1>2
    <2>2. from # {} /\ from \subseteq Prepared /\ from \subseteq all
      BY <2>1
    <2> HIDE DEF group
    <2>3. Merged(group) = CHOOSE a \in from : \A b \in from : a.item <= b.item
      BY DEF Merged
    <2> HIDE DEF from
    <2>4. Merged(group) \in from
      BY <2>2, <2>3, FirstSource
    <2> QED
      BY <2>2, <2>4 DEF group
  <1>3. PrepareSourceBatch.sources \subseteq {Merged({a \in all : a.hash = h}) : h \in {a.hash : a \in all}}
    BY DEF PrepareSourceBatch
  <1>4. all \subseteq Prepared
    BY <1>1
  <1> HIDE DEF all
  <1>5. PrepareSourceBatch.sources \subseteq all
    BY <1>2, <1>3
  <1> QED
    BY <1>4, <1>5 DEF all

LEMMA PhaseOf ==
    /\ OnSource \cup Indexing \cup Ended \cup {"start", "prepare", "create"} = Steps
    /\ \A w \in {"start", "prepare", "create"} \cup Indexing \cup Ended :
         w \notin OnSource /\ w \notin AfterPayload /\ w \notin AfterGeometry
    /\ AfterTables \subseteq AfterElements /\ AfterElements \subseteq AfterPayload
    /\ AfterPayload \cup AfterGeometry \subseteq OnSource
  BY DEF Steps, OnSource, Indexing, Ended, AfterPayload, AfterElements, AfterTables,
         AfterGeometry, Caching

\* Reading the artifact and the PDF, and comparing.
LEMMA ParseTyped ==
    ASSUME BuildTypeOK, ReadSoFar, NEW p \in Importers,
           \/ ParsePayload(p) \/ ParseElements(p) \/ ParseTables(p) \/ ParseGeometry(p)
           \/ HashArtifact(p) \/ CheckArtifact(p) \/ CacheGeometry(p)
    PROVE  BuildTypeOK' /\ ReadSoFar'
  <1> USE DEF OnSource, AfterPayload, AfterElements, AfterTables, AfterGeometry, Caching, At
  <1> DEFINE s == Current(p)
  <1>1. Read(imp[p]) /\ tmp \in [Importers -> Dbs] /\ output \in Dbs
        /\ lock \in [Docs -> Importers \cup {"free"}] /\ cache \in [Docs -> Caches]
    BY DEF BuildTypeOK, ReadSoFar
  <1>2. imp[p].pc \in OnSource
    BY DEF ParsePayload, ParseElements, ParseTables, ParseGeometry, HashArtifact, CheckArtifact,
           CacheGeometry
  <1>3. /\ art[s.item] \in Artifacts /\ src[s.item] \in Docs /\ s.hash \in Docs
    BY <1>2, CurrentTyped
  <1>4. ASSUME NEW field \in GotFields, NEW value, NEW where \in OnSource,
               Got(p, field, value, where), Fits(field, value),
               UNCHANGED <<batch, src, art, swaps, cache, lock, output, tmp>>,
               where \in AfterPayload => field = "payload" \/ imp[p].pc \in AfterPayload,
               where \in AfterElements => field = "elements" \/ imp[p].pc \in AfterElements,
               where \in AfterTables => field = "tables" \/ imp[p].pc \in AfterTables,
               where \in AfterGeometry => field = "geometry" \/ imp[p].pc \in AfterGeometry
        PROVE  BuildTypeOK' /\ ReadSoFar'
    <2>1. where \in Steps
      BY DEF Steps
    <2>2. PICK i \in Knowledge :
             /\ imp' = [imp EXCEPT ![p] = i]
             /\ i.pc = where /\ i.sources = imp[p].sources /\ i.todo = imp[p].todo
             /\ i.got[field] = value
             /\ \A f \in GotFields \ {field} : i.got[f] = imp[p].got[f]
      BY <1>4, <2>1, Learned
    <2>3. /\ i.got.payload = IF field = "payload" THEN value ELSE imp[p].got.payload
          /\ i.got.elements = IF field = "elements" THEN value ELSE imp[p].got.elements
          /\ i.got.tables = IF field = "tables" THEN value ELSE imp[p].got.tables
          /\ i.got.geometry = IF field = "geometry" THEN value ELSE imp[p].got.geometry
      BY <2>2 DEF GotFields
    <2>4. Read(i)
      BY <1>1, <1>2, <1>4, <2>2, <2>3 DEF Read, Fits
    <2> QED
      BY <1>1, <1>4, <2>2, <2>4, KnowledgeStep
  <1>5. CASE Refuse(p)
    BY <1>5, RefuseTyped
  <1>6. CASE ParsePayload(p) /\ ~Refuse(p)
    <2>1. Fits("payload", ReadParserJson(art[s.item]))
      BY <1>3, ReadsTyped DEF Fits
    <2> QED BY <1>6, <2>1, <1>4 DEF ParsePayload, GotFields, files
  <1>7. CASE ParseElements(p)
    <2>1. Fits("elements", LoadRawElements(art[s.item]))
      BY <1>3, ReadsTyped DEF Fits
    <2> QED BY <1>7, <2>1, <1>4 DEF ParseElements, GotFields, files
  <1>8. CASE ParseTables(p)
    <2>1. Fits("tables", LoadParsedTables(art[s.item], s.hash))
      BY <1>3, ReadsTyped DEF Fits
    <2> QED BY <1>8, <2>1, <1>4 DEF ParseTables, GotFields, files
  <1>9. CASE ParseGeometry(p) /\ ~Refuse(p)
    <2>1. Fits("geometry", ReadPdfPageGeometries(src[s.item]))
      BY <1>3, ReadsTyped DEF Fits
    <2> QED BY <1>9, <2>1, <1>4 DEF ParseGeometry, GotFields, files
  <1>10. CASE HashArtifact(p)
    <2>1. Fits("hash", art[s.item])
      BY <1>3 DEF Fits
    <2> QED BY <1>10, <2>1, <1>4 DEF HashArtifact, GotFields, files
  <1>11. CASE CheckArtifact(p) /\ ~Refuse(p)
    <2> DEFINE i == [imp[p] EXCEPT !.pc = "checkSource"]
    <2>1. /\ imp' = [imp EXCEPT ![p] = i] /\ i \in Knowledge /\ i.pc = "checkSource"
          /\ i.sources = imp[p].sources /\ i.todo = imp[p].todo /\ i.got = imp[p].got
      BY <1>11, Moved DEF CheckArtifact, Goto, Steps
    <2> HIDE DEF i
    <2>2. Read(i)
      BY <1>1, <1>11, <2>1 DEF Read, CheckArtifact
    <2> QED
      BY <1>1, <1>11, <2>1, <2>2, KnowledgeStep DEF CheckArtifact, files
  <1>12. CASE CacheGeometry(p)
    <2>1. Fits("geometry", ReadPdfPageGeometries(src[s.item]))
      BY <1>3, ReadsTyped DEF Fits
    <2> QED BY <1>12, <2>1, <1>4 DEF CacheGeometry, GotFields, files
  <1> QED
    BY <1>5, <1>6, <1>7, <1>8, <1>9, <1>10, <1>11, <1>12

\* Starting, preparing the batch, and the end of a source that was parsed.
LEMMA SourceTyped ==
    ASSUME BuildTypeOK, ReadSoFar, NEW p \in Importers,
           Start(p) \/ Prepare(p) \/ CheckSource(p)
    PROVE  BuildTypeOK' /\ ReadSoFar'
  <1> USE DEF OnSource, AfterPayload, AfterElements, AfterTables, AfterGeometry, Caching, At
  <1>1. Read(imp[p]) /\ imp[p] \in Knowledge /\ tmp \in [Importers -> Dbs] /\ output \in Dbs
        /\ lock \in [Docs -> Importers \cup {"free"}] /\ cache \in [Docs -> Caches]
    BY DEF BuildTypeOK, ReadSoFar
  <1>2. CASE Refuse(p)
    BY <1>2, RefuseTyped
  <1>3. CASE Start(p) /\ ~Refuse(p)
    <2> DEFINE i == [imp[p] EXCEPT !.pc = "prepare"]
    <2>1. /\ imp' = [imp EXCEPT ![p] = i] /\ i \in Knowledge /\ i.pc = "prepare"
          /\ i.sources = imp[p].sources /\ i.todo = imp[p].todo /\ i.got = imp[p].got
      BY <1>3, Moved DEF Start, Goto, Steps
    <2> HIDE DEF i
    <2>2. Read(i)
      BY <1>1, <2>1 DEF Read
    <2> QED
      BY <1>1, <1>3, <2>1, <2>2, KnowledgeStep DEF Start, files
  <1>4. CASE Prepare(p) /\ ~Refuse(p)
    <2> DEFINE sources == PrepareSourceBatch.sources
               i == [imp[p] EXCEPT !.pc = "payload", !.sources = sources, !.todo = Ingestible(sources)]
    <2>1. /\ imp' = [imp EXCEPT ![p] = i] /\ BatchReady(sources)
          /\ UNCHANGED <<batch, src, art, swaps, cache, lock, output, tmp>>
      BY <1>4 DEF Prepare, files
    <2>2. sources \subseteq Prepared
      BY PrepareTyped
    <2> HIDE DEF sources
    <2>3. Ingestible(sources) # {} /\ Ingestible(sources) \subseteq Prepared
      BY <2>1, <2>2 DEF BatchReady, Ingestible
    <2>4. i \in Knowledge /\ i.pc = "payload" /\ i.sources = sources /\ i.todo = Ingestible(sources)
      BY <1>1, <2>2, <2>3 DEF Knowledge, Steps
    <2> HIDE DEF i
    <2>5. Read(i)
      BY <2>3, <2>4 DEF Read
    <2> QED
      BY <1>1, <2>1, <2>4, <2>5, KnowledgeStep
  <1>5. CASE CheckSource(p) /\ ~Refuse(p)
    <2> DEFINE s == Current(p)
               rest == imp[p].todo \ {s}
               row == SourceRow(s, imp[p].got)
               rows == imp[p].rows \cup {row}
               i == IF rest = {} THEN [imp[p] EXCEPT !.pc = "cacheGeometry", !.rows = rows,
                                         !.got = Nothing, !.todo = Ingestible(imp[p].sources)]
                    ELSE [imp[p] EXCEPT !.pc = "payload", !.rows = rows, !.got = Nothing, !.todo = rest]
    <2>1. imp' = [imp EXCEPT ![p] = i] /\ imp[p].pc = "checkSource"
          /\ UNCHANGED <<batch, src, art, swaps, cache, lock, output, tmp>>
      BY <1>5 DEF CheckSource, files
    <2>2. s \in imp[p].todo /\ s \in Prepared /\ s \in Ingestible(imp[p].sources)
      BY <2>1, CurrentTyped
    <2>3. imp[p].sources \subseteq Prepared /\ Ingestible(imp[p].sources) \subseteq Prepared
          /\ rest \subseteq Prepared
      BY <1>1 DEF Ingestible, Knowledge
    <2>4. row \in Rows
      BY <1>1, <2>1, <2>2 DEF Read, SourceRow, Rows, Prepared
    <2>5. rows \subseteq Rows
      BY <1>1, <2>4 DEF Knowledge
    <2> HIDE DEF s, rest, row, rows
    <2>6. /\ i \in Knowledge /\ i.sources = imp[p].sources
          /\ \/ i.pc = "cacheGeometry" /\ i.todo = Ingestible(imp[p].sources)
             \/ i.pc = "payload" /\ i.todo = rest /\ rest # {}
      BY <1>1, <2>3, <2>5, NothingTyped DEF Knowledge, Steps
    <2> HIDE DEF i
    <2>7. Read(i)
      BY <1>1, <2>2, <2>6 DEF Read, rest
    <2> QED
      BY <1>1, <2>1, <2>6, <2>7, KnowledgeStep
  <1> QED
    BY <1>2, <1>3, <1>4, <1>5

\* The next source of the cache, or on to the database.
LEMMA NextSourceTyped ==
    ASSUME BuildTypeOK, ReadSoFar, NEW p \in Importers, imp[p].pc \in Caching, NextSource(p)
    PROVE  \E i \in Knowledge :
             /\ imp' = [imp EXCEPT ![p] = i] /\ Read(i)
             /\ i.sources = imp[p].sources /\ i.rows = imp[p].rows
             /\ i.todo = imp[p].todo \ {Current(p)}
             /\ \/ i.pc = "create" /\ i.todo = {}
                \/ i.pc = "cacheGeometry"
  <1> USE DEF OnSource, AfterPayload, AfterElements, AfterTables, AfterGeometry, Caching
  <1> DEFINE i == IF imp[p].todo = {Current(p)}
                  THEN [imp[p] EXCEPT !.pc = "create", !.todo = {}, !.got = Nothing]
                  ELSE [imp[p] EXCEPT !.pc = "cacheGeometry", !.todo = imp[p].todo \ {Current(p)},
                                      !.got = Nothing]
  <1>1. imp[p] \in Knowledge /\ Read(imp[p]) /\ Current(p) \in imp[p].todo
    BY CurrentTyped DEF BuildTypeOK, ReadSoFar
  <1>2. imp' = [imp EXCEPT ![p] = i]
    BY DEF NextSource
  <1>3. /\ i \in Knowledge /\ i.sources = imp[p].sources /\ i.rows = imp[p].rows
        /\ i.todo = imp[p].todo \ {Current(p)}
        /\ \/ i.pc = "create" /\ i.todo = {}
           \/ i.pc = "cacheGeometry" /\ i.todo # {}
    BY <1>1, NothingTyped DEF Knowledge, Steps
  <1> HIDE DEF i
  <1>4. Read(i)
    BY <1>1, <1>3 DEF Read
  <1> QED
    BY <1>2, <1>3, <1>4

\* The page-image cache.
LEMMA CacheTyped ==
    ASSUME BuildTypeOK, ReadSoFar, NEW p \in Importers,
           CacheLock(p) \/ CacheVerify(p) \/ RenderPage(p) \/ RenameCache(p)
    PROVE  BuildTypeOK' /\ ReadSoFar'
  <1> USE DEF OnSource, AfterPayload, AfterElements, AfterTables, AfterGeometry, Caching, At
  <1> DEFINE rev == Current(p).hash
  <1>1. Read(imp[p]) /\ imp[p] \in Knowledge /\ tmp \in [Importers -> Dbs] /\ output \in Dbs
        /\ lock \in [Docs -> Importers \cup {"free"}] /\ cache \in [Docs -> Caches]
    BY DEF BuildTypeOK, ReadSoFar
  <1>2. imp[p].pc \in Caching
    BY DEF CacheLock, CacheVerify, RenderPage, RenameCache
  <1>3. rev \in Docs /\ src[Current(p).item] \in Docs
    BY <1>2, CurrentTyped
  <1> HIDE DEF rev
  <1>4. CASE Refuse(p)
    BY <1>4, RefuseTyped
  <1>5. ASSUME NextSource(p), Release(p), cache' \in [Docs -> Caches],
               UNCHANGED <<batch, src, art, swaps, output, tmp>>
        PROVE  BuildTypeOK' /\ ReadSoFar'
    BY <1>1, <1>2, <1>5, NextSourceTyped, ReleaseTyped, KnowledgeStep
  <1>6. ASSUME NEW where \in {"cacheVerify", "render"}, Goto(p, where),
               imp[p].pc \in {"cacheLock", "cacheVerify"},
               lock' \in [Docs -> Importers \cup {"free"}],
               UNCHANGED <<batch, src, art, swaps, cache, output, tmp>>
        PROVE  BuildTypeOK' /\ ReadSoFar'
    <2> DEFINE i == [imp[p] EXCEPT !.pc = where]
    <2>0. where \in Steps
      BY DEF Steps
    <2>1. /\ imp' = [imp EXCEPT ![p] = i] /\ i \in Knowledge /\ i.pc = where
          /\ i.sources = imp[p].sources /\ i.todo = imp[p].todo /\ i.got = imp[p].got
      BY <1>6, <2>0, Moved DEF Goto
    <2> HIDE DEF i
    <2>2. Read(i)
      BY <1>1, <1>6, <2>1 DEF Read
    <2> QED
      BY <1>1, <1>6, <2>1, <2>2, KnowledgeStep
  <1>7. CASE CacheLock(p)
    <2>1. lock' \in [Docs -> Importers \cup {"free"}]
      BY <1>1, <1>7 DEF CacheLock
    <2> QED
      BY <1>6, <1>7, <2>1 DEF CacheLock, files
  <1>8. CASE CacheVerify(p) /\ ~Refuse(p)
    BY <1>1, <1>5, <1>6, <1>8 DEF CacheVerify, files
  <1>9. CASE RenderPage(p) /\ ~Refuse(p)
    <2> DEFINE images == Append(imp[p].got.images, src[Current(p).item])
    <2>1. Fits("images", images)
      BY <1>1, <1>3 DEF Fits, Knowledge, Gots
    <2>2. Got(p, "images", images, "render") /\ imp[p].pc = "render"
          /\ UNCHANGED <<batch, src, art, swaps, cache, lock, output, tmp>>
      BY <1>9 DEF RenderPage, files
    <2> HIDE DEF images
    <2>3. PICK i \in Knowledge :
             /\ imp' = [imp EXCEPT ![p] = i]
             /\ i.pc = "render" /\ i.sources = imp[p].sources /\ i.todo = imp[p].todo
             /\ \A f \in GotFields \ {"images"} : i.got[f] = imp[p].got[f]
      BY SMTT(40), <2>1, <2>2, Learned DEF GotFields, Steps
    <2>4. i.got.geometry = imp[p].got.geometry
      BY <2>3 DEF GotFields
    <2>5. Read(i)
      BY <1>1, <2>2, <2>3, <2>4 DEF Read
    <2> QED
      BY <1>1, <2>2, <2>3, <2>5, KnowledgeStep
  <1>10. CASE RenameCache(p) /\ ~Refuse(p)
    <2>1. [pages |-> imp[p].got.images, geometry |-> imp[p].got.geometry] \in Caches
      BY <1>1, <1>10 DEF RenameCache, Read, Knowledge, Gots, Caches
    <2>2. cache' \in [Docs -> Caches]
      BY <1>1, <1>3, <1>10, <2>1 DEF RenameCache, rev
    <2> QED
      BY <1>5, <1>10, <2>2 DEF RenameCache, files
  <1> QED
    BY <1>4, <1>7, <1>8, <1>9, <1>10

LEMMA ClausesTyped ==
    ASSUME NEW rows, rows \subseteq Rows
    PROVE  DeriveClauses(rows) \subseteq Clauses
  BY DEF DeriveClauses, Rows, ElementReads, Artifacts, Clauses

LEMMA DatabaseTyped ==
    ASSUME NEW db \in Dbs
    PROVE  /\ \A rows \in SUBSET Rows : Ingested(rows) \in Dbs
           /\ WithClauses(db) \in Dbs /\ CommitFinal(db) \in Dbs
           /\ WithIndex(db) \in Dbs /\ WithIndex(db).index \in IndexRecords
           /\ db.index \in IndexRecords => WithLinks(db) \in Dbs
  <1>1. ASSUME NEW rows \in SUBSET Rows PROVE Ingested(rows) \in Dbs
    BY NothingTyped DEF Ingested, Dbs, Hashes
  <1>2. WithClauses(db) \in Dbs
    <2>1. UncoveredRevisions(db) \subseteq Rows
      BY DEF UncoveredRevisions, Dbs
    <2> QED
      BY <2>1, ClausesTyped DEF WithClauses, Dbs
  <1>3. WithIndex(db) \in Dbs /\ WithIndex(db).index \in IndexRecords
    BY DEF WithIndex, IndexOf, Dbs, Indexes, IndexRecords
  <1>4. ASSUME db.index \in IndexRecords PROVE WithLinks(db) \in Dbs
    <2>1. ASSUME NEW c \in Clauses, NEW d \in Docs PROVE Citation(db, c, d) \in Links
      BY DEF Citation, Clauses, Links
    <2>2. \A c \in Clauses : Cites[c.of] \subseteq Docs
      BY BuildAssumption DEF Clauses
    <2>3. ASSUME NEW c \in db.index.clauses PROVE c \in Clauses
      BY <1>4 DEF IndexRecords
    <2>4. UNION {{Citation(db, c, d) : d \in Cites[c.of]} : c \in db.index.clauses} \subseteq Links
      BY <2>1, <2>2, <2>3
    <2> QED
      BY <2>4 DEF WithLinks, Dbs
  <1>5. CommitFinal(db) \in Dbs
    BY DEF CommitFinal, Hash, Content, Dbs, Hashes
  <1> QED
    BY <1>1, <1>2, <1>3, <1>4, <1>5

\* An importer that only moves on, its database apart.
LEMMA MovedTyped ==
    ASSUME BuildTypeOK, ReadSoFar, NEW p \in Importers,
           NEW where \in {"create"} \cup Indexing \cup Ended, Goto(p, where),
           lock' \in [Docs -> Importers \cup {"free"}], output' \in Dbs, tmp' \in [Importers -> Dbs],
           \A q \in Importers : q # p => tmp'[q] = tmp[q],
           where = "links" => tmp'[p].index \in IndexRecords,
           UNCHANGED <<batch, src, art, swaps, cache>>
    PROVE  BuildTypeOK' /\ ReadSoFar'
  <1> DEFINE i == [imp[p] EXCEPT !.pc = where]
  <1>0. where \in Steps
    BY DEF Steps
  <1>1. /\ imp' = [imp EXCEPT ![p] = i] /\ i \in Knowledge /\ i.pc = where
        /\ i.sources = imp[p].sources /\ i.todo = imp[p].todo /\ i.got = imp[p].got
    BY <1>0, Moved DEF Goto
  <1> HIDE DEF i
  <1>2. where \notin OnSource /\ where \notin AfterPayload /\ where \notin AfterElements
        /\ where \notin AfterTables /\ where \notin AfterGeometry
    BY PhaseOf
  <1>3. Read(i)
    BY <1>1, <1>2 DEF Read, ReadSoFar
  <1>4. cache' \in [Docs -> Caches]
    BY DEF BuildTypeOK
  <1> QED
    BY <1>1, <1>3, <1>4, KnowledgeStep

\* The temporary database and the output.
LEMMA BuildTyped ==
    ASSUME BuildTypeOK, ReadSoFar, NEW p \in Importers,
           \/ IngestSnapshot(p) \/ MaterializeClauses(p) \/ ProvisionalIndex(p) \/ MaterializeLinks(p)
           \/ CommitFinalized(p) \/ FinalIndex(p) \/ ValidateBuild(p) \/ LinkOutput(p) \/ Report(p)
           \/ BuildCrash(p)
    PROVE  BuildTypeOK' /\ ReadSoFar'
  <1> USE DEF At
  <1>1. /\ imp[p] \in Knowledge /\ tmp \in [Importers -> Dbs] /\ output \in Dbs /\ tmp[p] \in Dbs
        /\ lock \in [Docs -> Importers \cup {"free"}]
    BY DEF BuildTypeOK
  <1>2. CASE Refuse(p)
    BY <1>2, RefuseTyped
  <1>3. ASSUME NEW from, NEW to \in Indexing, NEW db \in Dbs, Build(p, from, to, db),
               to = "links" => db.index \in IndexRecords
        PROVE  BuildTypeOK' /\ ReadSoFar'
    <2>1. tmp' \in [Importers -> Dbs] /\ (\A q \in Importers : q # p => tmp'[q] = tmp[q])
          /\ tmp'[p] = db
      BY <1>1, <1>3 DEF Build
    <2> QED
      BY <1>1, <1>3, <2>1, MovedTyped DEF Build, files
  <1>4. CASE IngestSnapshot(p) /\ ~Refuse(p)
    <2>1. Ingested(imp[p].rows) \in Dbs
      BY <1>1, DatabaseTyped DEF Knowledge
    <2> QED
      BY <1>3, <1>4, <2>1 DEF IngestSnapshot, Indexing
  <1>5. CASE MaterializeClauses(p)
    BY <1>1, <1>3, <1>5, DatabaseTyped DEF MaterializeClauses, Indexing
  <1>6. CASE ProvisionalIndex(p)
    BY <1>1, <1>3, <1>6, DatabaseTyped DEF ProvisionalIndex, Indexing
  <1>7. CASE MaterializeLinks(p)
    <2>1. tmp[p].index \in IndexRecords
      BY <1>7 DEF MaterializeLinks, Build, ReadSoFar
    <2> QED
      BY <1>1, <1>3, <1>7, <2>1, DatabaseTyped DEF MaterializeLinks, Indexing
  <1>8. CASE CommitFinalized(p)
    BY <1>1, <1>3, <1>8, DatabaseTyped DEF CommitFinalized, Indexing
  <1>9. CASE FinalIndex(p)
    BY <1>1, <1>3, <1>9, DatabaseTyped DEF FinalIndex, Indexing
  <1>10. CASE ValidateBuild(p) /\ ~Refuse(p)
    BY <1>1, <1>10, MovedTyped DEF ValidateBuild, files, Indexing
  <1>11. CASE LinkOutput(p) /\ ~Refuse(p)
    BY <1>1, <1>11, MovedTyped DEF LinkOutput, files, Indexing
  <1>12. CASE Report(p)
    <2>1. tmp' \in [Importers -> Dbs] /\ \A q \in Importers : q # p => tmp'[q] = tmp[q]
      BY <1>1, <1>12, NothingTyped DEF Report
    <2> QED
      BY <1>1, <1>12, <2>1, MovedTyped DEF Report, files, Ended
  <1>13. CASE BuildCrash(p)
    <2> DEFINE where == IF imp[p].pc = "linked" THEN "crashedLinked" ELSE "crashed"
    <2>1. Goto(p, where) /\ where \in Ended /\ where # "links"
          /\ UNCHANGED <<batch, src, art, swaps, cache, output, tmp>>
      BY <1>13 DEF BuildCrash, Ended, files
    <2>2. lock' \in [Docs -> Importers \cup {"free"}]
      BY <1>13, ReleaseTyped DEF BuildCrash
    <2> HIDE DEF where
    <2> QED
      BY <1>1, <2>1, <2>2, MovedTyped
  <1> QED
    BY <1>2, <1>4, <1>5, <1>6, <1>7, <1>8, <1>9, <1>10, <1>11, <1>12, <1>13

LEMMA SwapTyped ==
    ASSUME BuildTypeOK, ReadSoFar, NEW i \in Items, Swap(i)
    PROVE  BuildTypeOK' /\ ReadSoFar'
  <1>1. BuildTypeOK'
    BY DEF BuildTypeOK, Swap
  <1>2. ReadSoFar'
    BY DEF ReadSoFar, Swap
  <1> QED BY <1>1, <1>2

LEMMA InitTyped == BuildInit => BuildTypeOK /\ ReadSoFar
  <1> SUFFICES ASSUME BuildInit PROVE BuildTypeOK /\ ReadSoFar
    OBVIOUS
  <1>1. art \in [Items -> Artifacts]
    BY BuildAssumption DEF BuildInit, Artifacts
  <1>2. batch \in [Items -> [role : Roles, doc : DocIds \cup {NoId}, parser : BOOLEAN,
                             supported : BOOLEAN, bound : Docs \cup {NoId}]]
    BY BuildAssumption DEF BuildInit, Roles
  <1>3. \A p \in Importers : imp[p] \in Knowledge /\ imp[p].pc = "start" /\ imp[p].todo = {}
    BY NothingTyped DEF BuildInit, Knowledge, Steps
  <1>4. imp \in [Importers -> Knowledge] /\ tmp \in [Importers -> Dbs] /\ output \in Dbs
    BY <1>3, NothingTyped DEF BuildInit
  <1>5. cache \in [Docs -> Caches] /\ lock \in [Docs -> Importers \cup {"free"}]
        /\ src \in [Items -> Docs] /\ swaps \in Nat
    BY DEF BuildInit, Caches
  <1>6. BuildTypeOK
    BY <1>1, <1>2, <1>4, <1>5 DEF BuildTypeOK
  <1>7. ReadSoFar
    BY <1>3, PhaseOf DEF ReadSoFar, Read
  <1> QED
    BY <1>6, <1>7

LEMMA TypedStep == BuildTypeOK /\ ReadSoFar /\ [BuildNext]_buildVars => BuildTypeOK' /\ ReadSoFar'
  <1> SUFFICES ASSUME BuildTypeOK, ReadSoFar, [BuildNext]_buildVars
               PROVE  BuildTypeOK' /\ ReadSoFar'
    OBVIOUS
  <1>1. CASE UNCHANGED buildVars
    BY <1>1 DEF buildVars, BuildTypeOK, ReadSoFar, Read
  <1>2. ASSUME NEW p \in Importers, ImportStep(p) \/ BuildCrash(p)
        PROVE  BuildTypeOK' /\ ReadSoFar'
    BY <1>2, SourceTyped, ParseTyped, CacheTyped, BuildTyped DEF ImportStep
  <1>3. ASSUME NEW i \in Items, Swap(i) PROVE BuildTypeOK' /\ ReadSoFar'
    BY <1>3, SwapTyped
  <1> QED
    BY <1>1, <1>2, <1>3 DEF BuildNext

\* In every reachable state of a build every variable has its type, and an
\* importer works only on sources it prepared, with what it has read of them.
THEOREM BuildTypeCorrect == BuildSpec => [](BuildTypeOK /\ ReadSoFar)
  <1>1. BuildInit => BuildTypeOK /\ ReadSoFar
    BY InitTyped
  <1>2. BuildTypeOK /\ ReadSoFar /\ [BuildNext]_buildVars => (BuildTypeOK /\ ReadSoFar)'
    BY TypedStep
  <1> QED
    BY <1>1, <1>2, PTL DEF BuildSpec

-----------------------------------------------------------------------------
(* The build: what is at the output path.                                  *)

\* Most steps of an importer leave the output alone and bring it neither to
\* the publication nor among the owners of what is there.
Quiet(p) ==
  /\ imp[p].pc \notin Ended \cup {"linked"}
  /\ imp'[p].pc \in Steps \ {"publish", "linked", "done", "crashedLinked"}
  /\ output' = output
Validated(p) == imp[p].pc = "validate" /\ imp'[p].pc = "publish" /\ ValidateFinalized(tmp'[p]) /\ output' = output
Linked(p) == imp[p].pc = "publish" /\ imp'[p].pc = "linked" /\ output = NoDb /\ output' = tmp[p]
Reported(p) == imp[p].pc = "linked" /\ imp'[p].pc \in {"done", "crashedLinked"} /\ output' = output
Alone(p) ==
  /\ \A q \in Importers \ {p} : imp'[q] = imp[q] /\ tmp'[q] = tmp[q]
  /\ UNCHANGED <<batch, src, art, swaps>>

LEMMA Footprint ==
    ASSUME BuildTypeOK, ReadSoFar, NEW p \in Importers, ImportStep(p) \/ BuildCrash(p)
    PROVE  Alone(p) /\ (Quiet(p) \/ Validated(p) \/ Linked(p) \/ Reported(p))
  <1> USE DEF At, Alone
  <1>1. imp \in [Importers -> Knowledge] /\ tmp \in [Importers -> Dbs] /\ imp[p] \in Knowledge
    BY DEF BuildTypeOK
  <1>2. ASSUME NEW where \in Steps, Goto(p, where)
        PROVE  imp'[p].pc = where /\ \A q \in Importers \ {p} : imp'[q] = imp[q]
    BY <1>1, <1>2, Moved DEF Goto
  <1>3. ASSUME NEW field \in GotFields, NEW value, NEW where \in Steps, Got(p, field, value, where)
        PROVE  imp'[p].pc = where /\ \A q \in Importers \ {p} : imp'[q] = imp[q]
    BY <1>1, <1>3 DEF Got, Knowledge
  <1>4. ASSUME Refuse(p), imp[p].pc \notin Ended \cup {"linked"} PROVE Alone(p) /\ Quiet(p)
    <2>1. "refused" \in Steps
      BY DEF Steps, Ended
    <2> QED
      BY <1>1, <1>2, <1>4, <2>1 DEF Refuse, Quiet, files
  <1>5. ASSUME NextSource(p), imp[p].pc \in Caching, tmp' = tmp, output' = output,
               UNCHANGED <<batch, src, art, swaps>>
        PROVE  Alone(p) /\ Quiet(p)
    <2>1. imp'[p].pc \in {"create", "cacheGeometry"} /\ \A q \in Importers \ {p} : imp'[q] = imp[q]
      BY <1>1, <1>5 DEF NextSource, Knowledge
    <2> QED
      BY <1>5, <2>1 DEF Quiet, Caching, Ended, Steps, OnSource
  <1>6. ASSUME NEW from \in Steps \ (Ended \cup {"linked"}), NEW to \in Indexing \ {"publish", "linked"},
               NEW db, Build(p, from, to, db)
        PROVE  Alone(p) /\ Quiet(p)
    <2>1. to \in Steps
      BY DEF Steps
    <2> QED
      BY <1>1, <1>2, <1>6, <2>1 DEF Build, Quiet, files, Ended, Indexing
  <1> USE DEF Steps, OnSource, AfterPayload, AfterElements, AfterTables, Caching, Indexing, Ended
  <1>7. CASE Start(p)
    BY <1>2, <1>4, <1>7 DEF Start, Quiet, files
  <1>8. CASE Prepare(p)
    <2>1. CASE Refuse(p)
      BY <1>4, <1>8, <2>1 DEF Prepare
    <2>2. CASE ~Refuse(p)
      <3> DEFINE i == [imp[p] EXCEPT !.pc = "payload", !.sources = PrepareSourceBatch.sources,
                                     !.todo = Ingestible(PrepareSourceBatch.sources)]
      <3>0. imp' = [imp EXCEPT ![p] = i] /\ i.pc = "payload"
        BY <1>1, <1>8, <2>2 DEF Prepare, Knowledge
      <3> HIDE DEF i
      <3>1. imp'[p].pc = "payload" /\ \A q \in Importers \ {p} : imp'[q] = imp[q]
        BY <1>1, <3>0
      <3> QED
        BY <1>8, <2>2, <3>1 DEF Prepare, Quiet, files
    <2> QED BY <2>1, <2>2
  <1>9. CASE ParsePayload(p) \/ ParseElements(p) \/ ParseTables(p) \/ ParseGeometry(p)
             \/ HashArtifact(p) \/ CheckArtifact(p) \/ CacheGeometry(p) \/ RenderPage(p)
    <2>1. CASE ParsePayload(p) \/ ParseElements(p) \/ ParseTables(p)
      <3>1. CASE ParsePayload(p)
        BY <1>2, <1>3, <1>4, <3>1 DEF ParsePayload, Quiet, files, GotFields
      <3>2. CASE ParseElements(p)
        BY <1>2, <1>3, <1>4, <3>2 DEF ParseElements, Quiet, files, GotFields
      <3>3. CASE ParseTables(p)
        BY <1>2, <1>3, <1>4, <3>3 DEF ParseTables, Quiet, files, GotFields
      <3> QED BY <2>1, <3>1, <3>2, <3>3
    <2>2. CASE ParseGeometry(p)
      BY <1>2, <1>3, <1>4, <2>2 DEF ParseGeometry, Quiet, files, GotFields
    <2>3. CASE HashArtifact(p)
      BY <1>2, <1>3, <1>4, <2>3 DEF HashArtifact, Quiet, files, GotFields
    <2>4. CASE CheckArtifact(p)
      BY <1>2, <1>3, <1>4, <2>4 DEF CheckArtifact, Quiet, files, GotFields
    <2>5. CASE CacheGeometry(p)
      BY <1>2, <1>3, <1>4, <2>5 DEF CacheGeometry, Quiet, files, GotFields
    <2>6. CASE RenderPage(p)
      BY <1>2, <1>3, <1>4, <2>6 DEF RenderPage, Quiet, files, GotFields
    <2> QED BY <1>9, <2>1, <2>2, <2>3, <2>4, <2>5, <2>6
  <1>10. CASE CheckSource(p)
    <2>1. CASE Refuse(p)
      BY <1>4, <1>10, <2>1 DEF CheckSource
    <2>2. CASE ~Refuse(p)
      <3> DEFINE rest == imp[p].todo \ {Current(p)}
                 rows == imp[p].rows \cup {SourceRow(Current(p), imp[p].got)}
                 i == IF rest = {} THEN [imp[p] EXCEPT !.pc = "cacheGeometry", !.rows = rows,
                                           !.got = Nothing, !.todo = Ingestible(imp[p].sources)]
                      ELSE [imp[p] EXCEPT !.pc = "payload", !.rows = rows, !.got = Nothing, !.todo = rest]
      <3>0. imp' = [imp EXCEPT ![p] = i]
        BY <1>10, <2>2 DEF CheckSource
      <3> HIDE DEF rest, rows
      <3>2. i.pc \in {"payload", "cacheGeometry"}
        BY <1>1 DEF Knowledge
      <3> HIDE DEF i
      <3>1. imp'[p].pc \in {"payload", "cacheGeometry"} /\ \A q \in Importers \ {p} : imp'[q] = imp[q]
        BY <1>1, <3>0, <3>2
      <3> QED
        BY <1>10, <2>2, <3>1 DEF CheckSource, Quiet, files
    <2> QED BY <2>1, <2>2
  <1>11. CASE CacheLock(p)
    BY <1>2, <1>11 DEF CacheLock, Quiet, files
  <1>12. CASE CacheVerify(p) \/ RenameCache(p)
    BY <1>2, <1>4, <1>5, <1>12 DEF CacheVerify, RenameCache, Quiet, files
  <1>13. CASE IngestSnapshot(p)
    BY <1>4, <1>6, <1>13 DEF IngestSnapshot
  <1>14. CASE MaterializeClauses(p) \/ ProvisionalIndex(p) \/ MaterializeLinks(p)
              \/ CommitFinalized(p) \/ FinalIndex(p)
    BY <1>6, <1>14 DEF MaterializeClauses, ProvisionalIndex, MaterializeLinks, CommitFinalized, FinalIndex
  <1>15. CASE ValidateBuild(p)
    BY <1>2, <1>4, <1>15 DEF ValidateBuild, Validated, files
  <1>16. CASE LinkOutput(p)
    BY <1>2, <1>4, <1>16 DEF LinkOutput, Linked, files
  <1>17. CASE Report(p)
    BY <1>1, <1>2, <1>17 DEF Report, Reported, files
  <1>18. CASE BuildCrash(p)
    BY <1>1, <1>2, <1>18 DEF BuildCrash, Quiet, Reported, files
  <1> QED
    BY <1>7, <1>8, <1>9, <1>10, <1>11, <1>12, <1>13, <1>14, <1>15, <1>16, <1>17, <1>18
    DEF ImportStep

LEMMA FinalizedIsSomething ==
    ASSUME NEW db, ValidateFinalized(db)
    PROVE  db # NoDb
  BY DEF ValidateFinalized, NoDb

\* The output has one owner, who validated it.
LEMMA OwnerStep ==
    ASSUME BuildTypeOK, ReadSoFar, OutputHasOwner, [BuildNext]_buildVars
    PROVE  OutputHasOwner'
  <1> USE DEF OutputHasOwner, Owners
  <1>1. ASSUME NEW p \in Importers, ImportStep(p) \/ BuildCrash(p) PROVE OutputHasOwner'
    <2>1. Alone(p)
      BY <1>1, Footprint
    <2>2. CASE Quiet(p)
      BY <2>1, <2>2 DEF Alone, Quiet, Ended
    <2>3. CASE Validated(p)
      BY <2>1, <2>3 DEF Alone, Validated
    <2>4. CASE Linked(p)
      BY <2>1, <2>4, FinalizedIsSomething DEF Alone, Linked
    <2>5. CASE Reported(p)
      BY <2>1, <2>5 DEF Alone, Reported
    <2> QED
      BY <1>1, <2>2, <2>3, <2>4, <2>5, Footprint
  <1>2. ASSUME NEW i \in Items, Swap(i) PROVE OutputHasOwner'
    BY <1>2 DEF Swap
  <1>3. CASE UNCHANGED buildVars
    BY <1>3 DEF buildVars
  <1> QED
    BY <1>1, <1>2, <1>3 DEF BuildNext

LEMMA InitOwner == BuildInit => OutputHasOwner
  BY DEF BuildInit, OutputHasOwner, Owners, NoDb, ValidateFinalized

\* A finalized database is neither nothing nor an invalid file to its readers.
LEMMA ContentIsEvidence ==
    ASSUME NEW db
    PROVE  Content(db) # <<>> /\ Content(db) # <<NoId>>
  BY DEF Content

\* What the variables of the abstract output path stand for.
AuthorityIs ==
  CASE output = NoDb -> <<>>
    [] ValidateFinalized(output) -> Content(output)
    [] OTHER -> <<NoId>>
AnswerIs == [p \in Importers |-> Answer(imp[p].pc)]

\* Every step of the build is a step of the abstract output path or leaves it.
LEMMA AuthorityStep ==
    ASSUME BuildTypeOK, ReadSoFar, OutputHasOwner, OutputHasOwner', [BuildNext]_buildVars
    PROVE  [Authority!AuthorityNext]_(Authority!authorityVars)
  <1> USE DEF AuthorityIs, Owners, AnswerIs
  <1>0. output' = output => AuthorityIs' = AuthorityIs
    BY DEF AuthorityIs
  <1>1. ASSUME NEW p \in Importers, ImportStep(p) \/ BuildCrash(p)
        PROVE  \/ Authority!Publish(p) \/ Authority!Succeed(p)
               \/ Authority!RefuseBuild(p) \/ Authority!CrashBuild(p)
               \/ UNCHANGED <<AuthorityIs, Owners, AnswerIs>>
    <2>1. Alone(p)
      BY <1>1, Footprint
    <2>2. CASE Quiet(p)
      <3>1. Owners' = Owners /\ p \notin Owners /\ AnswerIs[p] = "none"
        BY <2>1, <2>2 DEF Alone, Quiet, Ended, Answer, Steps
      <3>2. AnswerIs' = [AnswerIs EXCEPT ![p] = Answer(imp'[p].pc)]
        BY <2>1 DEF Alone, AnswerIs
      <3>3. Answer(imp'[p].pc) \in {"none", "refused", "crashed"}
        BY <2>2 DEF Quiet, Answer
      <3>4. CASE Answer(imp'[p].pc) = "none"
        BY <1>0, <2>2, <3>1, <3>2, <3>4 DEF Quiet
      <3>5. CASE Answer(imp'[p].pc) = "refused"
        BY <1>0, <2>2, <3>1, <3>2, <3>5 DEF Quiet, Authority!RefuseBuild
      <3>6. CASE Answer(imp'[p].pc) = "crashed"
        BY <1>0, <2>2, <3>1, <3>2, <3>6 DEF Quiet, Authority!CrashBuild
      <3> QED
        BY <3>3, <3>4, <3>5, <3>6
    <2>3. CASE Validated(p)
      <3>1. Owners' = Owners /\ AnswerIs' = AnswerIs
        BY <2>1, <2>3 DEF Alone, Validated, Answer
      <3> QED
        BY <1>0, <2>3, <3>1 DEF Validated
    <2>4. CASE Linked(p)
      <3>1. Owners = {} /\ Owners' = {p} /\ AnswerIs' = AnswerIs /\ AnswerIs[p] = "none"
        BY <2>1, <2>4 DEF Alone, Linked, Answer, OutputHasOwner
      <3>2. ValidateFinalized(tmp[p])
        BY <2>4 DEF Linked, OutputHasOwner
      <3>3. AuthorityIs = <<>>
        BY <2>4, FinalizedIsSomething DEF Linked
      <3>4. AuthorityIs' = Content(tmp[p])
        <4>1. output' = tmp[p] /\ tmp[p] # NoDb
          BY <2>4, <3>2, FinalizedIsSomething DEF Linked
        <4>2. ~(output' = NoDb) /\ ValidateFinalized(output')
          BY <3>2, <4>1
        <4>3. AuthorityIs' = Content(output')
          BY <4>2 DEF AuthorityIs
        <4> QED
          BY <4>1, <4>3
      <3>5. AuthorityIs' \notin {<<>>, <<NoId>>}
        BY <3>4, ContentIsEvidence
      <3> QED
        BY <3>1, <3>3, <3>5 DEF Authority!Publish
    <2>5. CASE Reported(p)
      <3>1. Owners' = Owners /\ p \in Owners /\ Owners = {p}
        BY <2>1, <2>5 DEF Alone, Reported, OutputHasOwner
      <3>2. AnswerIs' = [AnswerIs EXCEPT ![p] = Answer(imp'[p].pc)] /\ AnswerIs[p] = "none"
        BY <2>1, <2>5 DEF Alone, Reported, Answer
      <3> QED
        BY <1>0, <2>5, <3>1, <3>2 DEF Reported, Answer, Authority!Succeed, Authority!CrashBuild
    <2> QED
      BY <1>1, <2>2, <2>3, <2>4, <2>5, Footprint
  <1>2. ASSUME NEW i \in Items, Swap(i) PROVE UNCHANGED <<AuthorityIs, Owners, AnswerIs>>
    BY <1>2 DEF Swap
  <1>3. CASE UNCHANGED buildVars
    BY <1>3 DEF buildVars, Authority!authorityVars
  <1> QED
    BY <1>1, <1>2, <1>3 DEF BuildNext, Authority!AuthorityNext, Authority!authorityVars

\* The detailed build keeps what the output path promises its readers
\* (import_source_batch, os.link create-only): a database appears there once,
\* complete and valid, from the importer that reports success, and never changes.
THEOREM AuthorityRefinedHolds == BuildSpec => AuthorityRefined
  <1>1. BuildInit => Authority!AuthorityInit
    <2> SUFFICES ASSUME BuildInit PROVE Authority!AuthorityInit
      OBVIOUS
    <2>1. \A p \in Importers : imp[p].pc = "start" /\ Answer(imp[p].pc) = "none"
      BY DEF BuildInit, Answer
    <2>2. output = NoDb
      BY DEF BuildInit
    <2>3. AuthorityIs = <<>>
      BY <2>2, FinalizedIsSomething DEF AuthorityIs
    <2>4. Owners = {} /\ AnswerIs = [p \in Importers |-> "none"]
      BY <2>1 DEF Owners, AnswerIs
    <2> QED
      BY <2>3, <2>4 DEF Authority!AuthorityInit, AuthorityIs, Owners, AnswerIs
  <1>2. BuildInit => OutputHasOwner
    BY InitOwner
  <1>3. BuildTypeOK /\ ReadSoFar /\ OutputHasOwner /\ [BuildNext]_buildVars => OutputHasOwner'
    BY OwnerStep
  <1>4. BuildTypeOK /\ ReadSoFar /\ OutputHasOwner /\ OutputHasOwner' /\ [BuildNext]_buildVars
          => [Authority!AuthorityNext]_(Authority!authorityVars)
    BY AuthorityStep
  <1> QED
    BY <1>1, <1>2, <1>3, <1>4, BuildTypeCorrect, PTL
    DEF BuildSpec, AuthorityRefined, Authority!AuthoritySpec

-----------------------------------------------------------------------------
(* The build: what is published has its images, read from its own PDFs.    *)

\* A step in which an importer adds no row and finishes no source.
Still(p) ==
  /\ imp'[p].sources = imp[p].sources /\ imp'[p].todo = imp[p].todo /\ imp'[p].rows = imp[p].rows
  /\ cache' = cache
  /\ imp'[p].pc \in FromCache => imp[p].pc \in FromCache
  /\ imp'[p].pc \in FromRows => imp[p].pc \in FromRows
  /\ imp'[p].pc \in {"start", "prepare"} => imp[p].pc \in {"start", "prepare"}
  /\ imp'[p].pc \in Indexing => tmp'[p].rows = imp[p].rows
\* A step that ends the caching of a source.
SourceCached(p) ==
  /\ imp[p].pc \in Caching
  /\ imp'[p].sources = imp[p].sources /\ imp'[p].todo = imp[p].todo \ {Current(p)}
  /\ imp'[p].rows = imp[p].rows
  /\ (imp'[p].pc = "create" /\ imp'[p].todo = {}) \/ imp'[p].pc = "cacheGeometry"
  /\ imp'[p].got.images = <<>>
  /\ cache'[Current(p).hash] # NoCache
  /\ ~Stale(p) /\ UNCHANGED <<output, swaps, src>>
  /\ \/ cache' = cache
     \/ /\ imp[p].pc = "render" /\ Len(imp[p].got.images) = imp[p].got.geometry.n
        /\ cache' = [cache EXCEPT ![Current(p).hash] =
                       [pages |-> imp[p].got.images, geometry |-> imp[p].got.geometry]]

\* A rendered directory is not an absent one.
LEMMA RenderedIsCache ==
    ASSUME NEW pages \in Seq(Docs), NEW g \in Geometries, Len(pages) >= g.n
    PROVE  [pages |-> pages, geometry |-> g] # NoCache
  BY DEF NoCache, Geometries

LEMMA CacheEnds ==
    ASSUME BuildTypeOK, ReadSoFar, NEW p \in Importers, CacheVerify(p) \/ RenameCache(p)
    PROVE  \/ Refuse(p) \/ SourceCached(p)
           \/ /\ Goto(p, "render") /\ imp[p].pc = "cacheVerify"
              /\ UNCHANGED <<batch, src, art, swaps, cache, lock, output, tmp>>
  <1> USE DEF OnSource, AfterGeometry, Caching, At, LoadedPages
  <1> DEFINE rev == Current(p).hash
  <1>1. /\ imp[p].pc \in Caching /\ imp[p] \in Knowledge /\ cache \in [Docs -> Caches]
        /\ imp[p].got.geometry \in Geometries /\ imp[p].got.images \in Seq(Docs)
    BY DEF CacheVerify, RenameCache, BuildTypeOK, ReadSoFar, Read, Knowledge, Gots
  <1>2. Current(p) \in imp[p].todo /\ rev \in Docs
    BY <1>1, CurrentTyped
  <1>3. ASSUME NextSource(p)
        PROVE  /\ imp'[p].sources = imp[p].sources /\ imp'[p].todo = imp[p].todo \ {Current(p)}
               /\ imp'[p].rows = imp[p].rows /\ imp'[p].got = Nothing
               /\ (imp'[p].pc = "create" /\ imp'[p].todo = {}) \/ imp'[p].pc = "cacheGeometry"
    <2> DEFINE i == IF imp[p].todo = {Current(p)}
                    THEN [imp[p] EXCEPT !.pc = "create", !.todo = {}, !.got = Nothing]
                    ELSE [imp[p] EXCEPT !.pc = "cacheGeometry", !.todo = imp[p].todo \ {Current(p)},
                                        !.got = Nothing]
    <2>1. imp' = [imp EXCEPT ![p] = i]
      BY <1>3 DEF NextSource
    <2>2. /\ i.sources = imp[p].sources /\ i.todo = imp[p].todo \ {Current(p)}
          /\ i.rows = imp[p].rows /\ i.got = Nothing
          /\ (i.pc = "create" /\ i.todo = {}) \/ i.pc = "cacheGeometry"
      BY <1>1, <1>2 DEF Knowledge
    <2> HIDE DEF i
    <2> QED
      BY <2>1, <2>2 DEF BuildTypeOK
  <1>4. Nothing.images = <<>>
    BY DEF Nothing
  <1> HIDE DEF rev
  <1>5. CASE CacheVerify(p) /\ ~Refuse(p) /\ LoadedPages(p, Current(p).hash)
    <2>1. ~Stale(p) /\ LoadedPages(p, rev) /\ NextSource(p) /\ UNCHANGED <<cache, output, swaps, src>>
      BY <1>5 DEF CacheVerify, SourceUnchanged, Stale, rev, files
    <2>2. cache[rev] # NoCache
      BY <1>1, <1>2, <2>1 DEF NoCache, Geometries
    <2> QED
      BY <1>1, <1>3, <1>4, <1>5, <2>1, <2>2 DEF SourceCached, rev
  <1>6. CASE RenameCache(p) /\ ~Refuse(p)
    <2>1. /\ ~Stale(p) /\ NextSource(p) /\ imp[p].pc = "render"
          /\ Len(imp[p].got.images) = imp[p].got.geometry.n
          /\ cache' = [cache EXCEPT ![rev] = [pages |-> imp[p].got.images,
                                              geometry |-> imp[p].got.geometry]]
          /\ UNCHANGED <<output, swaps, src>>
      BY <1>6 DEF RenameCache, SourceUnchanged, Stale, files, rev
    <2>2. cache'[rev] # NoCache
      BY <1>1, <1>2, <2>1, RenderedIsCache DEF Geometries
    <2> QED
      BY <1>1, <1>3, <1>4, <2>1, <2>2 DEF SourceCached, rev
  <1> QED
    BY <1>5, <1>6 DEF CacheVerify, files

\* The batch is prepared; a source was parsed.
Batched(p) ==
  /\ imp[p].pc = "prepare" /\ imp'[p].pc = "payload"
  /\ imp'[p].sources \subseteq {PrepareItem(i) : i \in Items}
  /\ imp'[p].rows = imp[p].rows
  /\ UNCHANGED <<cache, output, swaps, src>>
Parsed(p) ==
  /\ imp[p].pc = "checkSource"
  /\ imp'[p].sources = imp[p].sources
  /\ imp'[p].rows = imp[p].rows \cup {SourceRow(Current(p), imp[p].got)}
  /\ imp'[p].got.images = <<>>
  /\ \/ imp'[p].pc = "cacheGeometry" /\ imp'[p].todo = Ingestible(imp[p].sources)
     \/ imp'[p].pc = "payload"
  /\ ~Stale(p)
  /\ UNCHANGED <<cache, output, swaps, src>>

LEMMA BatchOrRow ==
    ASSUME BuildTypeOK, NEW p \in Importers
    PROVE  /\ Prepare(p) => Refuse(p) \/ Batched(p)
           /\ CheckSource(p) => Refuse(p) \/ Parsed(p)
  <1> USE DEF At
  <1>1. imp \in [Importers -> Knowledge] /\ imp[p] \in Knowledge
    BY DEF BuildTypeOK
  <1>2. ASSUME Prepare(p), ~Refuse(p) PROVE Batched(p)
    <2> DEFINE i == [imp[p] EXCEPT !.pc = "payload", !.sources = PrepareSourceBatch.sources,
                                   !.todo = Ingestible(PrepareSourceBatch.sources)]
    <2>1. imp' = [imp EXCEPT ![p] = i] /\ imp[p].pc = "prepare" /\ UNCHANGED <<cache, output, swaps, src>>
      BY <1>2 DEF Prepare, files
    <2>2. i.pc = "payload" /\ i.rows = imp[p].rows /\ i.sources = PrepareSourceBatch.sources
      BY <1>1 DEF Knowledge
    <2> HIDE DEF i
    <2> QED
      BY <1>1, <2>1, <2>2, PrepareTyped DEF Batched
  <1>3. ASSUME CheckSource(p), ~Refuse(p) PROVE Parsed(p)
    <2> DEFINE rest == imp[p].todo \ {Current(p)}
               rows == imp[p].rows \cup {SourceRow(Current(p), imp[p].got)}
               i == IF rest = {} THEN [imp[p] EXCEPT !.pc = "cacheGeometry", !.rows = rows,
                                         !.got = Nothing, !.todo = Ingestible(imp[p].sources)]
                    ELSE [imp[p] EXCEPT !.pc = "payload", !.rows = rows, !.got = Nothing, !.todo = rest]
    <2>1. imp' = [imp EXCEPT ![p] = i] /\ imp[p].pc = "checkSource"
          /\ UNCHANGED <<cache, output, swaps, src>> /\ ~Stale(p)
      BY <1>3 DEF CheckSource, files, SourceUnchanged, Stale
    <2> HIDE DEF rest, rows
    <2>2. /\ i.sources = imp[p].sources /\ i.rows = rows /\ i.got = Nothing
          /\ \/ i.pc = "cacheGeometry" /\ i.todo = Ingestible(imp[p].sources)
             \/ i.pc = "payload"
      BY <1>1 DEF Knowledge
    <2> HIDE DEF i
    <2>3. Nothing.images = <<>>
      BY DEF Nothing
    <2> QED
      BY <1>1, <2>1, <2>2, <2>3 DEF Parsed, rows
  <1> QED
    BY <1>2, <1>3

\* What a step of an importer does to its sources, rows and cache.
LEMMA Progress ==
    ASSUME BuildTypeOK, ReadSoFar, CacheBeforeRows,
           NEW p \in Importers, ImportStep(p) \/ BuildCrash(p)
    PROVE  Still(p) \/ Batched(p) \/ Parsed(p) \/ SourceCached(p)
  <1> USE DEF At
  <1>1. imp \in [Importers -> Knowledge] /\ tmp \in [Importers -> Dbs] /\ imp[p] \in Knowledge
    BY DEF BuildTypeOK
  <1>2. ASSUME NEW where \in Steps, Goto(p, where)
        PROVE  /\ imp'[p].pc = where /\ imp'[p].sources = imp[p].sources
               /\ imp'[p].todo = imp[p].todo /\ imp'[p].rows = imp[p].rows
    <2>1. imp'[p] = [imp[p] EXCEPT !.pc = where]
      BY <1>1, <1>2, Moved DEF Goto
    <2> QED
      BY <2>1, Moved
  <1>3. ASSUME NEW field \in GotFields, NEW value, NEW where \in Steps, Got(p, field, value, where)
        PROVE  /\ imp'[p].pc = where /\ imp'[p].sources = imp[p].sources
               /\ imp'[p].todo = imp[p].todo /\ imp'[p].rows = imp[p].rows
    BY <1>1, <1>3 DEF Got, Knowledge
  <1> USE DEF Steps, OnSource, AfterPayload, AfterElements, AfterTables, Caching, Indexing, Ended,
              FromCache, FromRows
  <1>4. ASSUME Refuse(p) PROVE Still(p)
    BY <1>2, <1>4 DEF Refuse, Still, files
  <1>5. CASE Start(p)
    BY <1>2, <1>4, <1>5 DEF Start, Still, files
  <1>6. CASE Prepare(p) \/ CheckSource(p)
    BY <1>4, <1>6, BatchOrRow
  <1>7. CASE ParsePayload(p) \/ ParseElements(p) \/ ParseTables(p) \/ ParseGeometry(p)
             \/ HashArtifact(p) \/ CheckArtifact(p) \/ CacheGeometry(p) \/ RenderPage(p) \/ CacheLock(p)
    <2>1. ASSUME NEW field \in GotFields, NEW value, NEW where \in Steps, Got(p, field, value, where),
                 cache' = cache, where \in FromCache => imp[p].pc \in FromCache,
                 where \notin FromRows \cup {"start", "prepare"}
          PROVE  Still(p)
      BY <1>3, <2>1 DEF Still
    <2>2. CASE ParsePayload(p) \/ ParseElements(p) \/ ParseTables(p) \/ ParseGeometry(p)
      BY <1>4, <2>1, <2>2 DEF ParsePayload, ParseElements, ParseTables, ParseGeometry, files, GotFields
    <2>3. CASE HashArtifact(p) \/ CacheGeometry(p) \/ RenderPage(p)
      BY <1>4, <2>1, <2>3 DEF HashArtifact, CacheGeometry, RenderPage, files, GotFields
    <2>4. CASE CheckArtifact(p) \/ CacheLock(p)
      BY <1>2, <1>4, <2>4 DEF CheckArtifact, CacheLock, Still, files
    <2> QED
      BY <1>7, <2>2, <2>3, <2>4
  <1>9. CASE CacheVerify(p) \/ RenameCache(p)
    BY <1>2, <1>4, <1>9, CacheEnds DEF Still
  <1>10. ASSUME NEW from \in FromRows, NEW to \in Indexing, NEW db, Build(p, from, to, db),
                db.rows = imp[p].rows
         PROVE  Still(p)
    BY <1>1, <1>2, <1>10 DEF Build, Still, files
  <1>11. CASE IngestSnapshot(p)
    <2>1. Ingested(imp[p].rows).rows = imp[p].rows
      BY DEF Ingested, NoDb
    <2> QED
      BY <1>4, <1>10, <1>11, <2>1 DEF IngestSnapshot
  <1>12. CASE MaterializeClauses(p) \/ ProvisionalIndex(p) \/ MaterializeLinks(p)
              \/ CommitFinalized(p) \/ FinalIndex(p)
    <2> DEFINE db == tmp[p]
    <2>1. db \in Dbs
      BY <1>1
    <2>2. /\ WithClauses(db).rows = db.rows /\ WithIndex(db).rows = db.rows
          /\ WithLinks(db).rows = db.rows /\ CommitFinal(db).rows = db.rows
      BY <2>1 DEF WithClauses, WithIndex, WithLinks, CommitFinal, Dbs
    <2>3. imp[p].pc \in Indexing => db.rows = imp[p].rows
      BY DEF CacheBeforeRows, RowsAreCached
    <2> QED
      BY <1>10, <1>12, <2>2, <2>3
      DEF MaterializeClauses, ProvisionalIndex, MaterializeLinks, CommitFinalized, FinalIndex, Build
  <1>13. CASE ValidateBuild(p) \/ LinkOutput(p)
    <2>1. imp[p].pc \in Indexing => tmp[p].rows = imp[p].rows
      BY DEF CacheBeforeRows, RowsAreCached
    <2> QED
      BY <1>2, <1>4, <1>13, <2>1 DEF ValidateBuild, LinkOutput, Still, files
  <1>14. CASE Report(p) \/ BuildCrash(p)
    BY <1>2, <1>14 DEF Report, BuildCrash, Still, files
  <1> QED
    BY <1>5, <1>6, <1>7, <1>9, <1>11, <1>12, <1>13, <1>14 DEF ImportStep

\* A cache directory is made whole and stays; what is published has them all.
LEMMA CacheGrows ==
    ASSUME BuildTypeOK, CacheIsWhole, NEW p \in Importers, ReadSoFar,
           Still(p) \/ Batched(p) \/ Parsed(p) \/ SourceCached(p)
    PROVE  CacheIsWhole' /\ \A d \in Docs : cache[d] # NoCache => cache'[d] # NoCache
  <1>1. CASE Still(p) \/ Batched(p) \/ Parsed(p)
    BY <1>1 DEF Still, Batched, Parsed, CacheIsWhole
  <1>2. CASE SourceCached(p)
    <2>1. Current(p).hash \in Docs
      BY <1>2, CurrentTyped DEF SourceCached, OnSource
    <2> QED
      BY <1>2, <2>1 DEF SourceCached, CacheIsWhole, BuildTypeOK
  <1> QED
    BY <1>1, <1>2

LEMMA RowsAreCachedStep ==
    ASSUME BuildTypeOK, ReadSoFar, CacheBeforeRows, CacheIsWhole,
           NEW p \in Importers, ImportStep(p) \/ BuildCrash(p)
    PROVE  CacheBeforeRows'
  <1> USE DEF CacheBeforeRows, RowsAreCached
  <1>0. Alone(p) /\ (Still(p) \/ Batched(p) \/ Parsed(p) \/ SourceCached(p))
    BY Footprint, Progress
  <1>1. /\ \A d \in Docs : cache[d] # NoCache => cache'[d] # NoCache
        /\ \A q \in Importers : \A s \in Ingestible(imp[q].sources) : s.hash \in Docs
    <2>1. \A q \in Importers : imp[q].sources \subseteq Prepared
      BY DEF BuildTypeOK, Knowledge
    <2> QED
      BY <1>0, <2>1, CacheGrows DEF Prepared, Ingestible
  <1>2. \A q \in Importers \ {p} : RowsAreCached(q)'
    BY <1>0, <1>1 DEF Alone, FromCache
  <1>3. CASE Still(p)
    <2>1. RowsAreCached(p)'
      BY <1>3 DEF Still
    <2> QED BY <1>2, <2>1
  <1>4. CASE Batched(p)
    <2>1. RowsAreCached(p)'
      BY <1>4 DEF Batched, FromCache, FromRows, Caching, Indexing
    <2> QED BY <1>2, <2>1
  <1>5. CASE Parsed(p)
    <2>1. Current(p) \in Ingestible(imp[p].sources)
      BY <1>5, CurrentTyped DEF Parsed, OnSource, AfterPayload, AfterElements, AfterTables
    <2>2. SourceRow(Current(p), imp[p].got).revision = Current(p).hash
      BY DEF SourceRow
    <2>3. RowsAreCached(p)'
      BY <1>5, <2>1, <2>2 DEF Parsed, FromCache, FromRows, Caching, Indexing
    <2> QED BY <1>2, <2>3
  <1>6. CASE SourceCached(p)
    <2>1. RowsAreCached(p)'
      BY <1>1, <1>6 DEF SourceCached, FromCache, FromRows, Indexing, Caching
    <2> QED BY <1>2, <2>1
  <1> QED
    BY <1>0, <1>3, <1>4, <1>5, <1>6

LEMMA CacheStep ==
    ASSUME BuildTypeOK, ReadSoFar, CacheBeforeRows, CacheIsWhole, OutputIsCached, [BuildNext]_buildVars
    PROVE  CacheBeforeRows' /\ CacheIsWhole' /\ OutputIsCached'
  <1>1. ASSUME NEW p \in Importers, ImportStep(p) \/ BuildCrash(p)
        PROVE  CacheBeforeRows' /\ CacheIsWhole' /\ OutputIsCached'
    <2>1. CacheIsWhole' /\ \A d \in Docs : cache[d] # NoCache => cache'[d] # NoCache
      BY <1>1, Progress, CacheGrows
    <2>2. CacheBeforeRows'
      BY <1>1, RowsAreCachedStep
    <2>3. output' = output \/ (imp[p].pc = "publish" /\ output' = tmp[p])
      BY <1>1, Footprint DEF Quiet, Validated, Linked, Reported
    <2>4. ASSUME imp[p].pc = "publish" PROVE \A r \in tmp[p].rows : cache[r.revision] # NoCache
      BY <2>4 DEF CacheBeforeRows, RowsAreCached, FromCache, FromRows, Indexing
    <2>5. \A r \in output.rows \cup tmp[p].rows : r.revision \in Docs
      BY DEF BuildTypeOK, Dbs, Rows
    <2>6. OutputIsCached'
      BY <2>1, <2>3, <2>4, <2>5 DEF OutputIsCached
    <2> QED
      BY <2>1, <2>2, <2>6
  <1>2. ASSUME NEW i \in Items, Swap(i) PROVE CacheBeforeRows' /\ CacheIsWhole' /\ OutputIsCached'
    BY <1>2 DEF Swap, CacheBeforeRows, RowsAreCached, CacheIsWhole, OutputIsCached
  <1>3. CASE UNCHANGED buildVars
    BY <1>3 DEF buildVars, CacheBeforeRows, RowsAreCached, CacheIsWhole, OutputIsCached
  <1> QED
    BY <1>1, <1>2, <1>3 DEF BuildNext

\* What a step of an importer reads of the PDF it works on.
GeometryRead(p) ==
  imp'[p].pc \in AfterGeometry =>
    \/ imp'[p].got.geometry.of = src[Current(p).item]
    \/ imp[p].pc \in AfterGeometry /\ imp'[p].got.geometry = imp[p].got.geometry
ImagesRead(p) ==
  imp'[p].pc \in Caching =>
    \/ imp'[p].got.images = <<>>
    \/ imp[p].pc \in Caching /\ imp'[p].got.images = imp[p].got.images
    \/ /\ imp[p].pc \in Caching
       /\ imp'[p].got.images = Append(imp[p].got.images, src[Current(p).item])

LEMMA Reads ==
    ASSUME BuildTypeOK, ReadSoFar, CacheBeforeRows,
           NEW p \in Importers, ImportStep(p) \/ BuildCrash(p)
    PROVE  GeometryRead(p) /\ ImagesRead(p)
  <1> USE DEF At
  <1>1. imp \in [Importers -> Knowledge] /\ imp[p] \in Knowledge /\ imp[p].got \in Gots
    BY DEF BuildTypeOK, Knowledge
  <1>2. ASSUME NEW where \in Steps, Goto(p, where),
               where \in AfterGeometry => imp[p].pc \in AfterGeometry,
               where \in Caching => imp[p].pc \in Caching
        PROVE  GeometryRead(p) /\ ImagesRead(p)
    <2>1. imp'[p] = [imp[p] EXCEPT !.pc = where]
      BY <1>1, <1>2, Moved DEF Goto
    <2>2. imp'[p].pc = where /\ imp'[p].got = imp[p].got
      BY <2>1, Moved
    <2> QED
      BY <1>2, <2>2 DEF GeometryRead, ImagesRead
  <1>3. ASSUME NEW where, imp'[p].pc = where, where \notin AfterGeometry,
               where \in Caching => imp'[p].got.images = <<>>
        PROVE  GeometryRead(p) /\ ImagesRead(p)
    BY <1>3 DEF GeometryRead, ImagesRead
  <1>4. ASSUME NEW field \in GotFields, NEW value, NEW where \in Steps, Got(p, field, value, where)
        PROVE  /\ imp'[p].pc = where /\ imp'[p].got[field] = value
               /\ \A f \in GotFields \ {field} : imp'[p].got[f] = imp[p].got[f]
    BY <1>1, <1>4 DEF Got, Knowledge, Gots, GotFields
  <1> USE DEF Steps, OnSource, AfterPayload, AfterElements, AfterTables, AfterGeometry, Caching,
              Indexing, Ended
  <1>5. CASE Start(p) \/ Refuse(p) \/ Report(p) \/ BuildCrash(p)
    BY <1>2, <1>5 DEF Start, Refuse, Report, BuildCrash
  <1>6. CASE Batched(p) \/ Parsed(p) \/ SourceCached(p)
    BY <1>3, <1>6 DEF Batched, Parsed, SourceCached
  <1>7. CASE ParsePayload(p) \/ ParseElements(p) \/ ParseTables(p)
    <2>1. CASE ParsePayload(p)
      BY <1>3, <1>4, <1>5, <2>1 DEF ParsePayload, GotFields
    <2>2. CASE ParseElements(p)
      BY <1>3, <1>4, <1>5, <2>2 DEF ParseElements, GotFields
    <2>3. CASE ParseTables(p)
      BY <1>3, <1>4, <1>5, <2>3 DEF ParseTables, GotFields
    <2> QED BY <1>7, <2>1, <2>2, <2>3
  <1>8. CASE ParseGeometry(p) \/ CacheGeometry(p)
    <2> DEFINE d == src[Current(p).item]
    <2>1. ReadPdfPageGeometries(d).of = d
      BY DEF ReadPdfPageGeometries
    <2>2. ASSUME NEW where \in {"hash", "cacheLock"}, Got(p, "geometry", ReadPdfPageGeometries(d), where),
                 where \in Caching => imp[p].pc \in Caching
          PROVE  GeometryRead(p) /\ ImagesRead(p)
      <3>1. /\ imp'[p].pc = where /\ imp'[p].got.geometry.of = d
            /\ imp'[p].got.images = imp[p].got.images
        <4>1. "geometry" \in GotFields /\ "images" \in GotFields \ {"geometry"} /\ where \in Steps
          BY DEF GotFields
        <4>2. /\ imp'[p].pc = where /\ imp'[p].got["geometry"] = ReadPdfPageGeometries(d)
              /\ imp'[p].got["images"] = imp[p].got["images"]
          BY <1>4, <2>2, <4>1
        <4> QED BY <2>1, <4>2
      <3> QED
        BY <2>2, <3>1 DEF GeometryRead, ImagesRead
    <2> QED
      BY <1>5, <1>8, <2>2 DEF ParseGeometry, CacheGeometry
  <1>9. CASE HashArtifact(p)
    <2>1. imp'[p].pc = "checkArtifact" /\ imp'[p].got.geometry = imp[p].got.geometry
      BY <1>4, <1>9 DEF HashArtifact, GotFields
    <2> QED
      BY <1>9, <2>1 DEF HashArtifact, GeometryRead, ImagesRead
  <1>10. CASE RenderPage(p) /\ ~Refuse(p)
    <2>1. /\ imp'[p].pc = "render" /\ imp'[p].got.geometry = imp[p].got.geometry
          /\ imp'[p].got.images = Append(imp[p].got.images, src[Current(p).item])
      BY <1>4, <1>10 DEF RenderPage, GotFields
    <2> QED
      BY <1>10, <2>1 DEF RenderPage, GeometryRead, ImagesRead
  <1>11. CASE CheckArtifact(p) \/ CacheLock(p) \/ ValidateBuild(p) \/ LinkOutput(p)
    BY <1>2, <1>5, <1>11 DEF CheckArtifact, CacheLock, ValidateBuild, LinkOutput
  <1>12. CASE CacheVerify(p) \/ RenameCache(p)
    BY <1>2, <1>5, <1>6, <1>12, CacheEnds
  <1>13. CASE \/ IngestSnapshot(p) \/ MaterializeClauses(p) \/ ProvisionalIndex(p) \/ MaterializeLinks(p)
              \/ CommitFinalized(p) \/ FinalIndex(p)
    <2>1. ASSUME NEW from, NEW to \in Indexing, NEW db, Build(p, from, to, db)
          PROVE  GeometryRead(p) /\ ImagesRead(p)
      BY <1>2, <2>1 DEF Build
    <2> QED
      BY <1>5, <1>13, <2>1 DEF IngestSnapshot, MaterializeClauses, ProvisionalIndex, MaterializeLinks,
                               CommitFinalized, FinalIndex
  <1>14. CASE Prepare(p) \/ CheckSource(p)
    BY <1>5, <1>6, <1>14, BatchOrRow
  <1> QED
    BY <1>5, <1>7, <1>8, <1>9, <1>10, <1>11, <1>12, <1>13, <1>14 DEF ImportStep

\* A step of an importer: what it holds that is not of the prepared bytes was
\* read of a source that is still replaced.
LEMMA OwnStep ==
    ASSUME BuildTypeOK, ReadSoFar, CacheBeforeRows, swaps < 2, ForeignIsStale,
           NEW p \in Importers, ImportStep(p) \/ BuildCrash(p)
    PROVE  /\ \A q \in Importers : ReadsAreOwn(q)'
           /\ \A d \in Docs : \A k \in DOMAIN cache'[d].pages : cache'[d].pages[k] = d
  <1>0. Alone(p) /\ (Still(p) \/ Batched(p) \/ Parsed(p) \/ SourceCached(p))
        /\ GeometryRead(p) /\ ImagesRead(p)
    BY Footprint, Progress, Reads
  <1>1. /\ \A q \in Importers : ReadsAreOwn(q)
        /\ \A d \in Docs : \A k \in DOMAIN cache[d].pages : cache[d].pages[k] = d
        /\ src' = src /\ swaps' = swaps
    BY <1>0 DEF ForeignIsStale, Alone
  <1>2. ASSUME NEW q \in Importers \ {p} PROVE ReadsAreOwn(q)'
    <2>1. imp'[q] = imp[q]
      BY <1>0 DEF Alone
    <2>2. Current(q)' = Current(q)
      BY <2>1 DEF Current
    <2> QED
      BY <1>1, <2>1, <2>2 DEF ReadsAreOwn, Stale
  <1>3. imp[p] \in Knowledge /\ imp[p].got.images \in Seq(Docs)
    BY DEF BuildTypeOK, Knowledge, Gots
  <1>4. imp[p].pc \in OnSource => src[Current(p).item] \in Docs /\ Current(p).hash \in Docs
    BY CurrentTyped
  <1>5. AfterGeometry \subseteq OnSource /\ Caching \subseteq OnSource
    BY DEF AfterGeometry, OnSource, AfterPayload, AfterElements, AfterTables, Caching
  <1>6. CASE Still(p)
    <2>1. Current(p)' = Current(p)
      BY <1>6 DEF Still, Current
    <2>2. imp'[p].pc \in AfterGeometry => imp'[p].got.geometry.of = Current(p).hash \/ Stale(p)
      BY <1>0, <1>1 DEF GeometryRead, ReadsAreOwn, Stale
    <2>3. imp'[p].pc \in Caching =>
            (\A k \in DOMAIN imp'[p].got.images : imp'[p].got.images[k] = Current(p).hash) \/ Stale(p)
      <3> SUFFICES ASSUME imp'[p].pc \in Caching, ~Stale(p)
                   PROVE  \A k \in DOMAIN imp'[p].got.images : imp'[p].got.images[k] = Current(p).hash
        OBVIOUS
      <3>1. CASE imp'[p].got.images = <<>>
        BY <3>1
      <3>2. CASE imp[p].pc \in Caching /\ imp'[p].got.images = imp[p].got.images
        BY <1>1, <3>2 DEF ReadsAreOwn
      <3>3. CASE /\ imp[p].pc \in Caching
                 /\ imp'[p].got.images = Append(imp[p].got.images, src[Current(p).item])
        <4>1. /\ src[Current(p).item] = Current(p).hash
              /\ \A k \in DOMAIN imp[p].got.images : imp[p].got.images[k] = Current(p).hash
          BY <1>1, <3>3 DEF ReadsAreOwn, Stale
        <4> QED
          BY <1>3, <1>4, <1>5, <3>3, <4>1
      <3> QED
        BY <1>0, <3>1, <3>2, <3>3 DEF ImagesRead
    <2>4. ReadsAreOwn(p)'
      BY <1>1, <1>6, <2>1, <2>2, <2>3 DEF Still, ReadsAreOwn, Stale
    <2> QED
      BY <1>1, <1>2, <1>6, <2>4 DEF Still
  <1>7. CASE Batched(p)
    <2>1. \A s \in imp'[p].sources : src[s.item] = s.hash
      BY <1>7 DEF Batched, PrepareItem
    <2>2. ReadsAreOwn(p)'
      BY <1>1, <1>7, <2>1 DEF Batched, ReadsAreOwn, AfterGeometry, Caching
    <2> QED
      BY <1>1, <1>2, <1>7, <2>2 DEF Batched
  <1>8. CASE Parsed(p)
    <2>1. imp[p].got.geometry.of = Current(p).hash
      BY <1>1, <1>8 DEF Parsed, ReadsAreOwn, AfterGeometry
    <2>2. SourceRow(Current(p), imp[p].got).geometry.of = SourceRow(Current(p), imp[p].got).revision
      BY <2>1 DEF SourceRow
    <2>3. ReadsAreOwn(p)'
      BY <1>1, <1>8, <2>2 DEF Parsed, ReadsAreOwn, AfterGeometry
    <2> QED
      BY <1>1, <1>2, <1>8, <2>3 DEF Parsed
  <1>9. CASE SourceCached(p)
    <2>1. ReadsAreOwn(p)'
      BY <1>1, <1>9 DEF SourceCached, ReadsAreOwn, AfterGeometry
    <2>2. imp[p].pc = "render" => \A k \in DOMAIN imp[p].got.images : imp[p].got.images[k] = Current(p).hash
      BY <1>1, <1>9 DEF SourceCached, ReadsAreOwn, Caching
    <2>3. \A d \in Docs : \A k \in DOMAIN cache'[d].pages : cache'[d].pages[k] = d
      BY <1>1, <1>4, <1>5, <1>9, <2>2 DEF SourceCached, BuildTypeOK
    <2> QED
      BY <1>2, <2>1, <2>3
  <1> QED
    BY <1>0, <1>6, <1>7, <1>8, <1>9

LEMMA SwapOwn ==
    ASSUME BuildTypeOK, ReadSoFar, ForeignIsStale, NEW i \in Items, Swap(i)
    PROVE  ForeignIsStale'
  <1> SUFFICES ASSUME swaps' < 2 PROVE ForeignIsStale'
    BY DEF ForeignIsStale
  <1>1. swaps = 0 /\ swaps' = 1 /\ UNCHANGED <<cache, output, imp>>
    BY DEF Swap, BuildTypeOK
  <1>2. ASSUME NEW p \in Importers PROVE ReadsAreOwn(p)'
    <2>1. ReadsAreOwn(p)
      BY <1>1 DEF ForeignIsStale
    <2>2. Current(p)' = Current(p) /\ imp'[p] = imp[p]
      BY <1>1 DEF Current
    <2>3. imp[p].pc \in OnSource => ~Stale(p)
      BY <1>1, <2>1, CurrentTyped DEF ReadsAreOwn, Stale
    <2>4. AfterGeometry \subseteq OnSource /\ Caching \subseteq OnSource
      BY DEF AfterGeometry, OnSource, AfterPayload, AfterElements, AfterTables, Caching
    <2> QED
      BY <1>1, <2>1, <2>2, <2>3, <2>4 DEF ReadsAreOwn
  <1> QED
    BY <1>1, <1>2 DEF ForeignIsStale

LEMMA ForeignStep ==
    ASSUME BuildTypeOK, ReadSoFar, CacheBeforeRows, ForeignIsStale, [BuildNext]_buildVars
    PROVE  ForeignIsStale'
  <1>1. ASSUME NEW p \in Importers, ImportStep(p) \/ BuildCrash(p) PROVE ForeignIsStale'
    <2> SUFFICES ASSUME swaps' < 2 PROVE ForeignIsStale'
      BY DEF ForeignIsStale
    <2>1. swaps < 2
      BY <1>1, Footprint DEF Alone
    <2>2. output' = output \/ (imp[p].pc = "publish" /\ output' = tmp[p])
      BY <1>1, Footprint DEF Quiet, Validated, Linked, Reported
    <2>3. imp[p].pc = "publish" => tmp[p].rows = imp[p].rows
      BY DEF CacheBeforeRows, RowsAreCached, Indexing
    <2>4. \A r \in output'.rows : r.geometry.of = r.revision
      BY <2>1, <2>2, <2>3 DEF ForeignIsStale, ReadsAreOwn
    <2> QED
      BY <1>1, <2>1, <2>4, OwnStep DEF ForeignIsStale
  <1>2. ASSUME NEW i \in Items, Swap(i) PROVE ForeignIsStale'
    BY <1>2, SwapOwn
  <1>3. CASE UNCHANGED buildVars
    BY <1>3 DEF buildVars, ForeignIsStale, ReadsAreOwn, Stale, Current
  <1> QED
    BY <1>1, <1>2, <1>3 DEF BuildNext

LEMMA InitBuild == BuildInit => BuildInv
  <1> SUFFICES ASSUME BuildInit PROVE BuildInv
    OBVIOUS
  <1>1. \A p \in Importers : /\ imp[p].pc = "start" /\ imp[p].rows = {} /\ imp[p].sources = {}
    BY DEF BuildInit
  <1>2. output.rows = {} /\ \A d \in Docs : cache[d] = NoCache /\ cache[d].pages = <<>>
    BY DEF BuildInit, NoDb, NoCache
  <1>3. CacheBeforeRows
    BY <1>1 DEF CacheBeforeRows, RowsAreCached, FromRows, FromCache, Caching, Indexing
  <1>4. ForeignIsStale
    BY <1>1, <1>2 DEF ForeignIsStale, ReadsAreOwn, AfterGeometry, Caching
  <1> QED
    BY <1>2, <1>3, <1>4, InitTyped, InitOwner DEF BuildInv, CacheIsWhole, OutputIsCached

\* The inductive invariant of the build.
THEOREM BuildInvariant == BuildSpec => []BuildInv
  <1>1. BuildInit => BuildInv
    BY InitBuild
  <1>2. BuildInv /\ [BuildNext]_buildVars => BuildInv'
    BY TypedStep, CacheStep, ForeignStep, OwnerStep DEF BuildInv
  <1> QED
    BY <1>1, <1>2, PTL DEF BuildSpec

\* A published database cites pages of the PDFs its revisions name and every
\* one of those pages has its image (PageImageCache.ensure_revision), unless a
\* file was replaced and replaced back between the checks of an import.
THEOREM PublishedIsWholeHolds == BuildSpec => []PublishedIsWhole
  <1>1. BuildInv => PublishedIsWhole
    <2> SUFFICES ASSUME BuildInv PROVE PublishedIsWhole
      OBVIOUS
    <2>1. ForeignNeedsTwoSwaps
      BY DEF BuildInv, ForeignIsStale, ForeignNeedsTwoSwaps
    <2>2. \A r \in output.rows : r.revision \in Docs
      BY DEF BuildInv, BuildTypeOK, Dbs, Rows
    <2>3. PublishedHasImages
      BY <2>2 DEF BuildInv, OutputIsCached, CacheIsWhole, PublishedHasImages
    <2> QED
      BY <2>1, <2>3 DEF PublishedIsWhole
  <1> QED
    BY <1>1, BuildInvariant, PTL

-----------------------------------------------------------------------------
(* The copy-on-write migrations.                                           *)

MigrationSteps == Stopped \cup {"read", "fill", "upgrade", "rehash", "hashTemp", "writeReport",
                                "moveOutput", "moveReport"}
Active(m) == mig[m].at \notin Stopped
MigrationTypeOK ==
  /\ version \in 1..3 /\ source \in DbContents /\ sourceSwaps \in Nat /\ overlap \in BOOLEAN
  /\ {mtmp, mout} \subseteq Files \cup {NoFile}
  /\ {mrtmp, mreport} \subseteq Reports \cup {NoFile}
  /\ mig \in [Migrators -> [at : MigrationSteps, hash : DbContents \cup {NoFile},
                            logical : DbContents \cup {NoFile}, report : Reports \cup {NoFile}]]
  /\ \A m \in Migrators :
       /\ Active(m) => mig[m].hash \in DbContents
       /\ Active(m) /\ mig[m].at # "read" => mig[m].logical \in DbContents
       /\ mig[m].at \in {"writeReport", "moveOutput", "moveReport"} => mig[m].report \in Reports

\* What a migration that runs alone has made, step by step.
Made(m) ==
  LET i == mig[m] IN
    /\ mreport = NoFile
    /\ i.at \in {"read", "fill"} => mtmp = NoFile
    /\ i.at # "moveReport" => mout = NoFile
    /\ i.at \in {"upgrade", "rehash", "hashTemp", "writeReport", "moveOutput"} =>
         mtmp # NoFile /\ mtmp.by = m
    /\ i.at \in {"rehash", "hashTemp", "writeReport", "moveOutput"} => mtmp.schema = version + 1
    /\ i.at \in {"writeReport", "moveOutput", "moveReport"} =>
         i.report.source = i.hash /\ i.report.logical = i.logical
    /\ i.at \in {"writeReport", "moveOutput"} => i.report.output = mtmp
    /\ i.at \in {"moveOutput", "moveReport"} => mrtmp = i.report
    /\ i.at = "moveReport" => mout = i.report.output /\ mout.schema = version + 1

\* What it read of a source other than the one it hashed first was read of a
\* source that is still another one, until the source is hashed again.
OfOneSource(m) ==
  LET i == mig[m] IN
    /\ sourceSwaps = 0 => source = i.hash
    /\ i.at \in {"fill", "upgrade", "rehash"} => i.logical = i.hash \/ source # i.hash
    /\ i.at \in {"upgrade", "rehash"} => mtmp.from = i.hash \/ source # i.hash
    /\ i.at \in {"hashTemp", "writeReport", "moveOutput"} => i.logical = i.hash /\ mtmp.from = i.hash
    /\ i.at = "moveReport" => i.logical = i.hash /\ mout.from = i.hash

MigrationInv ==
  /\ MigrationTypeOK
  /\ ReportMatchesOutput
  /\ ~overlap =>
       /\ \A m, n \in Migrators : Active(m) /\ Active(n) => m = n
       /\ \A m \in Migrators : Active(m) => Made(m) /\ (sourceSwaps < 2 => OfOneSource(m))

MigrationStep(m) ==
  \/ RequireAbsent(m) \/ ReadSource(m) \/ CreateCopy(m) \/ CopySource(m) \/ Upgrade(m)
  \/ Rehash(m) \/ HashTemporary(m) \/ WriteReport(m) \/ MoveOutput(m) \/ MoveReport(m)
  \/ MigrationCrash(m)

LEMMA MigrationTyped ==
    ASSUME MigrationTypeOK, NEW m \in Migrators, MigrationStep(m)
    PROVE  MigrationTypeOK'
  <1> USE DEF MigrationTypeOK, Active, Stopped, MigrationSteps, given, disk
  <1>1. CASE RequireAbsent(m)
    <2>1. CASE Failed(m) /\ UNCHANGED disk
      BY <1>1, <2>1 DEF Failed
    <2>2. CASE /\ mig' = [mig EXCEPT ![m] = [mig[m] EXCEPT !.at = "read", !.hash = source]]
               /\ overlap' \in BOOLEAN /\ UNCHANGED <<given, disk>>
      BY <1>1, <2>2
    <2> QED
      BY <1>1, <2>1, <2>2 DEF RequireAbsent
  <1>2. CASE ReadSource(m)
    BY <1>2 DEF ReadSource
  <1>3. CASE CreateCopy(m)
    BY <1>3 DEF CreateCopy, Failed, Step, Files
  <1>4. CASE CopySource(m)
    BY <1>4 DEF CopySource, Step, Files
  <1>5. CASE Upgrade(m)
    <2>1. mtmp # NoFile => [mtmp EXCEPT !.schema = version + 1] \in Files
      BY DEF Files
    <2>2. mtmp' \in Files \cup {NoFile} /\ UNCHANGED <<mout, mrtmp, mreport, version, source, sourceSwaps, overlap>>
      BY <1>5, <2>1 DEF Upgrade, Failed, Step, Opened
    <2>3. Step(m, "upgrade", "rehash") \/ (mig[m].at = "upgrade" /\ Failed(m))
      BY <1>5 DEF Upgrade
    <2> QED
      BY <2>2, <2>3 DEF Failed, Step
  <1>6. CASE Rehash(m)
    BY <1>6 DEF Rehash, Failed, Step
  <1>7. CASE HashTemporary(m)
    <2>1. CASE mtmp = NoFile
      BY <1>7, <2>1 DEF HashTemporary, Failed
    <2>2. CASE mtmp # NoFile
      <3> DEFINE r == [source |-> mig[m].hash, logical |-> mig[m].logical, output |-> mtmp]
      <3>1. r \in Reports
        BY <1>7, <2>2 DEF HashTemporary, Reports
      <3>2. /\ mig[m].at = "hashTemp" /\ UNCHANGED <<given, disk, overlap>>
            /\ mig' = [mig EXCEPT ![m] = [mig[m] EXCEPT !.at = "writeReport", !.report = r]]
        BY <1>7, <2>2 DEF HashTemporary
      <3> HIDE DEF r
      <3> QED
        BY <3>1, <3>2
    <2> QED BY <2>1, <2>2
  <1>8. CASE WriteReport(m)
    BY <1>8 DEF WriteReport, Rollback, Failed, Step
  <1>9. CASE MoveOutput(m)
    BY <1>9 DEF MoveOutput, Rollback, Failed, Step
  <1>10. CASE MoveReport(m)
    BY <1>10 DEF MoveReport, Rollback, Failed, Step
  <1>11. CASE MigrationCrash(m)
    BY <1>11 DEF MigrationCrash
  <1> QED
    BY <1>1, <1>2, <1>3, <1>4, <1>5, <1>6, <1>7, <1>8, <1>9, <1>10, <1>11 DEF MigrationStep

\* While no two migrations overlap, the steps of one that runs find the others
\* stopped.
LEMMA OthersStopped ==
    ASSUME MigrationInv, NEW m \in Migrators, MigrationStep(m), ~overlap'
    PROVE  /\ ~overlap
           /\ \A n \in Migrators \ {m} : mig'[n] = mig[n]
           /\ Active(m) \/ Active(m)' => \A n \in Migrators \ {m} : ~Active(n)
           /\ UNCHANGED <<version, source, sourceSwaps>>
  <1> USE DEF MigrationInv, MigrationTypeOK
  <1>1. /\ ~overlap /\ UNCHANGED <<version, source, sourceSwaps>>
        /\ \A n \in Migrators \ {m} : mig'[n] = mig[n]
    BY DEF MigrationStep, RequireAbsent, ReadSource, CreateCopy, CopySource, Upgrade, Rehash,
           HashTemporary, WriteReport, MoveOutput, MoveReport, MigrationCrash, Rollback, Step, Failed, given
  <1>2. CASE Active(m)
    BY <1>1, <1>2
  <1>3. CASE RequireAbsent(m)
    <2>1. CASE overlap' = (overlap \/ \E n \in Migrators \ {m} : mig[n].at \notin Stopped)
      BY <1>1, <2>1 DEF Active
    <2>2. CASE Failed(m)
      BY <1>1, <1>3, <2>2 DEF RequireAbsent, Failed, Active, Stopped
    <2> QED
      BY <1>3, <2>1, <2>2 DEF RequireAbsent
  <1> QED
    BY <1>2, <1>3 DEF MigrationStep, ReadSource, CreateCopy, CopySource, Upgrade, Rehash,
           HashTemporary, WriteReport, MoveOutput, MoveReport, MigrationCrash, Step, Active, Stopped

\* A migration that runs alone makes its files in order, of one source.
LEMMA MadeStep ==
    ASSUME MigrationInv, NEW m \in Migrators, MigrationStep(m), ~overlap', Active(m)'
    PROVE  Made(m)' /\ (sourceSwaps < 2 => OfOneSource(m)')
  <1>1. /\ ~overlap /\ UNCHANGED <<version, source, sourceSwaps>>
        /\ Active(m) => Made(m) /\ (sourceSwaps < 2 => OfOneSource(m))
    BY OthersStopped DEF MigrationInv
  <1> USE DEF MigrationInv, MigrationTypeOK, Active, Stopped, Made, OfOneSource
  <1>2. CASE RequireAbsent(m)
    <2>1. /\ mig' = [mig EXCEPT ![m] = [mig[m] EXCEPT !.at = "read", !.hash = source]]
          /\ UNCHANGED disk /\ mout = NoFile /\ mreport = NoFile /\ mtmp = NoFile
      BY <1>2 DEF RequireAbsent, Failed
    <2> QED
      BY <1>1, <2>1 DEF disk
  <1>3. CASE ReadSource(m)
    BY <1>1, <1>3 DEF ReadSource, disk
  <1>4. CASE CreateCopy(m)
    <2>1. /\ version = 1 /\ mig[m].at = "fill" /\ Step(m, "fill", "upgrade")
          /\ mtmp' = [by |-> m, from |-> mig[m].logical, schema |-> 0]
          /\ UNCHANGED <<mout, mrtmp, mreport>>
      BY <1>4 DEF CreateCopy, Failed
    <2>2. mtmp' \in Files
      BY <2>1 DEF Files
    <2> QED
      BY <1>1, <2>1, <2>2, MigrationAssumption DEF Step
  <1>5. CASE CopySource(m)
    <2>1. mtmp' \in Files /\ mtmp'.by = m /\ mtmp'.from = source
      BY <1>5 DEF CopySource, Files
    <2> QED
      BY <1>1, <1>5, <2>1, MigrationAssumption DEF CopySource, Step
  <1>6. CASE Upgrade(m)
    <2>1. /\ mtmp' = [mtmp EXCEPT !.schema = version + 1] /\ mtmp \in Files
          /\ Step(m, "upgrade", "rehash") /\ UNCHANGED <<mout, mrtmp, mreport>>
      BY <1>1, <1>6 DEF Upgrade, Opened, Step
    <2>2. mtmp' \in Files /\ mtmp'.by = mtmp.by /\ mtmp'.from = mtmp.from /\ mtmp'.schema = version + 1
      BY <2>1 DEF Files
    <2> QED
      BY <1>1, <2>1, <2>2, MigrationAssumption DEF Step
  <1>7. CASE Rehash(m)
    BY <1>1, <1>7 DEF Rehash, Failed, Step, disk
  <1>8. CASE HashTemporary(m)
    <2> DEFINE r == [source |-> mig[m].hash, logical |-> mig[m].logical, output |-> mtmp]
    <2>1. /\ mig[m].at = "hashTemp" /\ UNCHANGED disk
          /\ mig' = [mig EXCEPT ![m] = [mig[m] EXCEPT !.at = "writeReport", !.report = r]]
      BY <1>1, <1>8 DEF HashTemporary, Failed
    <2>2. r.source = mig[m].hash /\ r.logical = mig[m].logical /\ r.output = mtmp
      OBVIOUS
    <2> HIDE DEF r
    <2> QED
      BY <1>1, <2>1, <2>2 DEF disk
  <1>9. CASE WriteReport(m)
    BY <1>1, <1>9 DEF WriteReport, Rollback, Failed, Step
  <1>10. CASE MoveOutput(m)
    BY <1>1, <1>10 DEF MoveOutput, Rollback, Failed, Step
  <1>11. CASE MoveReport(m)
    BY <1>1, <1>11 DEF MoveReport, Rollback, Failed, Step
  <1>12. CASE MigrationCrash(m)
    BY <1>1, <1>12 DEF MigrationCrash
  <1> QED
    BY <1>2, <1>3, <1>4, <1>5, <1>6, <1>7, <1>8, <1>9, <1>10, <1>11, <1>12 DEF MigrationStep

\* A step publishes a report only with the output it names.
LEMMA ReportStep ==
    ASSUME MigrationInv, NEW m \in Migrators, MigrationStep(m)
    PROVE  ReportMatchesOutput'
  <1> SUFFICES ASSUME ~overlap' PROVE ReportMatchesOutput'
    BY DEF ReportMatchesOutput
  <1>1. /\ ~overlap /\ UNCHANGED <<version, source, sourceSwaps>>
        /\ Active(m) => Made(m) /\ (sourceSwaps < 2 => OfOneSource(m))
    BY OthersStopped DEF MigrationInv
  <1> USE DEF MigrationInv, ReportMatchesOutput
  <1>2. CASE mreport' = NoFile
    BY <1>2
  <1>3. CASE mreport' = mreport /\ mout' = mout
    BY <1>1, <1>3
  <1>4. CASE MoveReport(m) /\ mreport' = mrtmp
    BY <1>1, <1>4 DEF MoveReport, Made, OfOneSource, Active, Stopped, Step, Rollback, Failed
  <1>5. mreport' = NoFile \/ (mreport' = mreport /\ mout' = mout) \/ (MoveReport(m) /\ mreport' = mrtmp)
    BY <1>1 DEF MigrationStep, RequireAbsent, ReadSource, CreateCopy, CopySource, Upgrade, Rehash,
           HashTemporary, WriteReport, MoveOutput, MoveReport, MigrationCrash, Rollback, Step, Failed,
           disk, Made, Active, Stopped
  <1> QED
    BY <1>2, <1>3, <1>4, <1>5

LEMMA MigrationInductive == MigrationInv /\ [MigrationNext]_migrationVars => MigrationInv'
  <1> SUFFICES ASSUME MigrationInv, [MigrationNext]_migrationVars PROVE MigrationInv'
    OBVIOUS
  <1>1. ASSUME NEW m \in Migrators, MigrationStep(m) PROVE MigrationInv'
    <2>1. MigrationTypeOK'
      BY <1>1, MigrationTyped DEF MigrationInv
    <2>2. ReportMatchesOutput'
      BY <1>1, ReportStep
    <2>3. ASSUME ~overlap'
          PROVE  /\ \A k, n \in Migrators : Active(k)' /\ Active(n)' => k = n
                 /\ \A n \in Migrators : Active(n)' => Made(n)' /\ (sourceSwaps' < 2 => OfOneSource(n)')
      <3>1. /\ ~overlap /\ UNCHANGED <<version, source, sourceSwaps>>
            /\ \A n \in Migrators \ {m} : mig'[n] = mig[n]
            /\ Active(m) \/ Active(m)' => \A n \in Migrators \ {m} : ~Active(n)
        BY <1>1, <2>3, OthersStopped
      <3>2. \A n \in Migrators \ {m} : Active(n)' <=> Active(n)
        BY <3>1 DEF Active
      <3>3. CASE Active(m) \/ Active(m)'
        BY <1>1, <2>3, <3>1, <3>2, <3>3, MadeStep
      <3>4. CASE ~Active(m) /\ ~Active(m)'
        <4>1. UNCHANGED disk
          BY <1>1, <3>4 DEF MigrationStep, RequireAbsent, ReadSource, CreateCopy, CopySource, Upgrade,
             Rehash, HashTemporary, WriteReport, MoveOutput, MoveReport, MigrationCrash, Step, Active,
             Stopped, MigrationInv, MigrationTypeOK
        <4> QED
          BY <3>1, <3>2, <3>4, <4>1 DEF MigrationInv, Made, OfOneSource, disk
      <3> QED
        BY <3>3, <3>4
    <2> QED
      BY <2>1, <2>2, <2>3 DEF MigrationInv
  <1>2. CASE ReplaceSource
    <2>1. MigrationTypeOK'
      BY <1>2 DEF ReplaceSource, disk, MigrationInv, MigrationTypeOK, Active
    <2>2. ASSUME NEW m \in Migrators, ~overlap, Active(m)
          PROVE  Made(m)' /\ (sourceSwaps' < 2 => OfOneSource(m)')
      BY <1>2, <2>2 DEF ReplaceSource, disk, MigrationInv, MigrationTypeOK, Made, OfOneSource
    <2>3. ReportMatchesOutput'
      BY <1>2 DEF ReplaceSource, disk, MigrationInv, MigrationTypeOK, ReportMatchesOutput
    <2> QED
      BY <1>2, <2>1, <2>2, <2>3 DEF ReplaceSource, MigrationInv, Active
  <1>3. CASE UNCHANGED migrationVars
    BY <1>3 DEF migrationVars, MigrationInv, MigrationTypeOK, ReportMatchesOutput, Active, Made, OfOneSource
  <1> QED
    BY <1>1, <1>2, <1>3 DEF MigrationNext, MigrationStep

LEMMA InitMigration == MigrationInit => MigrationInv
  <1> SUFFICES ASSUME MigrationInit PROVE MigrationInv
    OBVIOUS
  <1>1. \A m \in Migrators : mig[m].at = "begin" /\ ~Active(m)
    BY DEF MigrationInit, Active, Stopped
  <1>2. MigrationTypeOK
    BY <1>1 DEF MigrationInit, MigrationTypeOK, MigrationSteps, Stopped
  <1> QED
    BY <1>1, <1>2 DEF MigrationInit, MigrationInv, ReportMatchesOutput

\* A migration report (migrate_database and its successors) names the output
\* beside it, fully upgraded, with the hashes of its content, through crashes
\* and retries at any step, while no two migrations of one output overlap.
THEOREM ReportMatchesOutputHolds == MigrationSpec => []ReportMatchesOutput
  <1>1. MigrationInv => ReportMatchesOutput
    BY DEF MigrationInv
  <1> QED
    BY <1>1, InitMigration, MigrationInductive, PTL DEF MigrationSpec

-----------------------------------------------------------------------------
(* The lineage plan: every pair is of two rows of one table with the same   *)
(* payload, under parents that are a pair of the plan themselves.           *)

IsFunction(pairs) == \A p, q \in pairs : p[1] = q[1] => p = q
Twins(g, pair, table, parents) ==
  \E l, c \in RowsOf(g, table) :
    /\ pair = <<l.id, c.id>>
    /\ l.payload = c.payload
    /\ table = "documents" \/ <<l.parent, c.parent>> \in parents
Matched(g, pairs, table, parents) ==
  IsFunction(pairs) /\ \A pair \in pairs : Twins(g, pair, table, parents)

LEMMA MatchedAreFunctions ==
  ASSUME NEW g, IsDatabase(g), NEW legacy \in SUBSET g, NEW canonical \in SUBSET g
  PROVE  IsFunction(MatchPayloadRows(legacy, canonical))
  BY DEF IsDatabase, MatchPayloadRows, IsFunction

LEMMA ChildrenMatched ==
  ASSUME NEW g, IsDatabase(g), NEW table, NEW parents, IsFunction(parents),
         \A p \in parents : p = <<p[1], p[2]>>,
         NEW pairs \in SUBSET UNION {MatchPayloadRows(Children(g, table, p[1]), Children(g, table, p[2]))
                                     : p \in parents}
  PROVE  Matched(g, pairs, table, parents)
  <1>1. ASSUME NEW pair \in pairs
        PROVE  \E p \in parents : \E l \in Children(g, table, p[1]), c \in Children(g, table, p[2]) :
                 /\ pair = <<l.id, c.id>>
                 /\ l.payload = c.payload
                 /\ pair \in MatchPayloadRows(Children(g, table, p[1]), Children(g, table, p[2]))
    BY DEF MatchPayloadRows
  <1>2. ASSUME NEW pair \in pairs PROVE Twins(g, pair, table, parents)
    <2>1. PICK p \in parents : \E l \in Children(g, table, p[1]), c \in Children(g, table, p[2]) :
            pair = <<l.id, c.id>> /\ l.payload = c.payload
      BY <1>1
    <2>2. PICK l \in Children(g, table, p[1]), c \in Children(g, table, p[2]) :
            pair = <<l.id, c.id>> /\ l.payload = c.payload
      BY <2>1
    <2>3. l \in RowsOf(g, table) /\ c \in RowsOf(g, table) /\ l.parent = p[1] /\ c.parent = p[2]
      BY DEF Children
    <2>4. p = <<p[1], p[2]>>
      OBVIOUS
    <2>5. <<l.parent, c.parent>> \in parents
      BY <2>3, <2>4
    <2> QED
      BY <2>2, <2>3, <2>5 DEF Twins
  <1>3. ASSUME NEW a \in pairs, NEW b \in pairs, a[1] = b[1] PROVE a = b
    <2>1. PICK p \in parents : \E l \in Children(g, table, p[1]) :
            /\ a[1] = l.id
            /\ a \in MatchPayloadRows(Children(g, table, p[1]), Children(g, table, p[2]))
      BY <1>1
    <2>2. PICK q \in parents : \E l \in Children(g, table, q[1]) :
            /\ b[1] = l.id
            /\ b \in MatchPayloadRows(Children(g, table, q[1]), Children(g, table, q[2]))
      BY <1>1
    <2>3. p = q
      BY <1>3, <2>1, <2>2 DEF IsDatabase, Children, RowsOf, IsFunction
    <2> DEFINE legacy == Children(g, table, p[1])
               canonical == Children(g, table, p[2])
    <2>4. legacy \in SUBSET g /\ canonical \in SUBSET g
      BY DEF Children, RowsOf
    <2>5. a \in MatchPayloadRows(legacy, canonical) /\ b \in MatchPayloadRows(legacy, canonical)
      BY <2>1, <2>2, <2>3
    <2> HIDE DEF legacy, canonical
    <2>6. IsFunction(MatchPayloadRows(legacy, canonical))
      BY <2>4, MatchedAreFunctions
    <2> QED
      BY <1>3, <2>5, <2>6 DEF IsFunction
  <1> QED
    BY <1>2, <1>3 DEF Matched, IsFunction

LEMMA RowByIdIs ==
  ASSUME NEW g, IsDatabase(g), NEW r \in g PROVE RowById(g, r.id) = r
  BY DEF IsDatabase, RowById

LEMMA DocumentsMatched ==
  ASSUME NEW g, IsDatabase(g), NEW m, OneToOne(m.documents)
  PROVE  Matched(g, MatchDocuments(g, m), "documents", {})
  <1>1. ASSUME NEW pair \in MatchDocuments(g, m) PROVE Twins(g, pair, "documents", {})
    <2>1. /\ pair = <<pair[1], pair[2]>>
          /\ pair[1] \in Ids(RowsOf(g, "documents")) /\ pair[2] \in Ids(RowsOf(g, "documents"))
          /\ RowById(g, pair[1]).payload = RowById(g, pair[2]).payload
      BY DEF MatchDocuments, OneToOne
    <2>2. PICK l \in RowsOf(g, "documents"), c \in RowsOf(g, "documents") : l.id = pair[1] /\ c.id = pair[2]
      BY <2>1 DEF Ids
    <2>3. RowById(g, l.id) = l /\ RowById(g, c.id) = c
      BY RowByIdIs DEF RowsOf
    <2> QED
      BY <2>1, <2>2, <2>3 DEF Twins
  <1> QED
    BY <1>1 DEF Matched, IsFunction, MatchDocuments, OneToOne

LEMMA RevisionsMatched ==
  ASSUME NEW g, IsDatabase(g), NEW m, OneToOne(m.revisions), NEW docs
  PROVE  Matched(g, MatchRevisions(g, m, docs), "revisions", docs)
  <1>1. ASSUME NEW pair \in MatchRevisions(g, m, docs) PROVE Twins(g, pair, "revisions", docs)
    <2>1. /\ pair = <<pair[1], pair[2]>>
          /\ pair[1] \in Ids(RowsOf(g, "revisions")) /\ pair[2] \in Ids(RowsOf(g, "revisions"))
          /\ <<RowById(g, pair[1]).parent, RowById(g, pair[2]).parent>> \in docs
          /\ RowById(g, pair[1]).payload = RowById(g, pair[2]).payload
      BY DEF MatchRevisions, OneToOne
    <2>2. PICK l \in RowsOf(g, "revisions"), c \in RowsOf(g, "revisions") : l.id = pair[1] /\ c.id = pair[2]
      BY <2>1 DEF Ids
    <2>3. RowById(g, l.id) = l /\ RowById(g, c.id) = c
      BY RowByIdIs DEF RowsOf
    <2> QED
      BY <2>1, <2>2, <2>3 DEF Twins
  <1> QED
    BY <1>1 DEF Matched, IsFunction, MatchRevisions, OneToOne

LEMMA PairsArePairs ==
  ASSUME NEW g, NEW pairs, NEW table, NEW parents, Matched(g, pairs, table, parents)
  PROVE  \A p \in pairs : p = <<p[1], p[2]>>
  <1> TAKE p \in pairs
  <1>1. PICK l \in RowsOf(g, table), c \in RowsOf(g, table) : p = <<l.id, c.id>>
    BY DEF Matched, Twins
  <1> QED
    BY <1>1

\* Two tables share no id, so what is matched table by table is one function.
EvidenceTables == {"documents", "revisions", "pages", "elements", "clauses"}
Mapped(g, map) ==
  IsFunction(map) /\ \A pair \in map : \E table \in EvidenceTables : Twins(g, pair, table, map)

LEMMA MatchedTogether ==
  ASSUME NEW g, IsDatabase(g), NEW docs, NEW revs, NEW pages, NEW elements, NEW clauses,
         Matched(g, docs, "documents", {}), Matched(g, revs, "revisions", docs),
         Matched(g, pages, "pages", revs), Matched(g, elements, "elements", pages),
         Matched(g, clauses, "clauses", revs)
  PROVE  Mapped(g, docs \cup revs \cup pages \cup (elements \cup clauses))
  <1> DEFINE map == docs \cup revs \cup pages \cup (elements \cup clauses)
  <1> DEFINE of == [documents |-> docs, revisions |-> revs, pages |-> pages, elements |-> elements,
                    clauses |-> clauses]
  <1>1. ASSUME NEW pair \in map
        PROVE  \E table \in EvidenceTables : pair \in of[table] /\ Twins(g, pair, table, map)
    <2>1. CASE pair \in docs
      BY <2>1 DEF Matched, Twins, EvidenceTables
    <2>2. CASE pair \in revs
      BY <2>2 DEF Matched, Twins, EvidenceTables
    <2>3. CASE pair \in pages
      BY <2>3 DEF Matched, Twins, EvidenceTables
    <2>4. CASE pair \in elements
      BY <2>4 DEF Matched, Twins, EvidenceTables
    <2>5. CASE pair \in clauses
      BY <2>5 DEF Matched, Twins, EvidenceTables
    <2> QED
      BY <2>1, <2>2, <2>3, <2>4, <2>5
  <1>2. ASSUME NEW a \in map, NEW b \in map, a[1] = b[1] PROVE a = b
    <2>1. PICK s \in EvidenceTables : a \in of[s] /\ Twins(g, a, s, map)
      BY <1>1
    <2>2. PICK t \in EvidenceTables : b \in of[t] /\ Twins(g, b, t, map)
      BY <1>1
    <2>3. s = t
      BY <1>2, <2>1, <2>2 DEF Twins, RowsOf, IsDatabase
    <2>4. IsFunction(of[s])
      BY DEF Matched, EvidenceTables
    <2> QED
      BY <1>2, <2>1, <2>2, <2>3, <2>4 DEF IsFunction
  <1> QED
    BY <1>1, <1>2 DEF Mapped, IsFunction

LEMMA ImageOfPair ==
  ASSUME NEW map, IsFunction(map), NEW pair \in map PROVE Image(map, pair[1]) = pair[2]
  BY DEF IsFunction, Image

LEMMA ImageOfOther ==
  ASSUME NEW map, NEW id, \A pair \in map : pair[1] # id PROVE Image(map, id) = id
  BY DEF Image

LEMMA ImageWithin ==
  ASSUME NEW map, NEW more, NEW id, \A pair \in more : pair[1] # id,
         IsFunction(map \cup more)
  PROVE  Image(map \cup more, id) = Image(map, id)
  <1>1. CASE \E pair \in map : pair[1] = id
    <2>1. PICK pair \in map : pair[1] = id
      BY <1>1
    <2>2. IsFunction(map)
      BY DEF IsFunction
    <2> QED
      BY <2>1, <2>2, ImageOfPair
  <1>2. CASE \A pair \in map : pair[1] # id
    BY <1>2, ImageOfOther
  <1> QED
    BY <1>1, <1>2

LEMMA PlanRecord ==
  ASSUME NEW a \in BOOLEAN, NEW b \in BOOLEAN, NEW x, NEW plan,
         plan = [ready |-> a /\ b, map |-> x], plan.ready
  PROVE  a /\ b /\ plan.map = x
  OBVIOUS

LEMMA PlanIsMapped ==
  ASSUME NEW g \in Graphs, NEW m \in Manifests, PlanLineage(g, m).ready
  PROVE  /\ m.hash = g
         /\ \E map : /\ Mapped(g, map)
                     /\ Ids(LegacyLinks(g, map) \cup LegacyFlags(g, map))
                          \subseteq {pair[1] : pair \in MatchLinks(g, map) \cup MatchReviewFlags(g, map)}
                     /\ PlanLineage(g, m).map = map \cup (MatchLinks(g, map) \cup MatchReviewFlags(g, map))
  <1> DEFINE docs == MatchDocuments(g, m)
             revs == MatchRevisions(g, m, docs)
             pages == MatchPages(g, revs)
             elements == UNION {MatchPayloadRows(Children(g, "elements", p[1]), Children(g, "elements", p[2]))
                                : p \in pages}
             clauses == UNION {MatchPayloadRows(Children(g, "clauses", p[1]), Children(g, "clauses", p[2]))
                               : p \in revs}
             map == docs \cup revs \cup pages \cup (elements \cup clauses)
  <1>1. IsDatabase(g) /\ OneToOne(m.documents) /\ OneToOne(m.revisions)
    BY LineageAssumption
  <1>2. Matched(g, docs, "documents", {})
    BY <1>1, DocumentsMatched
  <1>3. Matched(g, revs, "revisions", docs)
    BY <1>1, RevisionsMatched
  <1>4. Matched(g, pages, "pages", revs)
    <2>1. pages \in SUBSET UNION {MatchPayloadRows(Children(g, "pages", p[1]), Children(g, "pages", p[2]))
                                  : p \in revs}
      BY DEF MatchPages
    <2> HIDE DEF revs, pages
    <2>2. IsFunction(revs) /\ \A p \in revs : p = <<p[1], p[2]>>
      BY <1>3, PairsArePairs DEF Matched
    <2> QED
      BY <1>1, <2>1, <2>2, ChildrenMatched
  <1>5. Matched(g, elements, "elements", pages)
    <2> HIDE DEF pages
    <2>1. IsFunction(pages) /\ \A p \in pages : p = <<p[1], p[2]>>
      BY <1>4, PairsArePairs DEF Matched
    <2> QED
      BY <1>1, <2>1, ChildrenMatched
  <1>6. Matched(g, clauses, "clauses", revs)
    <2> HIDE DEF revs
    <2>1. IsFunction(revs) /\ \A p \in revs : p = <<p[1], p[2]>>
      BY <1>3, PairsArePairs DEF Matched
    <2> QED
      BY <1>1, <2>1, ChildrenMatched
  <1>7. Mapped(g, map)
    <2> HIDE DEF docs, revs, pages, elements, clauses
    <2> QED
      BY <1>1, <1>2, <1>3, <1>4, <1>5, <1>6, MatchedTogether
  <1>8. MatchContents(g, pages, revs) = elements \cup clauses
    BY DEF MatchContents
  <1>9. /\ m.hash = g
        /\ Ids(LegacyLinks(g, map) \cup LegacyFlags(g, map))
             \subseteq {pair[1] : pair \in MatchLinks(g, map) \cup MatchReviewFlags(g, map)}
        /\ PlanLineage(g, m).map = map \cup (MatchLinks(g, map) \cup MatchReviewFlags(g, map))
    <2>1. m.hash = g
      BY DEF PlanLineage
    <2> DEFINE relations(all) == MatchLinks(g, all) \cup MatchReviewFlags(g, all)
               structural == LegacyRows(g, m, docs, revs, pages) \subseteq {pair[1] : pair \in map}
               related == Ids(LegacyLinks(g, map) \cup LegacyFlags(g, map))
                            \subseteq {pair[1] : pair \in relations(map)}
    <2>2. PlanLineage(g, m) = [ready |-> structural /\ related, map |-> map \cup relations(map)]
      BY <2>1, <1>8 DEF PlanLineage
    <2>3. structural \in BOOLEAN /\ related \in BOOLEAN
      OBVIOUS
    <2> HIDE DEF structural, related, map, relations
    <2>4. related /\ PlanLineage(g, m).map = map \cup relations(map)
      BY <2>2, <2>3, PlanRecord
    <2> QED
      BY <2>1, <2>4 DEF related, relations
  <1> QED
    BY <1>7, <1>9

\* Links and flags join the map without disturbing it.
LEMMA RelationsMatched ==
  ASSUME NEW g, IsDatabase(g), NEW map, Mapped(g, map)
  PROVE  /\ \A pair \in MatchLinks(g, map) : \E l, c \in RowsOf(g, "links") :
              /\ pair = <<l.id, c.id>>
              /\ c.payload = <<Image(map, l.payload[1]), Image(map, l.payload[2])>>
         /\ \A pair \in MatchReviewFlags(g, map) : \E l, c \in RowsOf(g, "review_flags") :
              /\ pair = <<l.id, c.id>>
              /\ c.parent = Image(map, l.parent) /\ c.payload = l.payload
         /\ IsFunction(map \cup (MatchLinks(g, map) \cup MatchReviewFlags(g, map)))
  <1> DEFINE links == MatchLinks(g, map)
             flags == MatchReviewFlags(g, map)
             image(l) == <<Image(map, l.payload[1]), Image(map, l.payload[2])>>
  <1>1. \A pair \in links : \E l \in RowsOf(g, "links"), c \in RowsOf(g, "links") :
          pair = <<l.id, c.id>> /\ {x \in RowsOf(g, "links") : x.payload = image(l)} = {c}
    BY DEF MatchLinks, LegacyLinks
  <1>2. \A pair \in flags : \E l \in RowsOf(g, "review_flags"), c \in RowsOf(g, "review_flags") :
          /\ pair = <<l.id, c.id>>
          /\ {x \in RowsOf(g, "review_flags") : x.parent = Image(map, l.parent) /\ x.payload = l.payload} = {c}
    BY DEF MatchReviewFlags, LegacyFlags
  <1>3. ASSUME NEW pair \in links
        PROVE  \E l, c \in RowsOf(g, "links") : pair = <<l.id, c.id>> /\ c.payload = image(l)
    <2>1. PICK l \in RowsOf(g, "links"), c \in RowsOf(g, "links") :
            pair = <<l.id, c.id>> /\ {x \in RowsOf(g, "links") : x.payload = image(l)} = {c}
      BY <1>1
    <2>2. c.payload = image(l)
      BY <2>1
    <2> QED
      BY <2>1, <2>2
  <1>4. ASSUME NEW pair \in flags
        PROVE  \E l, c \in RowsOf(g, "review_flags") :
                 pair = <<l.id, c.id>> /\ c.parent = Image(map, l.parent) /\ c.payload = l.payload
    <2>1. PICK l \in RowsOf(g, "review_flags"), c \in RowsOf(g, "review_flags") :
            /\ pair = <<l.id, c.id>>
            /\ {x \in RowsOf(g, "review_flags") : x.parent = Image(map, l.parent) /\ x.payload = l.payload} = {c}
      BY <1>2
    <2>2. c.parent = Image(map, l.parent) /\ c.payload = l.payload
      BY <2>1
    <2> QED
      BY <2>1, <2>2
  <1>5. IsFunction(links)
    <2> SUFFICES ASSUME NEW a \in links, NEW b \in links, a[1] = b[1] PROVE a = b
      BY DEF IsFunction
    <2>1. PICK l \in RowsOf(g, "links"), c \in RowsOf(g, "links") :
            a = <<l.id, c.id>> /\ {x \in RowsOf(g, "links") : x.payload = image(l)} = {c}
      BY <1>1
    <2>2. PICK k \in RowsOf(g, "links"), d \in RowsOf(g, "links") :
            b = <<k.id, d.id>> /\ {x \in RowsOf(g, "links") : x.payload = image(k)} = {d}
      BY <1>1
    <2>3. l = k
      BY <2>1, <2>2 DEF IsDatabase, RowsOf
    <2> QED
      BY <2>1, <2>2, <2>3
  <1>6. IsFunction(flags)
    <2> SUFFICES ASSUME NEW a \in flags, NEW b \in flags, a[1] = b[1] PROVE a = b
      BY DEF IsFunction
    <2>1. PICK l \in RowsOf(g, "review_flags"), c \in RowsOf(g, "review_flags") :
            /\ a = <<l.id, c.id>>
            /\ {x \in RowsOf(g, "review_flags") : x.parent = Image(map, l.parent) /\ x.payload = l.payload} = {c}
      BY <1>2
    <2>2. PICK k \in RowsOf(g, "review_flags"), d \in RowsOf(g, "review_flags") :
            /\ b = <<k.id, d.id>>
            /\ {x \in RowsOf(g, "review_flags") : x.parent = Image(map, k.parent) /\ x.payload = k.payload} = {d}
      BY <1>2
    <2>3. l = k
      BY <2>1, <2>2 DEF IsDatabase, RowsOf
    <2> QED
      BY <2>1, <2>2, <2>3
  <1>7. \A pair \in map : \E r \in g : r.table \in EvidenceTables /\ r.id = pair[1]
    <2> TAKE pair \in map
    <2>1. PICK table \in EvidenceTables : Twins(g, pair, table, map)
      BY DEF Mapped
    <2>2. PICK l \in RowsOf(g, table) : pair[1] = l.id
      BY <2>1 DEF Twins
    <2> QED
      BY <2>2 DEF RowsOf
  <1>8. /\ \A pair \in links : \E r \in g : r.table = "links" /\ r.id = pair[1]
        /\ \A pair \in flags : \E r \in g : r.table = "review_flags" /\ r.id = pair[1]
    BY <1>1, <1>2 DEF RowsOf
  <1> HIDE DEF links, flags
  <1>9. /\ \A a \in map, b \in links \cup flags : a[1] # b[1]
        /\ \A a \in links, b \in flags : a[1] # b[1]
    BY <1>7, <1>8 DEF IsDatabase, EvidenceTables
  <1>10. IsFunction(map \cup (links \cup flags))
    <2>1. IsFunction(map)
      BY DEF Mapped
    <2> QED
      <3> SUFFICES ASSUME NEW a \in map \cup (links \cup flags), NEW b \in map \cup (links \cup flags),
                          a[1] = b[1]
                   PROVE  a = b
        BY DEF IsFunction
      <3>1. CASE a \in map
        BY <1>9, <2>1, <3>1 DEF IsFunction
      <3>2. CASE a \in links
        BY <1>5, <1>9, <3>2 DEF IsFunction
      <3>3. CASE a \in flags
        BY <1>6, <1>9, <3>3 DEF IsFunction
      <3> QED
        BY <3>1, <3>2, <3>3
  <1> USE DEF links, flags
  <1> QED
    BY <1>3, <1>4, <1>10

\* What the rows become under a map.
KeptAs(r, x, map) ==
  /\ x.id = Image(map, r.id)
  /\ x.table = r.table
  /\ x.parent = Image(map, r.parent)
  /\ x.payload = IF r.table = "links"
                 THEN <<Image(map, r.payload[1]), Image(map, r.payload[2])>> ELSE r.payload

\* The copy of a verified plan has every row in its image: a row with a
\* counterpart in the counterpart, whose deletion the verification excludes,
\* any other row in itself, since its parent, ends or subject were not deleted
\* (a foreign key fails, a link or flag without a counterpart blocks the plan).
LEMMA CopyKeepsRows ==
  ASSUME NEW g \in Graphs, NEW m \in Manifests, PlanLineage(g, m).ready,
         NEW all, all = PlanLineage(g, m).map,
         NEW rest, rest = DeleteLegacy(g, all), VerifyMapping(rest, all)
  PROVE  \A r \in g : \E x \in rest : KeptAs(r, x, all)
  <1>1. IsDatabase(g)
    BY LineageAssumption
  <1>2. PICK map : /\ Mapped(g, map)
                   /\ Ids(LegacyLinks(g, map) \cup LegacyFlags(g, map))
                        \subseteq {pair[1] : pair \in MatchLinks(g, map) \cup MatchReviewFlags(g, map)}
                   /\ all = map \cup (MatchLinks(g, map) \cup MatchReviewFlags(g, map))
    BY PlanIsMapped
  <1> DEFINE links == MatchLinks(g, map)
             flags == MatchReviewFlags(g, map)
             relations == links \cup flags
             about(id) == id \notin Ids(RowsOf(g, "links") \cup RowsOf(g, "review_flags"))
  <1>3. /\ \A pair \in links : \E l, c \in RowsOf(g, "links") :
             /\ pair = <<l.id, c.id>>
             /\ c.payload = <<Image(map, l.payload[1]), Image(map, l.payload[2])>>
        /\ \A pair \in flags : \E l, c \in RowsOf(g, "review_flags") :
             pair = <<l.id, c.id>> /\ c.parent = Image(map, l.parent) /\ c.payload = l.payload
        /\ IsFunction(map \cup relations)
    <2>1. Mapped(g, map)
      BY <1>2
    <2> QED
      BY <1>1, <2>1, RelationsMatched
  <1>4. all = map \cup relations
    BY <1>2
  <1> HIDE DEF links, flags
  <1>5. IsFunction(all)
    BY <1>3, <1>4
  <1>6. \A p \in all : p[1] \in Ids(g)
    <2> TAKE p \in all
    <2>1. CASE p \in map
      <3>1. PICK table \in EvidenceTables : Twins(g, p, table, map)
        BY <1>2, <2>1 DEF Mapped
      <3>2. PICK l \in RowsOf(g, table) : p[1] = l.id
        BY <3>1 DEF Twins
      <3> QED
        BY <3>2 DEF RowsOf, Ids
    <2>2. CASE p \in links
      BY <1>3, <2>2 DEF RowsOf, Ids
    <2>3. CASE p \in flags
      BY <1>3, <2>3 DEF RowsOf, Ids
    <2> QED
      BY <1>4, <2>1, <2>2, <2>3
  <1>7. ASSUME NEW id, about(id) PROVE Image(all, id) = Image(map, id)
    <2>1. \A pair \in relations : pair[1] # id
      BY <1>3, <1>7 DEF Ids
    <2>2. IsFunction(map \cup relations)
      BY <1>3
    <2> HIDE DEF about, relations
    <2>3. Image(map \cup relations, id) = Image(map, id)
      BY <2>1, <2>2, ImageWithin
    <2> QED
      BY <1>4, <2>3
  <1>8. ASSUME NEW pair \in all
        PROVE  \E l, c \in g : /\ pair = <<l.id, c.id>>
                               /\ l.table = c.table
                               /\ KeptAs(l, c, all)
    <2>1. Image(all, pair[1]) = pair[2]
      BY <1>5, ImageOfPair
    <2>2. CASE pair \in map
      <3>1. PICK table \in EvidenceTables : Twins(g, pair, table, map)
        BY <1>2, <2>2 DEF Mapped
      <3>2. PICK l \in RowsOf(g, table), c \in RowsOf(g, table) :
              /\ pair = <<l.id, c.id>> /\ l.payload = c.payload
              /\ table = "documents" \/ <<l.parent, c.parent>> \in map
        BY <3>1 DEF Twins
      <3>3. c.parent = Image(all, l.parent)
        <4>1. CASE <<l.parent, c.parent>> \in map
          BY <1>5, <1>4, <4>1, ImageOfPair
        <4>2. CASE table = "documents"
          <5>1. l.parent = c.parent /\ l.parent \notin Ids(g)
            BY <1>1, <3>2, <4>2 DEF IsDatabase, RowsOf
          <5> QED
            BY <1>6, <5>1, ImageOfOther
        <4> QED
          BY <3>2, <4>1, <4>2
      <3> QED
        BY <2>1, <3>2, <3>3 DEF KeptAs, RowsOf, EvidenceTables
    <2>3. CASE pair \in links
      <3>1. PICK l \in RowsOf(g, "links"), c \in RowsOf(g, "links") :
              /\ pair = <<l.id, c.id>>
              /\ c.payload = <<Image(map, l.payload[1]), Image(map, l.payload[2])>>
        BY <1>3, <2>3
      <3>2. about(l.payload[1]) /\ about(l.payload[2]) /\ l.parent = c.parent /\ l.parent \notin Ids(g)
        BY <1>1 DEF IsDatabase, RowsOf
      <3>4. Image(all, l.parent) = l.parent
        BY <1>6, <3>2, ImageOfOther
      <3> HIDE DEF about
      <3> QED
        BY <1>7, <2>1, <3>1, <3>2, <3>4 DEF KeptAs, RowsOf
    <2>4. CASE pair \in flags
      <3>1. PICK l \in RowsOf(g, "review_flags"), c \in RowsOf(g, "review_flags") :
              pair = <<l.id, c.id>> /\ c.parent = Image(map, l.parent) /\ c.payload = l.payload
        BY <1>3, <2>4
      <3>2. about(l.parent)
        BY <1>1 DEF IsDatabase, RowsOf
      <3> HIDE DEF about
      <3> QED
        BY <1>7, <2>1, <3>1, <3>2 DEF KeptAs, RowsOf
    <2> QED
      BY <1>4, <2>2, <2>3, <2>4
  <1> SUFFICES ASSUME NEW r \in g PROVE \E x \in rest : KeptAs(r, x, all)
    OBVIOUS
  <1>9. CASE \E pair \in all : pair[1] = r.id
    <2>1. PICK pair \in all : pair[1] = r.id
      BY <1>9
    <2>2. PICK l \in g, c \in g : pair = <<l.id, c.id>> /\ KeptAs(l, c, all)
      BY <1>8
    <2>3. l = r
      BY <1>1, <2>1, <2>2 DEF IsDatabase
    <2>4. PICK x \in rest : x.id = c.id
      BY <2>2 DEF VerifyMapping, Ids
    <2>5. x = c
      BY <1>1, <2>4 DEF DeleteLegacy, IsDatabase
    <2> QED
      BY <2>2, <2>3, <2>5
  <1>10. CASE \A pair \in all : pair[1] # r.id
    <2>1. r \in rest /\ Image(all, r.id) = r.id
      BY <1>10, ImageOfOther DEF DeleteLegacy
    <2>3. CASE r.table \in {"documents", "links"}
      <3>1. Image(all, r.parent) = r.parent
        BY <1>1, <1>6, <2>3, ImageOfOther DEF IsDatabase
      <3>2. CASE r.table = "links"
        <4>1. r \in RowsOf(g, "links")
          BY <3>2 DEF RowsOf
        <4>2. /\ r.payload = <<r.payload[1], r.payload[2]>>
              /\ about(r.payload[1]) /\ about(r.payload[2])
          BY <1>1, <4>1 DEF IsDatabase
        <4>3. r \notin LegacyLinks(g, map)
          BY <1>2, <1>4, <1>10 DEF Ids, links, flags
        <4>4. \A pair \in map : pair[1] # r.payload[1] /\ pair[1] # r.payload[2]
          BY <4>1, <4>3 DEF LegacyLinks
        <4> HIDE DEF about
        <4>5. Image(all, r.payload[1]) = r.payload[1] /\ Image(all, r.payload[2]) = r.payload[2]
          BY <1>7, <4>2, <4>4, ImageOfOther
        <4> QED
          BY <2>1, <3>1, <4>2, <4>5 DEF KeptAs
      <3> QED
        BY <2>1, <2>3, <3>1, <3>2 DEF KeptAs
    <2>4. CASE r.table \in {"revisions", "pages", "elements", "clauses"}
      <3>1. PICK y \in rest : y.id = r.parent
        BY <2>1, <2>4 DEF VerifyMapping, Parented, Ids
      <3>2. \A pair \in all : pair[1] # r.parent
        BY <3>1 DEF DeleteLegacy
      <3> QED
        BY <2>1, <2>4, <3>2, ImageOfOther DEF KeptAs
    <2>5. CASE r.table = "review_flags"
      <3>1. r \in RowsOf(g, "review_flags") /\ about(r.parent)
        BY <1>1, <2>5 DEF IsDatabase, RowsOf
      <3>2. r \notin LegacyFlags(g, map)
        BY <1>2, <1>4, <1>10 DEF Ids, links, flags
      <3>3. \A pair \in map : pair[1] # r.parent
        BY <3>1, <3>2 DEF LegacyFlags
      <3> HIDE DEF about
      <3>4. Image(all, r.parent) = r.parent
        BY <1>7, <3>1, <3>3, ImageOfOther
      <3> QED
        BY <2>1, <2>5, <3>4 DEF KeptAs
    <2> QED
      BY <1>1, <2>3, <2>4, <2>5 DEF IsDatabase, Tables
  <1> QED
    BY <1>9, <1>10

-----------------------------------------------------------------------------
(* The lineage migration.  Its plan is of the rows the manifest was made    *)
(* for; the copy is made from whatever the source has become, and only the  *)
(* recheck ties it to the plan.                                             *)

LineageSteps == {"plan", "copy", "recheck", "output", "aliases", "report", "published",
                 "blocked", "failed", "crash"}
LineageTypeOK ==
  /\ graph \in Graphs /\ manifest \in Manifests /\ manifest.hash \in Graphs
  /\ graphSwaps \in Nat
  /\ line = [at |-> line.at, hash |-> line.hash, map |-> line.map, copy |-> line.copy]
  /\ line.at \in LineageSteps
  /\ shelf = [files |-> shelf.files, output |-> shelf.output]

Planned ==
  /\ manifest.hash = line.hash
  /\ PlanLineage(line.hash, manifest).ready
  /\ line.map = PlanLineage(line.hash, manifest).map
Whole ==
  /\ line.copy = DeleteLegacy(line.hash, line.map)
  /\ VerifyMapping(line.copy, line.map)

LineageInv ==
  /\ LineageTypeOK
  /\ graphSwaps = 0 => graph = manifest.hash
  /\ line.at \notin {"plan", "blocked"} => Planned
  /\ line.at = "recheck" /\ graph = line.hash /\ graphSwaps < 2 => Whole
  /\ line.at \in {"output", "aliases", "report", "published"} /\ graphSwaps < 2 => Whole
  /\ shelf.files # {} =>
       /\ line.at \in {"aliases", "report", "published", "crash"}
       /\ shelf.output = line.copy
       /\ graphSwaps < 2 => Whole

LEMMA InitLineage == LineageInit => LineageInv
  BY DEF LineageInit, LineageInv, LineageTypeOK, LineageSteps

LEMMA LineageInductive == LineageInv /\ [LineageNext]_lineageVars => LineageInv'
  <1> SUFFICES ASSUME LineageInv, [LineageNext]_lineageVars PROVE LineageInv'
    OBVIOUS
  <1> USE DEF LineageInv, LineageTypeOK, LineageSteps
  <1>1. CASE Plan
    <2> DEFINE plan == PlanLineage(graph, manifest)
    <2>1. /\ line.at = "plan" /\ UNCHANGED <<graph, manifest, graphSwaps, shelf>>
          /\ \/ /\ plan.ready
                /\ line' = [line EXCEPT !.at = "copy", !.hash = graph, !.map = plan.map]
             \/ line' = [line EXCEPT !.at = "blocked"]
      BY <1>1 DEF Plan, Halt
    <2>2. plan.ready => manifest.hash = graph
      BY PlanIsMapped
    <2> HIDE DEF plan
    <2>3. CASE plan.ready /\ line' = [line EXCEPT !.at = "copy", !.hash = graph, !.map = plan.map]
      <3>1. line' = [at |-> "copy", hash |-> graph, map |-> plan.map, copy |-> line.copy]
        BY <2>3
      <3>2. Planned'
        BY <2>1, <2>2, <2>3, <3>1 DEF Planned, plan
      <3> QED
        BY <2>1, <3>1, <3>2
    <2>4. CASE line' = [line EXCEPT !.at = "blocked"]
      <3>1. line' = [at |-> "blocked", hash |-> line.hash, map |-> line.map, copy |-> line.copy]
        BY <2>4
      <3> QED
        BY <2>1, <3>1
    <2> QED
      BY <2>1, <2>3, <2>4
  <1>2. CASE CopyWithoutLegacy
    <2> DEFINE rest == DeleteLegacy(graph, line.map)
    <2>1. /\ line.at = "copy" /\ UNCHANGED <<graph, manifest, graphSwaps, shelf>>
          /\ \/ /\ VerifyMapping(rest, line.map)
                /\ line' = [line EXCEPT !.at = "recheck", !.copy = rest]
             \/ line' = [line EXCEPT !.at = "failed"]
      BY <1>2 DEF CopyWithoutLegacy, Halt
    <2>2. CASE VerifyMapping(rest, line.map) /\ line' = [line EXCEPT !.at = "recheck", !.copy = rest]
      <3> HIDE DEF rest
      <3>1. line' = [at |-> "recheck", hash |-> line.hash, map |-> line.map, copy |-> rest]
        BY <2>2
      <3>2. Planned'
        BY <2>1, <3>1 DEF Planned
      <3>3. graph = line.hash => Whole'
        BY <2>2, <3>1 DEF Whole, rest
      <3> QED
        BY <2>1, <3>1, <3>2, <3>3
    <2>3. CASE line' = [line EXCEPT !.at = "failed"]
      <3>1. line' = [at |-> "failed", hash |-> line.hash, map |-> line.map, copy |-> line.copy]
        BY <2>3
      <3>2. Planned'
        BY <2>1, <3>1 DEF Planned
      <3> QED
        BY <2>1, <3>1, <3>2
    <2> QED
      BY <2>1, <2>2, <2>3
  <1>3. ASSUME NEW why, Halt(why), UNCHANGED <<manifest, graph, graphSwaps>>
        PROVE  /\ line' = [at |-> why, hash |-> line.hash, map |-> line.map, copy |-> line.copy]
               /\ Planned' <=> Planned
               /\ Whole' <=> Whole
    <2>1. line' = [at |-> why, hash |-> line.hash, map |-> line.map, copy |-> line.copy]
      BY <1>3 DEF Halt
    <2> QED
      BY <1>3, <2>1 DEF Planned, Whole
  <1>4. CASE RecheckSource
    <2>1. CASE graph = line.hash
      BY <1>3, <1>4, <2>1 DEF RecheckSource
    <2>2. CASE graph # line.hash
      BY <1>3, <1>4, <2>2 DEF RecheckSource
    <2> QED
      BY <2>1, <2>2
  <1>5. CASE PublishNext
    <2>1. PICK step \in {<<"output", "aliases">>, <<"aliases", "report">>, <<"report", "published">>} :
            /\ line.at = step[1]
            /\ shelf' = [files |-> shelf.files \cup {step[1]}, output |-> line.copy]
            /\ Halt(step[2])
            /\ UNCHANGED <<graph, manifest, graphSwaps>>
      BY <1>5 DEF PublishNext
    <2>2. /\ line' = [at |-> step[2], hash |-> line.hash, map |-> line.map, copy |-> line.copy]
          /\ Planned' <=> Planned
          /\ Whole' <=> Whole
      BY <1>3, <2>1
    <2> QED
      BY <2>1, <2>2
  <1>6. CASE LineageCrash
    BY <1>3, <1>6 DEF LineageCrash
  <1>7. CASE ReplaceGraph
    <2>1. /\ graphSwaps' = graphSwaps + 1 /\ graph' \in Graphs \ {graph}
          /\ UNCHANGED <<manifest, line, shelf>>
          /\ Planned' <=> Planned
          /\ Whole' <=> Whole
      BY <1>7 DEF ReplaceGraph, Planned, Whole
    <2>2. line.at = "recheck" /\ graphSwaps' < 2 => Whole
      BY <2>1 DEF Planned
    <2> QED
      BY <2>1, <2>2
  <1>8. CASE UNCHANGED lineageVars
    BY <1>8 DEF lineageVars, Planned, Whole
  <1> QED
    BY <1>1, <1>2, <1>4, <1>5, <1>6, <1>7, <1>8 DEF LineageNext

\* No evidence is lost by a lineage migration (lineage_migration.py): where an
\* output is published and the source was replaced at most once meanwhile, every
\* row of the source is in it under its image, with its parent, ends and subject.
THEOREM NothingLostHolds == LineageSpec => []NothingLost
  <1>1. LineageInv => NothingLost
    <2> SUFFICES ASSUME LineageInv, "output" \in shelf.files, graphSwaps < 2
                 PROVE  \A r \in line.hash : \E x \in shelf.output : KeptAs(r, x, line.map)
      BY DEF NothingLost, KeptAs
    <2>1. /\ Planned /\ Whole /\ shelf.output = line.copy
          /\ line.hash \in Graphs /\ manifest \in Manifests
      BY DEF LineageInv, LineageTypeOK, Planned
    <2> QED
      BY <2>1, CopyKeepsRows DEF Planned, Whole
  <1> QED
    BY <1>1, InitLineage, LineageInductive, PTL DEF LineageSpec

===============================================================================
