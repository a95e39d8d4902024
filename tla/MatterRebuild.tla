--------------------------- MODULE MatterRebuild ---------------------------
(***************************************************************************)
(* rebuild_projection (review_matter/projection.py): the Matter, its       *)
(* evidence binding and its source dependencies recomputed from the        *)
(* baseline and the journal, while other processes go on appending.        *)
(***************************************************************************)
EXTENDS MatterStore

\* One event of the journal replayed.  "accepted" is FALSE from the first event
\* on whose projection or revision is refused.
\* Mutation: the replay forgets the side effects on the dependency rows.
MutReplayStep(s, entry) ==
  [matter |-> ProjectEvent(s.matter, entry.event),
   evbind |-> BindingAfter(s.evbind, entry.event),
   deps |-> s.deps,
   accepted |-> s.accepted /\ Projectable(s.matter, entry.event)]
ReplayStep(s, entry) ==
  [matter |-> ProjectEvent(s.matter, entry.event),
   evbind |-> BindingAfter(s.evbind, entry.event),
   deps |-> DepsAfter(s.deps, entry.event),
   accepted |-> /\ s.accepted
                /\ Projectable(s.matter, entry.event)
                /\ s.matter.revision + 1 = entry.revision]

\* What replaying the first n events of the journal j on the baseline b gives,
\* for every n.
ReplayedFrom(b, j) ==
  LET state[n \in 0..Len(j)] ==
        IF n = 0
          THEN [matter |-> b, evbind |-> NoBinding,
                deps |-> NoDependencies, accepted |-> b # NoMatter]
          ELSE ReplayStep(state[n - 1], j[n])
  IN state

Replayed == ReplayedFrom(baseline, journal)

Replay == Replayed[Len(journal)]

\* rebuild_projection, in one transaction: the replay becomes the Matter, its
\* projection, its binding and its rows, or it raises and nothing is written.
Rebuild(c) ==
  /\ Ready(c)
  /\ Replay.accepted
  /\ matter' = Replay.matter
  /\ evbind' = Replay.evbind
  /\ deps' = Replay.deps
  /\ seen' = [seen EXCEPT ![c] = matter']
  /\ UNCHANGED <<baseline, journal, evidence, op>>

NextWithRebuild == Next \/ \E c \in Clients : Rebuild(c)

SpecWithRebuild == Init /\ [][NextWithRebuild]_vars

\* The journal is enough to recover the store: whatever the processes did,
\* replaying it is accepted and gives back exactly the document, the binding
\* and the dependency rows that the commits left (the source identities that
\* an invalidation rewrites included), so a rebuild changes nothing.
ReplayReproducesStore ==
  matter.revision > 0 =>
    /\ Replay.accepted
    /\ Replay.matter = matter
    /\ Replay.evbind = evbind
    /\ Replay.deps = deps

\* The inductive invariant behind it: a Matter that does not exist has neither a
\* binding nor rows, as the replay of a new one starts.
UnwrittenIsBare ==
  matter.revision = 0 => evbind = NoBinding /\ deps = NoDependencies

RebuildInv == StoreInv /\ UnwrittenIsBare /\ ReplayReproducesStore
=============================================================================
