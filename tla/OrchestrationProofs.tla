--------------------------- MODULE OrchestrationProofs ---------------------------
(***************************************************************************)
(* Theorems about a review run under the workflow package: the lanes are   *)
(* passed before the engines and the stages form one chain, and a damaged  *)
(* run stays refused, for any number of processes, requests and faults.    *)
(***************************************************************************)
EXTENDS Orchestration, SequenceTheorems, TLAPS

(***************************************************************************)
(* What the files, the journal and the lists of remaining steps say of     *)
(* each other in every reachable state.                                    *)
(***************************************************************************)

\* How far a run has come; the lanes before its drawing may be passed again.
Rank(s) ==
  CASE s = "RECEIVED" -> 0
    [] s \in {"CLASSIFYING_INPUTS", "ROLE_CONFIRMATION_REQUIRED",
              "PENDING_REFERENCE_INGESTION"} -> 1
    [] s = "PENDING_DRAWING_INGESTION" -> 2
    [] s = "INPUT_CONFIRMATION_REQUIRED" -> 3
    [] s = "READY_TO_EVALUATE" -> 4
    [] s = "RETRIEVING_EVIDENCE" -> 5
    [] s = "RUNNING_MATH" -> 6
    [] s = "RUNNING_RULES" -> 7
    [] s = "WAITING_TRACK_A" -> 8
    [] s = "WAITING_TRACK_B" -> 9
    [] s = "FINALIZING" -> 10
    [] OTHER -> 11

\* The states a call reaches only once the run is ready to be evaluated.
LateStates ==
  {"RETRIEVING_EVIDENCE", "RUNNING_MATH", "RUNNING_RULES", "WAITING_TRACK_A",
   "WAITING_TRACK_B", "FINALIZING", "BLOCKED", "READY_FOR_REVIEW"}

Reached(r) == \E m \in DOMAIN events : Rank(events[m].next) >= r
Paused == \E m \in DOMAIN events : events[m].next = "INPUT_CONFIRMATION_REQUIRED"

Outside == {"evidence.sqlite", "confirmed-inputs"}
Real(c) == c \notin {NoFile, Torn}
RolesKnown == LoadsRequest /\ ~RequiresRoleConfirmation(Frozen)

\* A receipt for the frozen request, of a database of its references.
GoodReceipt(c) ==
  /\ LoadsRequest /\ Real(c)
  /\ c.request = Frozen
  /\ \/ c.db = Doc("db", {Frozen.hash[i] : i \in References(Frozen)})
     \/ c.db = ForeignDb /\ swaps > 0
CarriesReceipt(payload) ==
  References(Frozen) # {} =>
    payload = file["reference-ingestion"] /\ GoodReceipt(payload)

\* By the time step k of the list is reached, file n holds c: it does already, or
\* an earlier step of the list puts it there.
Settles(list, k, n, c) ==
  /\ Real(c)
  /\ \/ file[n] = c
     \/ \E j \in 1 .. (k - 1) : /\ list[j].do \in {"write", "fill"}
                                /\ list[j].name = n /\ list[j].content = c

\* A step that writes a file.
WriteFits(list, k) ==
  LET w == list[k] IN
  /\ w = [do |-> w.do, name |-> w.name, content |-> w.content, style |-> w.style]
  /\ w.name \in FileNames \ Outside
  /\ Real(w.content)
  /\ w.name \in {"request", "request.sha256", "reference-ingestion",
                 "reference-ingestion.sha256"} => w.style = "identical"
  /\ w.name = "final-review-packet" => w.style = "once"
  /\ w.name = "reference-ingestion" => GoodReceipt(w.content)
  /\ w.name = "drawing-confirmation" =>
        /\ k + 1 \in DOMAIN list
        /\ list[k + 1].do = "append"
        /\ list[k + 1].next = "INPUT_CONFIRMATION_REQUIRED"

\* A step that brings the run to its next state: what it appends is right when it
\* is reached.
StateFits(list, k) ==
  LET w == list[k] IN
  /\ w.next # "FAILED"
  /\ w.next \in LateStates => Reached(4)
  /\ w.do = "append" =>
        w.rule = IF w.next \in LateStates THEN "skip"
                 ELSE IF w.next = "INPUT_CONFIRMATION_REQUIRED" THEN "plan" ELSE "always"
  /\ w.next = "RECEIVED" => LoadsRequest /\ w.payload = file["request"]
  /\ w.next \in {"PENDING_REFERENCE_INGESTION", "PENDING_DRAWING_INGESTION",
                 "READY_TO_EVALUATE"} => RolesKnown
  /\ w.next = "PENDING_DRAWING_INGESTION" => Drawings(Frozen) # {} /\ CarriesReceipt(w.payload)
  /\ w.next = "INPUT_CONFIRMATION_REQUIRED" =>
        /\ Settles(list, k, "drawing-confirmation", w.payload)
        /\ w.do = "event" => w.previous = "PENDING_DRAWING_INGESTION"
  /\ w.next = "READY_TO_EVALUATE" =>
        \/ Drawings(Frozen) = {} /\ CarriesReceipt(w.payload)
        \/ Paused /\ (ValidInputs(w.payload, Frozen) \/ swaps > 0)
  /\ \A i \in 1..3 : w.next = Stages[i] =>
        /\ LoadsRequest
        /\ Settles(list, k, Stages[i], w.payload)
        /\ IF i = 1 THEN w.payload.input = file["request"]
           ELSE Settles(list, k, Stages[i - 1], w.payload.input)

StepFits(list, k) ==
  LET w == list[k] IN
  /\ w.do \in {"write", "fill", "append", "event", "prepare", "import", "result",
               "rehash", "confirmed"}
  /\ w.do \in {"fill", "event", "import", "result", "rehash", "confirmed"} => k = 1
  /\ w.do \in {"write", "fill"} => WriteFits(list, k)
  /\ w.do \in {"append", "event"} => StateFits(list, k)
  /\ w.do = "import" => LoadsRequest /\ events # <<>>
  /\ w.do = "result" =>
        /\ LoadsRequest
        /\ \/ file["evidence.sqlite"] = Doc("db", w.hashes)
           \/ file["evidence.sqlite"] = ForeignDb /\ swaps > 0
  /\ w.do = "rehash" => GoodReceipt(w.receipt)
  /\ w.do = "confirmed" => /\ Paused
                           /\ ValidInputs(file["confirmed-inputs"], Frozen) \/ swaps > 0

IsList(s) == s \in Seq({s[k] : k \in DOMAIN s})
ListFits(list) == IsList(list) /\ \A k \in DOMAIN list : StepFits(list, k)

\* The event at n.
EventFits(n) ==
  LET e == events[n] IN
  /\ e.next \in WorkflowStates
  /\ e.next = "PENDING_REFERENCE_INGESTION" => RolesKnown
  /\ e.next \in {"PENDING_DRAWING_INGESTION", "INPUT_CONFIRMATION_REQUIRED",
                 "READY_TO_EVALUATE"} =>
        RolesKnown /\ (References(Frozen) # {} => PassedReferences(n))
  /\ e.next = "PENDING_DRAWING_INGESTION" => Drawings(Frozen) # {}
  /\ e.next = "INPUT_CONFIRMATION_REQUIRED" =>
        Real(e.payload) /\ e.payload = file["drawing-confirmation"]
  /\ e.next = "READY_TO_EVALUATE" /\ Drawings(Frozen) # {} => PassedDrawing(n)
  /\ \A i \in 1..3 : e.next = Stages[i] =>
        /\ Real(e.payload) /\ e.payload = file[Stages[i]]
        /\ Real(e.payload.input)
        /\ e.payload.input = IF i = 1 THEN file["request"] ELSE file[Stages[i - 1]]

JournalFits ==
  /\ IsList(events)
  /\ events # <<>> => LoadsRequest /\ events[1].payload = file["request"]
  /\ \A n \in DOMAIN events : EventFits(n)
  /\ \A m, n \in DOMAIN events : m < n =>
        /\ Rank(events[m].next) <= Rank(events[n].next)
        /\ Rank(events[m].next) >= 2 => Rank(events[m].next) < Rank(events[n].next)

\* A file that is being filled is filled by one process.
Filling(o) == ~Idle(o) /\ op[o].todo[1].do = "fill"
FillsAlone ==
  /\ \A o \in Operators : Filling(o) => file[op[o].todo[1].name] = Torn
  /\ \A o, p \in Operators :
       Filling(o) /\ Filling(p) /\ op[o].todo[1].name = op[p].todo[1].name => o = p

FilesFit ==
  /\ file = [n \in FileNames |-> file[n]]
  /\ \A n \in Outside : file[n] # Torn
  /\ file["evidence.sqlite"] # NoFile => LoadsRequest /\ events # <<>>
  /\ Real(file["reference-ingestion"]) => GoodReceipt(file["reference-ingestion"])
  /\ faults \in Nat /\ swaps \in Nat

CallsFit ==
  /\ op = [o \in Operators |-> op[o]]
  /\ \A o \in Operators : /\ op[o] = [at |-> op[o].at, todo |-> op[o].todo]
                          /\ ListFits(op[o].todo)

RunInv == FilesFit /\ JournalFits /\ FillsAlone /\ CallsFit

----------------------------------------------------------------------------
(* Lists.                                                                  *)

LEMMA ListOf == \A S : \A s \in Seq(S) : IsList(s)
  <1> SUFFICES ASSUME NEW S, NEW s \in Seq(S) PROVE IsList(s)
    OBVIOUS
  <1>1. Len(s) \in Nat /\ DOMAIN s = 1 .. Len(s) /\ s \in [1 .. Len(s) -> S]
    OBVIOUS
  <1>2. s \in [1 .. Len(s) -> {s[k] : k \in DOMAIN s}]
    BY <1>1
  <1>3. s \in Seq({s[k] : k \in DOMAIN s})
    BY <1>1, <1>2, SeqDef
  <1> QED
    BY <1>3 DEF IsList

LEMMA ListFacts ==
    ASSUME NEW s, IsList(s)
    PROVE  /\ Len(s) \in Nat /\ DOMAIN s = 1 .. Len(s)
           /\ s = <<>> <=> Len(s) = 0
           /\ s # <<>> => 1 \in DOMAIN s /\ Head(s) = s[1]
  <1>1. PICK S : s \in Seq(S)
    BY DEF IsList
  <1> QED
    BY <1>1

LEMMA ListTail ==
    ASSUME NEW s, IsList(s), s # <<>>
    PROVE  /\ IsList(Tail(s)) /\ Len(Tail(s)) = Len(s) - 1
           /\ \A k \in DOMAIN Tail(s) : k + 1 \in DOMAIN s /\ k # 0 /\ Tail(s)[k] = s[k + 1]
           /\ \A k \in DOMAIN s : k # 1 => k - 1 \in DOMAIN Tail(s)
  <1>1. PICK S : s \in Seq(S)
    BY DEF IsList
  <1>2. Tail(s) \in Seq(S) /\ Len(Tail(s)) = Len(s) - 1 /\ Len(s) \in Nat
        /\ \A k \in 1 .. Len(Tail(s)) : Tail(s)[k] = s[k + 1]
    BY <1>1
  <1>3. IsList(Tail(s))
    BY <1>2, ListOf
  <1>4. DOMAIN Tail(s) = 1 .. Len(Tail(s)) /\ DOMAIN s = 1 .. Len(s)
    BY <1>1, <1>2
  <1> QED
    BY <1>2, <1>3, <1>4

LEMMA ListPush ==
    ASSUME NEW s, IsList(s), NEW w
    PROVE  /\ IsList(<<w>> \o s) /\ Len(<<w>> \o s) = Len(s) + 1 /\ <<w>> \o s # <<>>
           /\ (<<w>> \o s)[1] = w
           /\ \A k \in DOMAIN (<<w>> \o s) :
                 k # 1 => k - 1 \in DOMAIN s /\ (<<w>> \o s)[k] = s[k - 1]
           /\ \A k \in DOMAIN s : k + 1 \in DOMAIN (<<w>> \o s) /\ (<<w>> \o s)[k + 1] = s[k]
  <1>1. PICK S : s \in Seq(S)
    BY DEF IsList
  <1>2. s \in Seq(S \cup {w}) /\ <<w>> \in Seq(S \cup {w})
    BY <1>1
  <1>3. <<w>> \o s \in Seq(S \cup {w}) /\ Len(<<w>> \o s) = Len(s) + 1 /\ Len(s) \in Nat
    BY <1>2
  <1>4. (<<w>> \o s)[1] = w /\ \A k \in 2 .. Len(s) + 1 : (<<w>> \o s)[k] = s[k - 1]
    BY <1>2, <1>3
  <1>5. IsList(<<w>> \o s)
    BY <1>3, ListOf
  <1>7. DOMAIN s = 1 .. Len(s) /\ DOMAIN (<<w>> \o s) = 1 .. Len(s) + 1
    BY <1>2, <1>3
  <1>6. <<w>> \o s # <<>>
    BY <1>3
  <1> QED
    BY <1>3, <1>4, <1>5, <1>6, <1>7

LEMMA ListAppend ==
    ASSUME NEW s, IsList(s), NEW e
    PROVE  /\ IsList(Append(s, e)) /\ Len(Append(s, e)) = Len(s) + 1
           /\ DOMAIN Append(s, e) = 1 .. Len(s) + 1
           /\ \A k \in DOMAIN s : Append(s, e)[k] = s[k]
           /\ Append(s, e)[Len(s) + 1] = e /\ Append(s, e) # <<>>
  <1>1. PICK S : s \in Seq(S)
    BY DEF IsList
  <1>2. s \in Seq(S \cup {e}) /\ e \in S \cup {e}
    BY <1>1
  <1>3. Append(s, e) \in Seq(S \cup {e}) /\ Len(Append(s, e)) = Len(s) + 1 /\ Len(s) \in Nat
    BY <1>2
  <1>4. \A k \in 1 .. Len(s) : Append(s, e)[k] = s[k]
    BY <1>2
  <1>5. Append(s, e)[Len(s) + 1] = e
    BY <1>2
  <1>6. IsList(Append(s, e))
    BY <1>3, ListOf
  <1>7. DOMAIN s = 1 .. Len(s) /\ DOMAIN Append(s, e) = 1 .. Len(s) + 1
    BY <1>2, <1>3
  <1> QED
    BY <1>3, <1>4, <1>5, <1>6, <1>7

----------------------------------------------------------------------------
(* What every step keeps.                                                  *)

\* A complete file of the run stays what it is; the database and the confirmed
\* inputs are replaced from outside only; the journal grows.
Keeps ==
  /\ file' = [n \in FileNames |-> file'[n]]
  /\ \A n \in FileNames \ Outside : Real(file[n]) => file'[n] = file[n]
  /\ file["evidence.sqlite"] # NoFile =>
        file'["evidence.sqlite"] = file["evidence.sqlite"]
        \/ (file'["evidence.sqlite"] = ForeignDb /\ swaps' > 0)
  /\ file["confirmed-inputs"] # NoFile =>
        file'["confirmed-inputs"] = file["confirmed-inputs"] \/ swaps' > 0
  /\ swaps > 0 => swaps' > 0
  /\ IsList(events')
  /\ \A n \in DOMAIN events : n \in DOMAIN events' /\ events'[n] = events[n]

LEMMA DocReal ==
    \A kind \in {"db", "sha", "request", "plan", "action", "validation", "track-b", "packet"} :
        \A of : Real(Doc(kind, of))
  <1> SUFFICES ASSUME NEW kind \in {"db", "sha", "request", "plan", "action", "validation",
                                    "track-b", "packet"}, NEW of
               PROVE  Real(Doc(kind, of))
    OBVIOUS
  <1>1. Doc(kind, of).kind = kind /\ NoFile.kind = "none" /\ Torn.kind = "torn"
    BY DEF Doc, NoFile, Torn
  <1> QED
    BY <1>1 DEF Real

LEMMA InsideNames ==
    /\ {"request", "request.sha256", "reference-ingestion", "reference-ingestion.sha256",
        "drawing-confirmation", "next-action", "track-a-validation", "next-action-track-b",
        "final-review-packet", "RETRIEVING_EVIDENCE", "RUNNING_MATH", "RUNNING_RULES"}
         = FileNames \ Outside
    /\ Outside \subseteq FileNames
    /\ \A i \in 1..3 : Stages[i] \in FileNames \ Outside
    /\ \A i \in 1..3 : Stages[i] \in {"RETRIEVING_EVIDENCE", "RUNNING_MATH", "RUNNING_RULES"}
  <1>1. {Stages[i] : i \in 1..3} = {"RETRIEVING_EVIDENCE", "RUNNING_MATH", "RUNNING_RULES"}
    BY DEF Stages
  <1> QED
    BY <1>1 DEF FileNames, Outside

LEMMA KeepsRequest ==
    ASSUME Keeps, LoadsRequest
    PROVE  LoadsRequest' /\ file'["request"] = file["request"]
  <1>1. Real(file["request"]) /\ Real(file["request.sha256"])
    BY DocReal DEF LoadsRequest, Real
  <1>2. file'["request"] = file["request"] /\ file'["request.sha256"] = file["request.sha256"]
    BY <1>1, InsideNames DEF Keeps
  <1> QED
    BY <1>2 DEF LoadsRequest

LEMMA KeepsReceipt ==
    ASSUME Keeps, NEW c, GoodReceipt(c)
    PROVE  GoodReceipt(c)'
  <1>1. LoadsRequest' /\ Frozen' = Frozen
    BY KeepsRequest DEF GoodReceipt, Frozen
  <1>2. References(Frozen)' = References(Frozen)
    BY <1>1 DEF References
  <1> QED
    BY <1>1, <1>2 DEF GoodReceipt, Keeps, Real

LEMMA KeepsSettled ==
    ASSUME Keeps, NEW list, NEW k, NEW n \in FileNames \ Outside, NEW c, Settles(list, k, n, c)
    PROVE  Settles(list, k, n, c)'
  BY DEF Settles, Keeps, Real

LEMMA KeepsReached ==
    ASSUME Keeps
    PROVE  /\ Paused => Paused'
           /\ \A r : Reached(r) => Reached(r)'
           /\ events # <<>> /\ IsList(events) => events' # <<>>
  <1>1. events # <<>> /\ IsList(events) => events' # <<>>
    BY ListFacts DEF Keeps
  <1> QED
    BY <1>1 DEF Keeps, Paused, Reached

LEMMA KeepsKnown ==
    ASSUME Keeps, LoadsRequest
    PROVE  /\ Frozen' = Frozen
           /\ RolesKnown' = RolesKnown
           /\ References(Frozen)' = References(Frozen)
           /\ Drawings(Frozen)' = Drawings(Frozen)
           /\ \A c : ValidInputs(c, Frozen)' = ValidInputs(c, Frozen)
  <1>1. LoadsRequest' /\ Frozen' = Frozen
    BY KeepsRequest DEF Frozen
  <1> QED
    BY <1>1 DEF RolesKnown, References, Drawings, ValidInputs, RequiresRoleConfirmation

LEMMA KeepsCarries ==
    ASSUME Keeps, LoadsRequest, NEW c, CarriesReceipt(c)
    PROVE  CarriesReceipt(c)'
  <1>1. References(Frozen)' = References(Frozen)
    BY KeepsKnown
  <1>2. ASSUME References(Frozen) # {}
        PROVE  c = file'["reference-ingestion"] /\ GoodReceipt(c)'
    <2>1. c = file["reference-ingestion"] /\ GoodReceipt(c)
      BY <1>2 DEF CarriesReceipt
    <2>2. file'["reference-ingestion"] = file["reference-ingestion"]
      BY <2>1, InsideNames DEF Keeps, GoodReceipt
    <2> QED
      BY <2>1, <2>2, KeepsReceipt
  <1> QED
    BY <1>1, <1>2 DEF CarriesReceipt

LEMMA KeepsStateStep ==
    ASSUME Keeps, NEW list, NEW k, StateFits(list, k), RunInv
    PROVE  StateFits(list, k)'
  <1> DEFINE w == list[k]
  <1>1. w.next = "RECEIVED" => LoadsRequest' /\ w.payload = file'["request"]
    BY KeepsRequest DEF StateFits
  <1>2. w.next \in LateStates => Reached(4)'
    BY KeepsReached DEF StateFits
  <1>3. w.next \in {"PENDING_REFERENCE_INGESTION", "PENDING_DRAWING_INGESTION",
                 "READY_TO_EVALUATE"} => RolesKnown' /\ RolesKnown /\ LoadsRequest
    BY KeepsKnown DEF StateFits, RolesKnown
  <1>4. w.next = "PENDING_DRAWING_INGESTION" => Drawings(Frozen)' # {} /\ CarriesReceipt(w.payload)'
    BY <1>3, KeepsKnown, KeepsCarries DEF StateFits
  <1>5. w.next = "INPUT_CONFIRMATION_REQUIRED" =>
           Settles(list, k, "drawing-confirmation", w.payload)'
    BY KeepsSettled, InsideNames DEF StateFits
  <1>6. w.next = "READY_TO_EVALUATE" =>
           \/ Drawings(Frozen)' = {} /\ CarriesReceipt(w.payload)'
           \/ Paused' /\ (ValidInputs(w.payload, Frozen)' \/ swaps' > 0)
    <2>1. SUFFICES ASSUME w.next = "READY_TO_EVALUATE"
                   PROVE  \/ Drawings(Frozen)' = {} /\ CarriesReceipt(w.payload)'
                          \/ Paused' /\ (ValidInputs(w.payload, Frozen)' \/ swaps' > 0)
      OBVIOUS
    <2>2. CASE Drawings(Frozen) = {} /\ CarriesReceipt(w.payload)
      BY <1>3, <2>1, <2>2, KeepsKnown, KeepsCarries
    <2>3. CASE Paused /\ (ValidInputs(w.payload, Frozen) \/ swaps > 0)
      BY <1>3, <2>1, <2>3, KeepsKnown, KeepsReached DEF Keeps
    <2> QED
      BY <2>1, <2>2, <2>3 DEF StateFits
  <1>7. ASSUME NEW i \in 1..3, w.next = Stages[i]
        PROVE  /\ LoadsRequest'
               /\ Settles(list, k, Stages[i], w.payload)'
               /\ IF i = 1 THEN w.payload.input = file'["request"]
                  ELSE Settles(list, k, Stages[i - 1], w.payload.input)'
    <2>1. /\ LoadsRequest
          /\ Settles(list, k, Stages[i], w.payload)
          /\ IF i = 1 THEN w.payload.input = file["request"]
             ELSE Settles(list, k, Stages[i - 1], w.payload.input)
      BY <1>7 DEF StateFits
    <2>2. LoadsRequest' /\ file'["request"] = file["request"]
      BY <2>1, KeepsRequest
    <2>3. Settles(list, k, Stages[i], w.payload)'
      BY <2>1, KeepsSettled, InsideNames
    <2>4. i # 1 => Settles(list, k, Stages[i - 1], w.payload.input)'
      <3>1. i # 1 => i - 1 \in 1..3
        OBVIOUS
      <3> QED
        BY <2>1, <3>1, KeepsSettled, InsideNames
    <2> QED
      BY <2>1, <2>2, <2>3, <2>4
  <1>8. /\ w.next # "FAILED"
        /\ w.do = "append" =>
              w.rule = IF w.next \in LateStates THEN "skip"
                       ELSE IF w.next = "INPUT_CONFIRMATION_REQUIRED" THEN "plan" ELSE "always"
        /\ w.next = "INPUT_CONFIRMATION_REQUIRED" =>
              (w.do = "event" => w.previous = "PENDING_DRAWING_INGESTION")
    BY DEF StateFits
  <1> QED
    BY <1>1, <1>2, <1>3, <1>4, <1>5, <1>6, <1>7, <1>8 DEF StateFits

LEMMA KeepsStep ==
    ASSUME Keeps, RunInv, NEW list, NEW k, StepFits(list, k)
    PROVE  StepFits(list, k)'
  <1> DEFINE w == list[k]
  <1>1. w.do \in {"write", "fill"} => WriteFits(list, k)'
    BY KeepsReceipt DEF StepFits, WriteFits, Real
  <1>2. w.do \in {"append", "event"} => StateFits(list, k)'
    BY KeepsStateStep DEF StepFits
  <1>3. w.do = "import" => LoadsRequest' /\ events' # <<>>
    BY KeepsRequest, KeepsReached DEF StepFits, RunInv, JournalFits
  <1>4. w.do = "result" =>
          /\ LoadsRequest'
          /\ \/ file'["evidence.sqlite"] = Doc("db", w.hashes)
             \/ file'["evidence.sqlite"] = ForeignDb /\ swaps' > 0
    <2>1. \A of : Doc("db", of) # NoFile
      BY DocReal DEF Real
    <2> QED
      BY <2>1, KeepsRequest DEF StepFits, Keeps, ForeignDb
  <1>5. w.do = "rehash" => GoodReceipt(w.receipt)'
    BY KeepsReceipt DEF StepFits
  <1>6. w.do = "confirmed" =>
           Paused' /\ (ValidInputs(file["confirmed-inputs"], Frozen)' \/ swaps' > 0)
    <2>1. SUFFICES ASSUME w.do = "confirmed"
                   PROVE  Paused' /\ (ValidInputs(file["confirmed-inputs"], Frozen)' \/ swaps' > 0)
      OBVIOUS
    <2>2. Paused /\ (ValidInputs(file["confirmed-inputs"], Frozen) \/ swaps > 0)
      BY <2>1 DEF StepFits
    <2>3. LoadsRequest
      BY <2>2 DEF Paused, RunInv, JournalFits, EventFits, RolesKnown
    <2>4. CASE swaps > 0
      BY <2>2, <2>4, KeepsReached DEF Keeps
    <2>5. CASE ValidInputs(file["confirmed-inputs"], Frozen)
      <3>1. file["confirmed-inputs"] # NoFile
        BY <2>5 DEF ValidInputs
      <3>2. Frozen' = Frozen
        BY <2>3, KeepsKnown
      <3>3. file'["confirmed-inputs"] = file["confirmed-inputs"] \/ swaps' > 0
        BY <3>1 DEF Keeps
      <3> QED
        BY <2>2, <2>5, <3>2, <3>3, KeepsReached DEF ValidInputs
    <2> QED
      BY <2>2, <2>4, <2>5
  <1> QED
    BY <1>1, <1>2, <1>3, <1>4, <1>5, <1>6 DEF StepFits

LEMMA KeepsList ==
    ASSUME Keeps, RunInv, NEW list, ListFits(list)
    PROVE  ListFits(list)'
  BY KeepsStep DEF ListFits

LEMMA KeepsEvent ==
    ASSUME Keeps, RunInv, NEW n \in DOMAIN events
    PROVE  EventFits(n)'
  <1> DEFINE e == events[n]
  <1>1. EventFits(n) /\ events'[n] = e /\ n \in 1 .. Len(events)
    BY ListFacts DEF RunInv, JournalFits, Keeps
  <1>2. \A m \in 1 .. n : m \in DOMAIN events /\ m \in DOMAIN events' /\ events'[m] = events[m]
                          /\ EventFits(m)
    BY <1>1, ListFacts DEF RunInv, JournalFits, Keeps
  <1>3. e.next \in WorkflowStates
    BY <1>1 DEF EventFits
  <1>4. RolesKnown => RolesKnown' /\ LoadsRequest
    BY KeepsKnown DEF RolesKnown
  <1>5. ASSUME LoadsRequest, References(Frozen) # {} => PassedReferences(n)
        PROVE  References(Frozen)' # {} => PassedReferences(n)'
    <2>1. Frozen' = Frozen /\ References(Frozen)' = References(Frozen)
      BY <1>5, KeepsKnown
    <2>2. ASSUME PassedReferences(n) PROVE PassedReferences(n)'
      <3>1. file'["reference-ingestion"] = file["reference-ingestion"]
        BY <2>2, InsideNames DEF Keeps, PassedReferences, Real
      <3> QED
        BY <1>2, <2>1, <2>2, <3>1 DEF PassedReferences, Keeps
    <2> QED
      BY <1>5, <2>1, <2>2
  <1>6. e.next = "PENDING_DRAWING_INGESTION" => Drawings(Frozen)' # {}
    BY <1>1, <1>4, KeepsKnown DEF EventFits
  <1>7. e.next = "INPUT_CONFIRMATION_REQUIRED" =>
           Real(e.payload) /\ e.payload = file'["drawing-confirmation"]
    BY <1>1, InsideNames DEF EventFits, Keeps
  <1>8. ASSUME e.next = "READY_TO_EVALUATE", Drawings(Frozen)' # {}
        PROVE  PassedDrawing(n)'
    <2>1. LoadsRequest
      BY <1>1, <1>8 DEF EventFits, RolesKnown
    <2>2. PassedDrawing(n)
      BY <1>1, <1>8, <2>1, KeepsKnown DEF EventFits
    <2>3. PICK m \in 1 .. n : /\ events[m].next = "INPUT_CONFIRMATION_REQUIRED"
                              /\ events[m].payload = file["drawing-confirmation"]
      BY <2>2 DEF PassedDrawing
    <2>4. Real(events[m].payload)
      BY <1>2, <2>3 DEF EventFits
    <2>5. file'["drawing-confirmation"] = file["drawing-confirmation"]
      BY <2>3, <2>4, InsideNames DEF Keeps
    <2>6. ValidInputs(events[n].payload, Frozen) => ValidInputs(events[n].payload, Frozen)'
      BY <1>1, <2>1, KeepsKnown DEF ValidInputs
    <2>7. ValidInputs(events[n].payload, Frozen)' \/ swaps' > 0
      BY <2>2, <2>6 DEF PassedDrawing, Keeps
    <2> QED
      BY <1>2, <2>3, <2>5, <2>7 DEF PassedDrawing
  <1>9. ASSUME NEW i \in 1..3, e.next = Stages[i]
        PROVE  /\ Real(e.payload) /\ e.payload = file'[Stages[i]]
               /\ Real(e.payload.input)
               /\ e.payload.input = IF i = 1 THEN file'["request"] ELSE file'[Stages[i - 1]]
    <2>1. /\ Real(e.payload) /\ e.payload = file[Stages[i]]
          /\ Real(e.payload.input)
          /\ e.payload.input = IF i = 1 THEN file["request"] ELSE file[Stages[i - 1]]
      BY <1>1, <1>9 DEF EventFits
    <2>2. file'[Stages[i]] = file[Stages[i]]
      BY <2>1, InsideNames DEF Keeps
    <2>3. i = 1 => file'["request"] = file["request"]
      BY <2>1, InsideNames DEF Keeps
    <2>4. i # 1 => file'[Stages[i - 1]] = file[Stages[i - 1]]
      <3>1. i # 1 => i - 1 \in 1..3
        OBVIOUS
      <3> QED
        BY <2>1, <3>1, InsideNames DEF Keeps
    <2> QED
      BY <2>1, <2>2, <2>3, <2>4
  <1>10. e.next = "PENDING_REFERENCE_INGESTION" => RolesKnown'
    BY <1>1, <1>4 DEF EventFits
  <1>11. e.next \in {"PENDING_DRAWING_INGESTION", "INPUT_CONFIRMATION_REQUIRED",
                     "READY_TO_EVALUATE"} =>
            RolesKnown' /\ (References(Frozen)' # {} => PassedReferences(n)')
    BY <1>1, <1>4, <1>5 DEF EventFits
  <1> QED
    BY <1>1, <1>3, <1>6, <1>7, <1>8, <1>9, <1>10, <1>11 DEF EventFits

\* The rest of a list, once its first step is done.
LEMMA RestSettles ==
    ASSUME NEW list, IsList(list), list # <<>>,
           list[1].do \in {"write", "fill"} => file'[list[1].name] = list[1].content,
           NEW k \in DOMAIN Tail(list), NEW n, NEW c, Settles(list, k + 1, n, c)'
    PROVE  Settles(Tail(list), k, n, c)'
  <1>1. CASE file'[n] = c
    BY <1>1 DEF Settles
  <1>2. ASSUME NEW j \in 1 .. k, list[j].do \in {"write", "fill"}, list[j].name = n,
               list[j].content = c
        PROVE  Settles(Tail(list), k, n, c)'
    <2>1. CASE j = 1
      BY <1>2, <2>1 DEF Settles
    <2>2. CASE j # 1
      <3>1. k \in 1 .. Len(Tail(list)) /\ Len(Tail(list)) \in Nat
        BY ListTail, ListFacts
      <3>2. j - 1 \in 1 .. (k - 1) /\ j - 1 \in DOMAIN Tail(list)
        BY <2>2, <3>1, ListTail, ListFacts
      <3>3. Tail(list)[j - 1] = list[j]
        BY <3>2, ListTail
      <3> QED
        BY <1>2, <3>2, <3>3 DEF Settles
    <2> QED
      BY <2>1, <2>2
  <1>3. k \in Nat
    BY ListTail, ListFacts
  <1>4. (k + 1) - 1 = k
    BY <1>3
  <1> QED
    BY <1>1, <1>2, <1>4 DEF Settles

LEMMA RestFits ==
    ASSUME NEW list, ListFits(list)', list # <<>>,
           list[1].do \in {"write", "fill"} => file'[list[1].name] = list[1].content
    PROVE  /\ ListFits(Tail(list))'
           /\ Tail(list) # <<>> =>
                 Tail(list)[1].do \notin {"fill", "event", "import", "result", "rehash", "confirmed"}
  <1>1. IsList(list) /\ IsList(Tail(list))
    BY ListTail DEF ListFits
  <1>2. ASSUME NEW k \in DOMAIN Tail(list)
        PROVE  /\ StepFits(Tail(list), k)'
               /\ Tail(list)[k].do \notin {"fill", "event", "import", "result", "rehash", "confirmed"}
    <2> DEFINE w == list[k + 1]
    <2>1. StepFits(list, k + 1)' /\ Tail(list)[k] = w /\ k \in Nat \ {0}
      BY <1>1, ListTail, ListFacts DEF ListFits
    <2>2. w.do \notin {"fill", "event", "import", "result", "rehash", "confirmed"}
          /\ w.do \in {"write", "append", "prepare"}
      BY <2>1 DEF StepFits
    <2>3. w.do = "write" => WriteFits(Tail(list), k)'
      <3>1. SUFFICES ASSUME w.do = "write" PROVE WriteFits(Tail(list), k)'
        OBVIOUS
      <3>2. WriteFits(list, k + 1)'
        BY <2>1, <3>1 DEF StepFits
      <3>3. (k + 1) + 1 \in DOMAIN list =>
               k + 1 \in DOMAIN Tail(list) /\ Tail(list)[k + 1] = list[(k + 1) + 1]
        <4>1. SUFFICES ASSUME (k + 1) + 1 \in DOMAIN list
                       PROVE  k + 1 \in DOMAIN Tail(list) /\ Tail(list)[k + 1] = list[(k + 1) + 1]
          OBVIOUS
        <4>2. (k + 1) + 1 # 1 /\ ((k + 1) + 1) - 1 = k + 1
          BY <2>1
        <4>3. k + 1 \in DOMAIN Tail(list)
          BY <1>1, <4>1, <4>2, ListTail
        <4> QED
          BY <1>1, <4>3, ListTail
      <3> QED
        BY <2>1, <3>2, <3>3 DEF WriteFits
    <2>4. w.do = "append" => StateFits(Tail(list), k)'
      <3>1. SUFFICES ASSUME w.do = "append" PROVE StateFits(Tail(list), k)'
        OBVIOUS
      <3>2. StateFits(list, k + 1)'
        BY <2>1, <3>1 DEF StepFits
      <3>3. \A n, c : Settles(list, k + 1, n, c)' => Settles(Tail(list), k, n, c)'
        BY <1>1, RestSettles
      <3> HIDE DEF w
      <3> QED
        BY <2>1, <3>2, <3>3 DEF StateFits, w
    <2> QED
      BY <2>1, <2>2, <2>3, <2>4 DEF StepFits
  <1>3. Tail(list) # <<>> => 1 \in DOMAIN Tail(list)
    BY <1>1, ListFacts
  <1> QED
    BY <1>1, <1>2, <1>3 DEF ListFits

\* Another first step in place of the first, that writes the same.
LEMMA FirstFits ==
    ASSUME NEW list, ListFits(list)', list # <<>>, NEW w,
           list[1].do \in {"write", "fill"} =>
               /\ w.do \in {"write", "fill"}
               /\ w.name = list[1].name /\ w.content = list[1].content,
           NEW new, new = <<w>> \o Tail(list), StepFits(new, 1)'
    PROVE  ListFits(new)'
  <1>1. IsList(list) /\ IsList(Tail(list)) /\ IsList(new)
    BY ListTail, ListPush DEF ListFits
  <1>2. ASSUME NEW k \in DOMAIN list, k # 1
        PROVE  k \in DOMAIN new /\ new[k] = list[k] /\ k \in Nat
    <2>1. k - 1 \in DOMAIN Tail(list) /\ k \in Nat
      BY <1>1, <1>2, ListTail, ListFacts
    <2>2. (k - 1) + 1 = k
      BY <2>1
    <2>3. Tail(list)[k - 1] = list[k]
      BY <1>1, <2>1, <2>2, ListTail
    <2>4. (k - 1) + 1 \in DOMAIN new /\ new[(k - 1) + 1] = Tail(list)[k - 1]
      BY <1>1, <2>1, ListPush
    <2> QED
      BY <2>1, <2>2, <2>3, <2>4
  <1>3. new[1] = w /\ \A k \in DOMAIN new : k # 1 => k \in DOMAIN list
    <2>1. \A k \in DOMAIN new : k # 1 => k - 1 \in DOMAIN Tail(list) /\ k \in Nat
      BY <1>1, ListPush, ListFacts
    <2>2. \A k \in DOMAIN Tail(list) : k + 1 \in DOMAIN list
      BY <1>1, ListTail
    <2>3. \A k \in DOMAIN new : k # 1 => (k - 1) + 1 \in DOMAIN list /\ (k - 1) + 1 = k
      BY <2>1, <2>2
    <2>4. new[1] = w
      BY <1>1, ListPush
    <2> QED
      BY <2>3, <2>4
  <1>4. ASSUME NEW k \in DOMAIN list, k # 1, NEW n, NEW c, Settles(list, k, n, c)'
        PROVE  Settles(new, k, n, c)'
    <2>1. \A j \in 1 .. (k - 1) : j \in DOMAIN list
      BY <1>1, ListFacts
    <2> QED
      BY <1>2, <1>3, <1>4, <2>1 DEF Settles
  <1>5. ASSUME NEW k \in DOMAIN new, k # 1 PROVE StepFits(new, k)'
    <2>1. k \in DOMAIN list /\ StepFits(list, k)' /\ new[k] = list[k] /\ k \in Nat
      BY <1>2, <1>3, <1>5 DEF ListFits
    <2>2. k + 1 \in DOMAIN list => k + 1 \in DOMAIN new /\ new[k + 1] = list[k + 1]
      <3>1. k # 0
        BY <1>1, <2>1, ListFacts
      <3> QED
        BY <1>2, <2>1, <3>1
    <2>3. WriteFits(list, k)' => WriteFits(new, k)'
      BY <2>1, <2>2 DEF WriteFits
    <2>4. \A n, c : Settles(list, k, n, c)' => Settles(new, k, n, c)'
      BY <1>4, <1>5, <2>1
    <2>5. StateFits(list, k)' => StateFits(new, k)'
      BY <2>1, <2>4 DEF StateFits
    <2> QED
      BY <2>1, <2>3, <2>5 DEF StepFits
  <1> QED
    BY <1>1, <1>5 DEF ListFits

----------------------------------------------------------------------------
(* What a step of one process leaves of the others.                        *)

Moves(o, list) == \E t : op' = [op EXCEPT ![o] = [at |-> t, todo |-> list]]

LEMMA TodoMoves ==
    ASSUME CallsFit, NEW o \in Operators, NEW list, Todo(o, list)
    PROVE  Moves(o, list)
  <1>1. op[o] = [at |-> op[o].at, todo |-> op[o].todo]
    BY DEF CallsFit
  <1>2. op' = [op EXCEPT ![o] = [op[o] EXCEPT !.todo = list]]
    BY DEF Todo
  <1>3. \A a, b : [[at |-> a, todo |-> b] EXCEPT !.todo = list] = [at |-> a, todo |-> list]
    OBVIOUS
  <1>4. [op[o] EXCEPT !.todo = list] = [at |-> op[o].at, todo |-> list]
    BY <1>1, <1>3
  <1> QED
    BY <1>2, <1>4 DEF Moves

LEMMA MovesOp ==
    ASSUME CallsFit, NEW o \in Operators, NEW list, Moves(o, list)
    PROVE  /\ op'[o].todo = list
           /\ \A p \in Operators : p # o => op'[p] = op[p]
           /\ op' = [p \in Operators |-> op'[p]]
           /\ op'[o] = [at |-> op'[o].at, todo |-> op'[o].todo]
  <1>1. PICK t : op' = [op EXCEPT ![o] = [at |-> t, todo |-> list]]
    BY DEF Moves
  <1>2. /\ op'[o] = [at |-> t, todo |-> list]
        /\ \A p \in Operators : p # o => op'[p] = op[p]
        /\ op' = [p \in Operators |-> op'[p]]
    BY <1>1 DEF CallsFit
  <1> QED
    BY <1>2

LEMMA EmptyFits == ListFits(<<>>) /\ ListFits(<<>>)'
  <1>1. <<>> \in Seq({}) /\ DOMAIN <<>> = {}
    OBVIOUS
  <1>2. IsList(<<>>)
    BY <1>1, ListOf
  <1> QED
    BY <1>1, <1>2 DEF ListFits

LEMMA Assemble ==
    ASSUME RunInv, Keeps, NEW o \in Operators, NEW list, Moves(o, list), ListFits(list)',
           FilesFit', JournalFits', FillsAlone'
    PROVE  RunInv'
  <1>1. /\ op'[o].todo = list
        /\ \A p \in Operators : p # o => op'[p] = op[p]
        /\ op' = [p \in Operators |-> op'[p]]
        /\ op'[o] = [at |-> op'[o].at, todo |-> op'[o].todo]
    BY MovesOp DEF RunInv
  <1>2. ASSUME NEW p \in Operators
        PROVE  op'[p] = [at |-> op'[p].at, todo |-> op'[p].todo] /\ ListFits(op[p].todo)'
    <2>1. CASE p = o
      BY <1>1, <2>1
    <2>2. CASE p # o
      <3>1. PICK other : other = op[p].todo
        OBVIOUS
      <3>2. ListFits(other)
        BY <3>1 DEF RunInv, CallsFit
      <3>3. ListFits(other)'
        BY <3>2, KeepsList
      <3>4. op'[p].todo = other
        BY <1>1, <2>2, <3>1
      <3>5. op'[p] = op[p] /\ op[p] = [at |-> op[p].at, todo |-> op[p].todo]
        BY <1>1, <2>2 DEF RunInv, CallsFit
      <3> QED
        BY <3>3, <3>4, <3>5
    <2> QED
      BY <2>1, <2>2
  <1>3. CallsFit'
    BY <1>1, <1>2 DEF CallsFit
  <1> QED
    BY <1>3 DEF RunInv

\* A process fills a file it has just created, and no other file in the making
\* changes.
LEMMA FillsAfter ==
    ASSUME RunInv, NEW o \in Operators, NEW list, Moves(o, list),
           list # <<>> /\ list[1].do = "fill" =>
               file'[list[1].name] = Torn /\ file[list[1].name] = NoFile,
           \A n \in FileNames : file[n] = Torn /\ file'[n] # Torn =>
               Filling(o) /\ op[o].todo[1].name = n
    PROVE  FillsAlone'
  <1>1. op'[o].todo = list /\ \A p \in Operators : p # o => op'[p] = op[p]
    BY MovesOp DEF RunInv
  <1>2. ASSUME NEW p \in Operators, Filling(p)
        PROVE  op[p].todo[1].name \in FileNames /\ file[op[p].todo[1].name] = Torn
    <2>1. op[p].todo # <<>> /\ op[p].todo[1].do = "fill" /\ ListFits(op[p].todo)
      BY <1>2 DEF Filling, Idle, RunInv, CallsFit
    <2>2. 1 \in DOMAIN op[p].todo
      BY <2>1, ListFacts DEF ListFits
    <2>3. WriteFits(op[p].todo, 1)
      BY <2>1, <2>2 DEF ListFits, StepFits
    <2> QED
      BY <1>2, <2>3 DEF WriteFits, RunInv, FillsAlone
  <1>3. NoFile # Torn
    <2>1. NoFile.kind = "none" /\ Torn.kind = "torn"
      BY DEF NoFile, Torn
    <2> QED
      BY <2>1
  <1>4. ASSUME NEW p \in Operators, Filling(p)', p # o
        PROVE  /\ Filling(p) /\ op'[p].todo[1].name = op[p].todo[1].name
               /\ file'[op[p].todo[1].name] = Torn
    <2>1. Filling(p) /\ op'[p].todo[1].name = op[p].todo[1].name
      BY <1>1, <1>4 DEF Filling, Idle
    <2>2. op[p].todo[1].name \in FileNames /\ file[op[p].todo[1].name] = Torn
      BY <1>2, <2>1
    <2>3. ~(Filling(o) /\ op[o].todo[1].name = op[p].todo[1].name)
      BY <1>4, <2>1 DEF RunInv, FillsAlone
    <2> QED
      BY <2>1, <2>2, <2>3
  <1>5. Filling(o)' => /\ list # <<>> /\ list[1].do = "fill"
                       /\ op'[o].todo[1].name = list[1].name
                       /\ file'[list[1].name] = Torn /\ file[list[1].name] = NoFile
    BY <1>1 DEF Filling, Idle
  <1>6. \A p \in Operators : Filling(p)' => file'[op'[p].todo[1].name] = Torn
    BY <1>4, <1>5
  <1>7. ASSUME NEW p \in Operators, NEW q \in Operators, Filling(p)', Filling(q)',
               op'[p].todo[1].name = op'[q].todo[1].name, p # q
        PROVE  FALSE
    <2>1. CASE p # o /\ q # o
      <3>1. Filling(p) /\ Filling(q) /\ op[p].todo[1].name = op[q].todo[1].name
        BY <1>4, <1>7, <2>1
      <3> QED
        BY <1>7, <3>1 DEF RunInv, FillsAlone
    <2>2. CASE p = o
      <3>1. Filling(q) /\ op'[q].todo[1].name = op[q].todo[1].name
        BY <1>4, <1>7, <2>2
      <3>2. file[op'[q].todo[1].name] = Torn /\ file[op'[q].todo[1].name] = NoFile
        BY <1>2, <1>5, <1>7, <2>2, <3>1
      <3> QED
        BY <1>3, <3>2
    <2>3. CASE q = o
      <3>1. Filling(p) /\ op'[p].todo[1].name = op[p].todo[1].name
        BY <1>4, <1>7, <2>3
      <3>2. file[op'[p].todo[1].name] = Torn /\ file[op'[p].todo[1].name] = NoFile
        BY <1>2, <1>5, <1>7, <2>3, <3>1
      <3> QED
        BY <1>3, <3>2
    <2> QED
      BY <2>1, <2>2, <2>3
  <1> QED
    BY <1>6, <1>7 DEF FillsAlone

LEMMA JournalStill ==
    ASSUME RunInv, Keeps, events' = events
    PROVE  JournalFits'
  <1>1. \A n \in DOMAIN events : EventFits(n)'
    BY KeepsEvent
  <1>2. events # <<>> => LoadsRequest' /\ events[1].payload = file'["request"]
    BY KeepsRequest DEF RunInv, JournalFits
  <1> QED
    BY <1>1, <1>2 DEF RunInv, JournalFits

LEMMA UnchangedKeeps ==
    ASSUME RunInv, file' = file, events' = events, swaps' = swaps
    PROVE  Keeps
  BY DEF RunInv, FilesFit, JournalFits, Keeps

LEMMA FilesStill ==
    ASSUME RunInv, file' = file, faults' \in Nat, swaps' \in Nat, Keeps
    PROVE  FilesFit'
  <1>1. Real(file["reference-ingestion"]) => GoodReceipt(file["reference-ingestion"])'
    <2>1. PICK c : c = file["reference-ingestion"]
      OBVIOUS
    <2>2. GoodReceipt(c) => GoodReceipt(c)'
      BY KeepsReceipt
    <2>3. c = file'["reference-ingestion"]
      BY <2>1
    <2> QED
      BY <2>1, <2>2, <2>3 DEF RunInv, FilesFit
  <1>2. Real(file["reference-ingestion"])' = Real(file["reference-ingestion"])
    BY DEF Real
  <1>3. LoadsRequest' = LoadsRequest
    BY DEF LoadsRequest
  <1>4. events # <<>> => events' # <<>>
    BY KeepsReached DEF RunInv, JournalFits
  <1> QED
    BY <1>1, <1>2, <1>3, <1>4 DEF RunInv, FilesFit

\* A step that changes the list of a process and nothing else.
LEMMA ListMoves ==
    ASSUME RunInv, NEW o \in Operators, NEW list, Moves(o, list), ListFits(list)',
           list # <<>> => list[1].do # "fill",
           file' = file, events' = events, faults' \in Nat, swaps' = swaps
    PROVE  RunInv'
  <1>1. Keeps
    BY UnchangedKeeps
  <1>2. FilesFit' /\ JournalFits'
    BY <1>1, FilesStill, JournalStill DEF RunInv, FilesFit
  <1>3. FillsAlone'
    BY FillsAfter
  <1> QED
    BY <1>1, <1>2, <1>3, Assemble

----------------------------------------------------------------------------
(* The steps of a call.                                                    *)

\* What is known of the call of a process that has steps left.
LEMMA CallFacts ==
    ASSUME RunInv, NEW o \in Operators, ~Idle(o), NEW list, list = op[o].todo
    PROVE  /\ ListFits(list) /\ list # <<>> /\ IsList(list) /\ 1 \in DOMAIN list
           /\ Head(op[o].todo) = list[1] /\ Rest(o) = Tail(list)
           /\ StepFits(list, 1) /\ CallsFit
  <1>1. ListFits(list) /\ list # <<>> /\ CallsFit
    BY DEF RunInv, CallsFit, Idle
  <1>2. IsList(list) /\ 1 \in DOMAIN list /\ Head(list) = list[1]
    BY <1>1, ListFacts DEF ListFits
  <1> QED
    BY <1>1, <1>2 DEF Rest, ListFits

\* A process gives up, or goes on to its next step.
LEMMA Refuses ==
    ASSUME RunInv, NEW o \in Operators, Refuse(o), file' = file, events' = events,
           faults' \in Nat, swaps' = swaps
    PROVE  RunInv'
  <1>1. Moves(o, <<>>)
    BY TodoMoves DEF Refuse, RunInv
  <1> QED
    BY <1>1, EmptyFits, ListMoves

LEMMA Advances ==
    ASSUME RunInv, NEW o \in Operators, ~Idle(o), Advance(o), file' = file, events' = events,
           faults' = faults, swaps' = swaps,
           Head(op[o].todo).do \in {"write", "fill"} =>
               file[Head(op[o].todo).name] = Head(op[o].todo).content
    PROVE  RunInv'
  <1>1. PICK list : list = op[o].todo
    OBVIOUS
  <1>2. /\ ListFits(list) /\ list # <<>> /\ Head(op[o].todo) = list[1] /\ Rest(o) = Tail(list)
        /\ CallsFit
    BY <1>1, CallFacts
  <1>3. ListFits(list)'
    BY <1>2, UnchangedKeeps, KeepsList
  <1>4. PICK rest : rest = Tail(list)
    OBVIOUS
  <1>5. ListFits(rest)' /\ (rest # <<>> => rest[1].do # "fill")
    BY <1>2, <1>3, <1>4, RestFits
  <1>6. Moves(o, rest)
    BY <1>2, <1>4, TodoMoves DEF Advance
  <1> QED
    BY <1>5, <1>6, ListMoves DEF RunInv, FilesFit

\* The first step of a list gives way to another, and nothing else changes.
LEMMA FirstMoves ==
    ASSUME RunInv, NEW o \in Operators, ~Idle(o), NEW w, Todo(o, <<w>> \o Rest(o)),
           file' = file, events' = events, faults' = faults, swaps' = swaps,
           NEW list, list = op[o].todo, NEW new, new = <<w>> \o Tail(list),
           list[1].do \in {"write", "fill"} =>
               /\ w.do \in {"write", "fill"}
               /\ w.name = list[1].name /\ w.content = list[1].content,
           w.do # "fill", StepFits(new, 1)'
    PROVE  RunInv'
  <1>1. /\ ListFits(list) /\ list # <<>> /\ Head(op[o].todo) = list[1] /\ Rest(o) = Tail(list)
        /\ CallsFit
    BY CallFacts
  <1>2. ListFits(list)'
    BY <1>1, UnchangedKeeps, KeepsList
  <1>3. ListFits(new)'
    BY <1>1, <1>2, FirstFits
  <1>4. Moves(o, new)
    BY <1>1, TodoMoves
  <1>5. new[1] = w
    BY <1>1, ListTail, ListPush DEF ListFits
  <1> QED
    BY <1>3, <1>4, <1>5, ListMoves DEF RunInv, FilesFit

\* What a writer turns into: the same writer that has looked, or the file's filling.
Becomes(v, w) == \/ w = [v EXCEPT !.do = "fill"]
                 \/ v.style = "stage" /\ w = [v EXCEPT !.style = "exclusive"]

LEMMA StyleFits ==
    ASSUME NEW list, ListFits(list), list # <<>>, list[1].do = "write",
           NEW w, NEW new, new = <<w>> \o Tail(list),
           Becomes(list[1], w)
    PROVE  /\ w.do \in {"write", "fill"} /\ w.name = list[1].name /\ w.content = list[1].content
           /\ w.style = "exclusive" \/ w.style = list[1].style
           /\ StepFits(new, 1)
           /\ WriteFits(list, 1)
           /\ new[1] = w
  <1>1. IsList(list) /\ IsList(Tail(list)) /\ 1 \in DOMAIN list /\ WriteFits(list, 1)
    BY ListTail, ListFacts DEF ListFits, StepFits
  <1>2. list[1] = [do |-> list[1].do, name |-> list[1].name, content |-> list[1].content,
                   style |-> list[1].style]
    BY <1>1 DEF WriteFits
  <1>3. \A a, b, c, d, x :
           /\ [[do |-> a, name |-> b, content |-> c, style |-> d] EXCEPT !.do = x]
                = [do |-> x, name |-> b, content |-> c, style |-> d]
           /\ [[do |-> a, name |-> b, content |-> c, style |-> d] EXCEPT !.style = x]
                = [do |-> a, name |-> b, content |-> c, style |-> x]
    OBVIOUS
  <1>4. \/ w = [do |-> "fill", name |-> list[1].name, content |-> list[1].content,
                style |-> list[1].style]
        \/ /\ list[1].style = "stage"
           /\ w = [do |-> list[1].do, name |-> list[1].name, content |-> list[1].content,
                   style |-> "exclusive"]
    BY <1>2, <1>3 DEF Becomes
  <1>5. /\ w.do \in {"write", "fill"} /\ w.name = list[1].name /\ w.content = list[1].content
        /\ w = [do |-> w.do, name |-> w.name, content |-> w.content, style |-> w.style]
        /\ w.style = list[1].style \/ (w.style = "exclusive" /\ list[1].style = "stage")
    BY <1>4
  <1>6. new[1] = w
    BY <1>1, ListPush
  <1>7. 2 \in DOMAIN list => 2 \in DOMAIN new /\ new[2] = list[2]
    <2>1. SUFFICES ASSUME 2 \in DOMAIN list PROVE 2 \in DOMAIN new /\ new[2] = list[2]
      OBVIOUS
    <2>2. 2 - 1 \in DOMAIN Tail(list)
      BY <1>1, <2>1, ListTail
    <2>3. 1 \in DOMAIN Tail(list)
      BY <2>2
    <2>4. Tail(list)[1] = list[1 + 1] /\ 1 + 1 \in DOMAIN new /\ new[1 + 1] = Tail(list)[1]
      BY <1>1, <2>3, ListTail, ListPush
    <2> QED
      BY <2>4
  <1>8. WriteFits(new, 1)
    BY <1>1, <1>5, <1>6, <1>7 DEF WriteFits
  <1> QED
    BY <1>1, <1>5, <1>6, <1>8 DEF StepFits

\* A file in the making, or not yet there, gets another content.
LEMMA FileMoves ==
    ASSUME RunInv, NEW name \in FileNames \ Outside, ~Real(file[name]), NEW c,
           file' = [file EXCEPT ![name] = c],
           name = "reference-ingestion" /\ Real(c) => GoodReceipt(c),
           events' = events, faults' \in Nat, swaps' = swaps
    PROVE  /\ Keeps /\ FilesFit' /\ JournalFits'
           /\ file'[name] = c
           /\ \A n \in FileNames : n # name => file'[n] = file[n]
  <1>1. /\ \A n \in FileNames : n # name => file'[n] = file[n]
        /\ file'[name] = c
        /\ file' = [n \in FileNames |-> file'[n]]
        /\ faults \in Nat /\ swaps \in Nat
    BY DEF RunInv, FilesFit
  <1>2. \A n \in Outside : file'[n] = file[n]
    BY <1>1 DEF Outside, FileNames
  <1>3. Keeps
    BY <1>1, <1>2 DEF Keeps, Outside, RunInv, JournalFits
  <1>4. LoadsRequest => LoadsRequest'
    BY <1>3, KeepsRequest
  <1>5. PICK d : d = file'["reference-ingestion"]
    OBVIOUS
  <1>6. Real(d) => GoodReceipt(d)
    BY <1>1, <1>5, InsideNames DEF RunInv, FilesFit
  <1>7. Real(d) => GoodReceipt(d)'
    BY <1>3, <1>6, KeepsReceipt
  <1>8. Real(file["reference-ingestion"])' => GoodReceipt(file["reference-ingestion"])'
    <2>1. Real(file["reference-ingestion"])' = Real(d)
      BY <1>5 DEF Real
    <2>2. GoodReceipt(d)' => GoodReceipt(file["reference-ingestion"])'
      BY <1>5
    <2> QED
      BY <1>7, <2>1, <2>2
  <1>9. FilesFit'
    BY <1>1, <1>2, <1>4, <1>8 DEF RunInv, FilesFit, Outside
  <1> QED
    BY <1>1, <1>3, <1>9, JournalStill

LEMMA CreateKeeps ==
    ASSUME RunInv, NEW o \in Operators, CreateFile(o)
    PROVE  RunInv'
  <1>1. PICK list : list = op[o].todo
    OBVIOUS
  <1>0. PICK w : w = list[1]
    OBVIOUS
  <1>2. /\ ListFits(list) /\ list # <<>> /\ Head(op[o].todo) = w /\ Rest(o) = Tail(list)
        /\ CallsFit /\ StepFits(list, 1) /\ ~Idle(o) /\ w.do = "write"
    BY <1>0, <1>1, CallFacts DEF CreateFile, At
  <1>3. /\ UNCHANGED <<store, events, tornEvent, faults, swaps>>
        /\ \/ /\ file[w.name] = NoFile /\ w.style = "stage"
              /\ Todo(o, <<[w EXCEPT !.style = "exclusive"]>> \o Rest(o))
              /\ UNCHANGED file
           \/ /\ file[w.name] = NoFile
              /\ file' = [file EXCEPT ![w.name] = Torn]
              /\ Todo(o, <<[w EXCEPT !.do = "fill"]>> \o Rest(o))
           \/ file[w.name] = w.content /\ Advance(o) /\ UNCHANGED file
           \/ Refuse(o) /\ UNCHANGED file
    BY <1>2 DEF CreateFile
  <1>4. /\ WriteFits(list, 1)
        /\ w = [do |-> w.do, name |-> w.name, content |-> w.content, style |-> w.style]
        /\ w.name \in FileNames \ Outside
    BY <1>0, <1>2 DEF StepFits, WriteFits
  <1>5. faults \in Nat /\ swaps \in Nat /\ faults' = faults /\ swaps' = swaps /\ events' = events
    BY <1>3 DEF RunInv, FilesFit
  <1>6. CASE /\ file[w.name] = NoFile /\ w.style = "stage"
             /\ Todo(o, <<[w EXCEPT !.style = "exclusive"]>> \o Rest(o))
             /\ UNCHANGED file
    <2>1. PICK x : x = [w EXCEPT !.style = "exclusive"]
      OBVIOUS
    <2>2. PICK new : new = <<x>> \o Tail(list)
      OBVIOUS
    <2>3. /\ x.do \in {"write", "fill"} /\ x.name = w.name /\ x.content = w.content
          /\ StepFits(new, 1) /\ x.do # "fill"
      <3>1. /\ x.do \in {"write", "fill"} /\ x.name = w.name /\ x.content = w.content
            /\ StepFits(new, 1)
        <4>1. list[1].do = "write" /\ Becomes(list[1], x)
          BY <1>0, <1>2, <1>6, <2>1 DEF Becomes
        <4>2. ListFits(list) /\ list # <<>> /\ new = <<x>> \o Tail(list)
          BY <1>2, <2>2
        <4>3. /\ x.do \in {"write", "fill"}
              /\ x.name = list[1].name
              /\ x.content = list[1].content
              /\ StepFits(new, 1)
          BY <4>1, <4>2, StyleFits
        <4> QED
          BY <1>0, <4>3
      <3>2. \A a, b, c, d : [[do |-> a, name |-> b, content |-> c, style |-> d]
                               EXCEPT !.style = "exclusive"].do = a
        OBVIOUS
      <3>3. x.do = w.do
        BY <1>4, <2>1, <3>2
      <3> QED
        BY <1>2, <3>1, <3>3
    <2>4. StepFits(new, 1)'
      BY <1>5, <1>6, <2>3, UnchangedKeeps, KeepsStep
    <2>5. Todo(o, <<x>> \o Rest(o))
      BY <1>6, <2>1
    <2> QED
      BY <1>0, <1>1, <1>2, <1>5, <1>6, <2>2, <2>3, <2>4, <2>5, FirstMoves
  <1>7. CASE /\ file[w.name] = NoFile
             /\ file' = [file EXCEPT ![w.name] = Torn]
             /\ Todo(o, <<[w EXCEPT !.do = "fill"]>> \o Rest(o))
    <2>1. PICK x : x = [w EXCEPT !.do = "fill"]
      OBVIOUS
    <2>2. PICK new : new = <<x>> \o Tail(list)
      OBVIOUS
    <2>3. /\ x.do \in {"write", "fill"} /\ x.name = w.name /\ x.content = w.content
          /\ StepFits(new, 1) /\ new[1] = x
      <3>1. list[1].do = "write" /\ Becomes(list[1], x)
        BY <1>0, <1>2, <2>1 DEF Becomes
      <3>2. ListFits(list) /\ list # <<>> /\ new = <<x>> \o Tail(list)
        BY <1>2, <2>2
      <3>3. /\ x.do \in {"write", "fill"}
            /\ x.name = list[1].name
            /\ x.content = list[1].content
            /\ StepFits(new, 1)
        BY <3>1, <3>2, StyleFits
      <3>4. new[1] = x
        BY <3>2, ListTail, ListPush DEF ListFits
      <3> QED
        BY <1>0, <3>3, <3>4
    <2>4. ~Real(file[w.name]) /\ ~Real(Torn)
      BY <1>7 DEF Real
    <2>5. /\ Keeps /\ FilesFit' /\ JournalFits'
          /\ file'[w.name] = Torn
          /\ \A n \in FileNames : n # w.name => file'[n] = file[n]
      BY <1>4, <1>5, <1>7, <2>4, FileMoves
    <2>6. ListFits(new)'
      BY <1>0, <1>2, <2>2, <2>3, <2>5, KeepsList, KeepsStep, FirstFits
    <2>7. Moves(o, new)
      BY <1>2, <1>7, <2>1, <2>2, TodoMoves
    <2>8. FillsAlone'
      <3>1. \A n \in FileNames : file[n] = Torn => file'[n] = Torn
        BY <2>5
      <3> QED
        BY <1>4, <1>7, <2>3, <2>5, <2>7, <3>1, FillsAfter
    <2> QED
      BY <2>5, <2>6, <2>7, <2>8, Assemble
  <1>8. CASE file[w.name] = w.content /\ Advance(o) /\ UNCHANGED file
    BY <1>0, <1>2, <1>5, <1>8, Advances
  <1>9. CASE Refuse(o) /\ UNCHANGED file
    BY <1>5, <1>9, Refuses
  <1> QED
    BY <1>3, <1>6, <1>7, <1>8, <1>9

LEMMA FillKeeps ==
    ASSUME RunInv, NEW o \in Operators, FillFile(o)
    PROVE  RunInv'
  <1>1. PICK list : list = op[o].todo
    OBVIOUS
  <1>2. PICK w : w = list[1]
    OBVIOUS
  <1>3. /\ ListFits(list) /\ list # <<>> /\ Head(op[o].todo) = w /\ Rest(o) = Tail(list)
        /\ CallsFit /\ StepFits(list, 1) /\ ~Idle(o) /\ w.do = "fill"
    BY <1>1, <1>2, CallFacts DEF FillFile, At
  <1>4. /\ w.name \in FileNames \ Outside
        /\ w.name = "reference-ingestion" => GoodReceipt(w.content)
    BY <1>2, <1>3 DEF StepFits, WriteFits
  <1>5. Filling(o) /\ op[o].todo[1].name = w.name /\ file[w.name] = Torn /\ ~Real(file[w.name])
    BY <1>1, <1>2, <1>3 DEF Filling, RunInv, FillsAlone, Real
  <1>6. /\ file' = [file EXCEPT ![w.name] = w.content]
        /\ events' = events /\ faults' \in Nat /\ swaps' = swaps /\ Advance(o)
    BY <1>3 DEF FillFile, RunInv, FilesFit
  <1>7. /\ Keeps /\ FilesFit' /\ JournalFits'
        /\ file'[w.name] = w.content
        /\ \A n \in FileNames : n # w.name => file'[n] = file[n]
    BY <1>4, <1>5, <1>6, FileMoves
  <1>8. ListFits(list)'
    BY <1>3, <1>7, KeepsList
  <1>9. PICK rest : rest = Tail(list)
    OBVIOUS
  <1>10. ListFits(rest)' /\ (rest # <<>> => rest[1].do # "fill")
    BY <1>2, <1>3, <1>7, <1>8, <1>9, RestFits
  <1>11. Moves(o, rest)
    BY <1>3, <1>6, <1>9, TodoMoves DEF Advance
  <1>12. FillsAlone'
    BY <1>5, <1>7, <1>10, <1>11, FillsAfter
  <1> QED
    BY <1>7, <1>10, <1>11, <1>12, Assemble

LEMMA WriteFailsKeeps ==
    ASSUME RunInv, NEW o \in Operators, WriteFails(o)
    PROVE  RunInv'
  <1>1. PICK list : list = op[o].todo
    OBVIOUS
  <1>2. PICK w : w = list[1]
    OBVIOUS
  <1>3. /\ list # <<>> /\ Head(op[o].todo) = w
        /\ CallsFit /\ StepFits(list, 1) /\ ~Idle(o) /\ w.do = "fill"
    BY <1>1, <1>2, CallFacts DEF WriteFails, At
  <1>4. w.name \in FileNames \ Outside
    BY <1>2, <1>3 DEF StepFits, WriteFits
  <1>5. Filling(o) /\ op[o].todo[1].name = w.name /\ file[w.name] = Torn /\ ~Real(file[w.name])
    BY <1>1, <1>2, <1>3 DEF Filling, RunInv, FillsAlone, Real
  <1>6. PICK c : c \in {Torn, NoFile} /\ file' = [file EXCEPT ![w.name] = c]
    BY <1>3 DEF WriteFails
  <1>7. events' = events /\ faults' \in Nat /\ swaps' = swaps /\ Refuse(o) /\ ~Real(c)
    BY <1>3, <1>6 DEF WriteFails, RunInv, FilesFit, Real
  <1>8. /\ Keeps /\ FilesFit' /\ JournalFits'
        /\ \A n \in FileNames : n # w.name => file'[n] = file[n]
    BY <1>4, <1>5, <1>6, <1>7, FileMoves
  <1>9. Moves(o, <<>>)
    BY <1>3, <1>7, TodoMoves DEF Refuse
  <1>10. FillsAlone'
    BY <1>5, <1>8, <1>9, FillsAfter
  <1> QED
    BY <1>8, <1>9, <1>10, EmptyFits, Assemble

LEMMA LoadKeeps ==
    ASSUME RunInv, NEW o \in Operators, LoadEvents(o)
    PROVE  RunInv'
  <1>1. PICK list : list = op[o].todo
    OBVIOUS
  <1>2. PICK w : w = list[1]
    OBVIOUS
  <1>3. /\ ListFits(list) /\ list # <<>> /\ Head(op[o].todo) = w /\ Rest(o) = Tail(list)
        /\ CallsFit /\ StepFits(list, 1) /\ ~Idle(o) /\ w.do = "append"
    BY <1>1, <1>2, CallFacts DEF LoadEvents, At
  <1>4. /\ file' = file /\ events' = events /\ faults' = faults /\ swaps' = swaps
        /\ faults' \in Nat
    BY DEF LoadEvents, RunInv, FilesFit
  <1>5. PICK last : last = LastState(events)
    OBVIOUS
  <1>6. PICK e : e = [do |-> "event", sequence |-> Len(events) + 1, previous |-> last,
                      next |-> w.next, payload |-> w.payload]
    OBVIOUS
  <1>7. \/ Refuse(o)
        \/ Advance(o)
        \/ /\ Todo(o, <<e>> \o Rest(o))
           /\ w.rule = "plan" => last = "PENDING_DRAWING_INGESTION"
    BY <1>3, <1>5, <1>6 DEF LoadEvents, Advance
  <1>8. CASE Refuse(o)
    BY <1>4, <1>8, Refuses
  <1>9. CASE Advance(o)
    BY <1>3, <1>4, <1>9, Advances
  <1>10. CASE /\ Todo(o, <<e>> \o Rest(o))
              /\ w.rule = "plan" => last = "PENDING_DRAWING_INGESTION"
    <2>1. PICK new : new = <<e>> \o Tail(list)
      OBVIOUS
    <2>2. new[1] = e
      BY <1>3, <2>1, ListTail, ListPush DEF ListFits
    <2>3. StateFits(list, 1) /\ list[1] = w
      BY <1>2, <1>3 DEF StepFits
    <2>4. w.next = "INPUT_CONFIRMATION_REQUIRED" => e.previous = "PENDING_DRAWING_INGESTION"
      BY <1>3, <1>6, <1>10, <2>3 DEF StateFits, LateStates
    <2>5. \A n, c : Settles(list, 1, n, c) => Settles(new, 1, n, c)
      BY DEF Settles
    <2>6. StateFits(new, 1)
      <3>1. /\ new[1].next = w.next /\ new[1].payload = w.payload /\ new[1].do = "event"
            /\ new[1].previous = e.previous
        BY <1>6, <2>2
      <3> QED
        BY <2>3, <2>4, <2>5, <3>1 DEF StateFits
    <2>7. StepFits(new, 1)
      BY <1>6, <2>2, <2>6 DEF StepFits
    <2>8. StepFits(new, 1)'
      BY <1>4, <2>7, UnchangedKeeps, KeepsStep
    <2>9. e.do # "fill" /\ list[1].do \notin {"write", "fill"}
      BY <1>2, <1>3, <1>6
    <2> QED
      BY <1>1, <1>3, <1>4, <1>10, <2>1, <2>8, <2>9, FirstMoves
  <1> QED
    BY <1>7, <1>8, <1>9, <1>10

----------------------------------------------------------------------------
(* The journal moves forward.                                              *)

LEMMA Ranks ==
    /\ \A s : Rank(s) \in 0 .. 11
    /\ Rank("PENDING_REFERENCE_INGESTION") = 1
    /\ Rank("PENDING_DRAWING_INGESTION") = 2
    /\ Rank("INPUT_CONFIRMATION_REQUIRED") = 3
    /\ Rank("READY_TO_EVALUATE") = 4
    /\ Rank("FINALIZING") = 10
    /\ \A i \in 1..3 : Rank(Stages[i]) = 4 + i
  <1>1. Stages[1] = "RETRIEVING_EVIDENCE" /\ Stages[2] = "RUNNING_MATH" /\ Stages[3] = "RUNNING_RULES"
    BY DEF Stages
  <1>2. Rank("RETRIEVING_EVIDENCE") = 5 /\ Rank("RUNNING_MATH") = 6 /\ Rank("RUNNING_RULES") = 7
    BY DEF Rank
  <1>3. \A i \in 1..3 : i = 1 \/ i = 2 \/ i = 3
    OBVIOUS
  <1>4. \A i \in 1..3 : Rank(Stages[i]) = 4 + i
    BY <1>1, <1>2, <1>3
  <1> QED
    BY <1>4 DEF Rank

LEMMA TransitionRanks ==
    ASSUME NEW p \in WorkflowStates, NEW q, ValidTransition(p, q)
    PROVE  /\ q \in WorkflowStates
           /\ Rank(p) <= Rank(q)
           /\ Rank(p) >= 2 => Rank(p) < Rank(q)
  <1>1. CASE q \in {"BLOCKED", "FAILED"}
    <2>1. Rank(q) = 11 /\ q \in WorkflowStates
      BY <1>1 DEF Rank, WorkflowStates
    <2>2. p \notin {"BLOCKED", "FAILED", "READY_FOR_REVIEW"}
      BY <1>1 DEF ValidTransition, ForwardTransitions, Terminal, WorkflowStates
    <2>3. Rank(p) < 11
      BY <2>2 DEF Rank, WorkflowStates
    <2> QED
      BY <2>1, <2>3, Ranks
  <1>2. CASE q \in ForwardTransitions[p]
    BY <1>2 DEF ForwardTransitions, Rank, WorkflowStates
  <1> QED
    BY <1>1, <1>2 DEF ValidTransition

\* An event right for the journal is appended.
LEMMA JournalGrows ==
    ASSUME RunInv, NEW e, NEW list, StateFits(list, 1), list[1].do = "event",
           e.next = list[1].next, e.payload = list[1].payload,
           list[1].previous = LastState(events), MayFollow(events, e.next),
           events' = Append(events, e), file' = file, swaps' = swaps
    PROVE  Keeps /\ JournalFits'
  <1>0. PICK N : N = Len(events) + 1
    OBVIOUS
  <1>1. /\ IsList(events) /\ Len(events) \in Nat /\ DOMAIN events = 1 .. Len(events)
        /\ events = <<>> <=> Len(events) = 0
    BY ListFacts DEF RunInv, JournalFits
  <1>2. /\ IsList(events') /\ DOMAIN events' = 1 .. N /\ events'[N] = e
        /\ \A k \in DOMAIN events : events'[k] = events[k]
        /\ events' # <<>>
    BY <1>0, <1>1, ListAppend
  <1>3. Keeps
    BY <1>0, <1>1, <1>2 DEF Keeps, RunInv, FilesFit
  <1>4. \A n \in DOMAIN events : EventFits(n) /\ EventFits(n)'
    BY <1>3, KeepsEvent DEF RunInv, JournalFits
  <1>5. CASE events = <<>>
    <2>1. e.next = "RECEIVED"
      BY <1>5 DEF MayFollow
    <2>2. LoadsRequest /\ e.payload = file["request"]
      BY <2>1 DEF StateFits
    <2>3. DOMAIN events' = {1} /\ events'[1] = e
      BY <1>0, <1>1, <1>2, <1>5
    <2>4. LoadsRequest'
      BY <1>3, <2>2, KeepsRequest
    <2>5. \A i \in 1..3 : e.next # Stages[i]
      BY <2>1, InsideNames
    <2>6. EventFits(1)'
      BY <2>1, <2>3, <2>5 DEF EventFits, WorkflowStates
    <2>7. \A m, n \in DOMAIN events' : ~(m < n)
      BY <2>3
    <2> QED
      BY <1>2, <1>3, <2>2, <2>3, <2>4, <2>6, <2>7 DEF JournalFits
  <1>6. CASE events # <<>>
    <2>0. PICK L : L = Len(events)
      OBVIOUS
    <2>1. /\ L \in DOMAIN events /\ N = L + 1 /\ 1 \in DOMAIN events
          /\ events[L].next = LastState(events)
      BY <1>0, <1>1, <1>6, <2>0 DEF LastState
    <2>2. ValidTransition(events[L].next, e.next) /\ events[L].next \in WorkflowStates
      BY <1>4, <1>6, <2>1 DEF MayFollow, EventFits
    <2>3. /\ e.next \in WorkflowStates
          /\ Rank(events[L].next) <= Rank(e.next)
          /\ Rank(events[L].next) >= 2 => Rank(events[L].next) < Rank(e.next)
      BY <2>2, TransitionRanks
    <2>4. \A n \in DOMAIN events : PassedReferences(n) => PassedReferences(N)'
      <3>1. SUFFICES ASSUME NEW n \in DOMAIN events, PassedReferences(n)
                     PROVE  PassedReferences(N)'
        OBVIOUS
      <3>2. PICK m \in 1..n : events[m].payload = file["reference-ingestion"]
        BY <3>1 DEF PassedReferences
      <3>3. m \in 1 .. N /\ events'[m] = events[m]
        BY <1>0, <1>1, <1>2, <3>2
      <3>4. \E k \in 1 .. N : events'[k].payload = file'["reference-ingestion"]
        BY <3>2, <3>3
      <3> QED
        BY <3>1, <3>4 DEF PassedReferences, References, Frozen
    <2>5. ASSUME RolesKnown, CarriesReceipt(e.payload), References(Frozen) # {}
          PROVE  PassedReferences(N)'
      <3>1. e.payload = file["reference-ingestion"] /\ GoodReceipt(file["reference-ingestion"])
        BY <2>5 DEF CarriesReceipt
      <3>2. N \in 1 .. N /\ events'[N].payload = file'["reference-ingestion"]
        BY <1>0, <1>1, <1>2, <3>1
      <3> QED
        BY <3>1, <3>2 DEF PassedReferences, GoodReceipt, Real, References, Frozen
    <2>6. /\ LoadsRequest' = LoadsRequest /\ RolesKnown' = RolesKnown
          /\ (References(Frozen) # {})' = (References(Frozen) # {})
          /\ Drawings(Frozen)' = Drawings(Frozen)
      BY DEF LoadsRequest, RolesKnown, RequiresRoleConfirmation, Frozen, References, Drawings
    <2>7. e.next = "PENDING_REFERENCE_INGESTION" => RolesKnown'
      BY <2>6 DEF StateFits
    <2>8. e.next \in {"PENDING_DRAWING_INGESTION", "INPUT_CONFIRMATION_REQUIRED",
                      "READY_TO_EVALUATE"} =>
            RolesKnown /\ (References(Frozen) # {} => PassedReferences(N)')
      <3>1. CASE e.next = "PENDING_DRAWING_INGESTION"
        BY <2>5, <3>1 DEF StateFits
      <3>2. CASE e.next = "INPUT_CONFIRMATION_REQUIRED"
        <4>1. events[L].next = "PENDING_DRAWING_INGESTION"
          BY <2>1, <3>2 DEF StateFits
        <4>2. RolesKnown /\ (References(Frozen) # {} => PassedReferences(L))
          BY <1>4, <2>1, <4>1 DEF EventFits
        <4> QED
          BY <2>1, <2>4, <4>2
      <3>3. CASE e.next = "READY_TO_EVALUATE"
        <4>1. RolesKnown
          BY <3>3 DEF StateFits
        <4>2. CASE CarriesReceipt(e.payload)
          BY <2>5, <4>1, <4>2
        <4>3. CASE Paused
          <5>1. PICK m \in DOMAIN events : events[m].next = "INPUT_CONFIRMATION_REQUIRED"
            BY <4>3 DEF Paused
          <5>2. References(Frozen) # {} => PassedReferences(m)
            BY <1>4, <5>1 DEF EventFits
          <5> QED
            BY <2>4, <4>1, <5>2
        <4> QED
          BY <3>3, <4>2, <4>3 DEF StateFits
      <3> QED
        BY <3>1, <3>2, <3>3
    <2>9. e.next = "PENDING_DRAWING_INGESTION" => Drawings(Frozen)' # {}
      BY <2>6 DEF StateFits
    <2>10. e.next = "INPUT_CONFIRMATION_REQUIRED" =>
             Real(e.payload) /\ e.payload = file'["drawing-confirmation"]
      BY DEF StateFits, Settles
    <2>11. ASSUME e.next = "READY_TO_EVALUATE", Drawings(Frozen)' # {}
           PROVE  PassedDrawing(N)'
      <3>1. Paused /\ (ValidInputs(e.payload, Frozen) \/ swaps > 0)
        BY <2>6, <2>11 DEF StateFits
      <3>2. PICK m \in DOMAIN events : events[m].next = "INPUT_CONFIRMATION_REQUIRED"
        BY <3>1 DEF Paused
      <3>3. events[m].payload = file["drawing-confirmation"]
        BY <1>4, <3>2 DEF EventFits
      <3>4. m \in 1 .. N /\ events'[m] = events[m]
        BY <1>0, <1>1, <1>2
      <3>5. Frozen' = Frozen /\ events'[N].payload = e.payload
        BY <1>2 DEF Frozen
      <3>6. ValidInputs(events[N].payload, Frozen)' \/ swaps' > 0
        BY <3>1, <3>5 DEF ValidInputs, Drawings
      <3> QED
        BY <3>2, <3>3, <3>4, <3>6 DEF PassedDrawing
    <2>12. ASSUME NEW i \in 1..3, e.next = Stages[i]
           PROVE  /\ Real(e.payload) /\ e.payload = file'[Stages[i]]
                  /\ Real(e.payload.input)
                  /\ e.payload.input = IF i = 1 THEN file'["request"] ELSE file'[Stages[i - 1]]
      <3>1. /\ LoadsRequest
            /\ Settles(list, 1, Stages[i], e.payload)
            /\ IF i = 1 THEN e.payload.input = file["request"]
               ELSE Settles(list, 1, Stages[i - 1], e.payload.input)
        BY <2>12 DEF StateFits
      <3>2. Real(file["request"])
        BY <3>1 DEF LoadsRequest, Real
      <3>3. \A n, c : Settles(list, 1, n, c) => Real(c) /\ c = file[n]
        BY DEF Settles
      <3> QED
        BY <3>1, <3>2, <3>3
    <2>13. EventFits(N)'
      <3>1. events'[N] = e
        BY <1>2
      <3> QED
        BY <2>3, <2>6, <2>7, <2>8, <2>9, <2>10, <2>11, <2>12, <3>1 DEF EventFits
    <2>14. ASSUME NEW m \in DOMAIN events', NEW n \in DOMAIN events', m < n
           PROVE  /\ Rank(events'[m].next) <= Rank(events'[n].next)
                  /\ Rank(events'[m].next) >= 2 => Rank(events'[m].next) < Rank(events'[n].next)
      <3>1. m \in DOMAIN events /\ m \in 1 .. L /\ events'[m] = events[m]
        BY <1>0, <2>0, <1>1, <1>2, <2>14
      <3>2. CASE n # N
        <4>1. n \in DOMAIN events /\ events'[n] = events[n]
          BY <1>0, <1>1, <1>2, <3>2
        <4> QED
          BY <2>14, <3>1, <4>1 DEF RunInv, JournalFits
      <3>3. CASE n = N
        <4>1. m = L \/ m < L
          BY <2>0, <1>1, <3>1
        <4>2. Rank(events[m].next) \in Nat /\ Rank(events[L].next) \in Nat /\ Rank(e.next) \in Nat
          <5>1. \A x \in 0 .. 11 : x \in Nat
            OBVIOUS
          <5> QED
            BY <5>1, Ranks
        <4>3. events'[n].next = e.next
          BY <1>2, <3>3
        <4>4. m < L => /\ Rank(events[m].next) <= Rank(events[L].next)
                       /\ Rank(events[m].next) >= 2 => Rank(events[m].next) < Rank(events[L].next)
          BY <2>1, <3>1 DEF RunInv, JournalFits
        <4> QED
          BY <2>3, <3>1, <4>1, <4>2, <4>3, <4>4
      <3> QED
        BY <3>2, <3>3
    <2>15. \A n \in DOMAIN events' : EventFits(n)'
      BY <1>0, <1>1, <1>2, <1>4, <2>1, <2>13
    <2>16. LoadsRequest' /\ events'[1].payload = file'["request"]
      BY <1>2, <1>6, <2>1, <2>6 DEF RunInv, JournalFits
    <2> QED
      BY <1>2, <1>3, <2>14, <2>15, <2>16 DEF JournalFits
  <1> QED
    BY <1>5, <1>6

LEMMA AppendKeeps ==
    ASSUME RunInv, NEW o \in Operators, AppendEvent(o)
    PROVE  RunInv'
  <1>1. PICK list : list = op[o].todo
    OBVIOUS
  <1>2. PICK w : w = list[1]
    OBVIOUS
  <1>3. /\ ListFits(list) /\ list # <<>> /\ Head(op[o].todo) = w /\ Rest(o) = Tail(list)
        /\ CallsFit /\ StepFits(list, 1) /\ ~Idle(o) /\ w.do = "event"
    BY <1>1, <1>2, CallFacts DEF AppendEvent, At
  <1>4. /\ file' = file /\ faults' = faults /\ swaps' = swaps
        /\ faults' \in Nat /\ swaps' \in Nat
    BY DEF AppendEvent, RunInv, FilesFit
  <1>5. CASE events' = events /\ Advance(o)
    BY <1>3, <1>4, <1>5, Advances
  <1>6. CASE events' = events /\ Refuse(o)
    BY <1>4, <1>6, Refuses
  <1>7. CASE Appendable(o) /\ events' = Append(events, EventOf(o)) /\ Advance(o)
    <2>1. PICK e : e = EventOf(o)
      OBVIOUS
    <2>2. /\ e.next = w.next /\ e.payload = w.payload
          /\ w.previous = LastState(events) /\ MayFollow(events, e.next)
          /\ events' = Append(events, e)
      BY <1>3, <1>7, <2>1 DEF Appendable, EventOf
    <2>3. StateFits(list, 1)
      BY <1>2, <1>3 DEF StepFits
    <2>4. Keeps /\ JournalFits'
      BY <1>2, <1>3, <1>4, <2>2, <2>3, JournalGrows
    <2>5. FilesFit'
      BY <1>4, <2>4, FilesStill
    <2>6. ListFits(list)'
      BY <1>3, <2>4, KeepsList
    <2>7. PICK rest : rest = Tail(list)
      OBVIOUS
    <2>8. ListFits(rest)' /\ (rest # <<>> => rest[1].do # "fill")
      BY <1>2, <1>3, <2>6, <2>7, RestFits
    <2>9. Moves(o, rest)
      BY <1>3, <1>7, <2>7, TodoMoves DEF Advance
    <2>10. FillsAlone'
      BY <1>4, <2>8, <2>9, FillsAfter
    <2> QED
      BY <2>4, <2>5, <2>8, <2>9, <2>10, Assemble
  <1> QED
    BY <1>5, <1>6, <1>7 DEF AppendEvent

----------------------------------------------------------------------------
(* Calls that begin, and steps that give a call another list.              *)

LEMMA CallKeeps ==
    ASSUME RunInv, NEW o \in Operators, NEW list, ListFits(list),
           list # <<>> => list[1].do # "fill", Call(o, list)
    PROVE  RunInv'
  <1>1. /\ file' = file /\ events' = events /\ swaps' = swaps /\ faults' \in Nat
        /\ Moves(o, list)
    BY DEF Call, Moves, RunInv, FilesFit
  <1>2. ListFits(list)'
    BY <1>1, UnchangedKeeps, KeepsList
  <1> QED
    BY <1>1, <1>2, ListMoves

LEMMA TodoKeeps ==
    ASSUME RunInv, NEW o \in Operators, NEW list, ListFits(list),
           list # <<>> => list[1].do # "fill", Todo(o, list),
           file' = file, events' = events, faults' = faults, swaps' = swaps
    PROVE  RunInv'
  <1>1. faults' \in Nat /\ Moves(o, list)
    BY TodoMoves DEF RunInv, FilesFit
  <1>2. ListFits(list)'
    BY UnchangedKeeps, KeepsList
  <1> QED
    BY <1>1, <1>2, ListMoves

LEMMA OneStep ==
    ASSUME NEW list, NEW a, list = <<a>>
    PROVE  IsList(list) /\ DOMAIN list = {1} /\ list # <<>> /\ list[1] = a
  <1>1. list \in Seq({a})
    OBVIOUS
  <1>2. IsList(list)
    BY <1>1, ListOf
  <1> QED
    BY <1>2

LEMMA TwoSteps ==
    ASSUME NEW list, NEW a, NEW b, list = <<a, b>>
    PROVE  /\ IsList(list) /\ DOMAIN list = {1, 2} /\ list # <<>>
           /\ list[1] = a /\ list[2] = b
  <1>1. list \in Seq({a, b})
    OBVIOUS
  <1>2. IsList(list)
    BY <1>1, ListOf
  <1> QED
    BY <1>2

LEMMA ThreeSteps ==
    ASSUME NEW list, NEW a, NEW b, NEW c, list = <<a, b, c>>
    PROVE  /\ IsList(list) /\ DOMAIN list = {1, 2, 3} /\ list # <<>>
           /\ list[1] = a /\ list[2] = b /\ list[3] = c
  <1>1. list \in Seq({a, b, c})
    OBVIOUS
  <1>2. IsList(list)
    BY <1>1, ListOf
  <1> QED
    BY <1>2

\* A writer, and a step that appends.
LEMMA WriteStep ==
    ASSUME NEW list, NEW k, NEW name \in FileNames \ Outside, NEW c, NEW style,
           list[k] = Write(name, c, style), Real(c),
           name \in {"request", "request.sha256", "reference-ingestion",
                     "reference-ingestion.sha256"} => style = "identical",
           name = "final-review-packet" => style = "once",
           name = "reference-ingestion" => GoodReceipt(c),
           name = "drawing-confirmation" =>
              /\ k + 1 \in DOMAIN list
              /\ list[k + 1].do = "append"
              /\ list[k + 1].next = "INPUT_CONFIRMATION_REQUIRED"
    PROVE  StepFits(list, k) /\ list[k].do # "fill"
  <1>1. /\ list[k].do = "write" /\ list[k].name = name /\ list[k].content = c
        /\ list[k].style = style
        /\ list[k] = [do |-> list[k].do, name |-> list[k].name, content |-> list[k].content,
                      style |-> list[k].style]
    BY DEF Write
  <1>2. WriteFits(list, k)
    BY <1>1 DEF WriteFits
  <1> QED
    BY <1>1, <1>2 DEF StepFits

LEMMA AppendStep ==
    ASSUME NEW list, NEW k, NEW rule, NEW next, NEW payload,
           list[k] = Append1(rule, next, payload), StateFits(list, k)
    PROVE  StepFits(list, k) /\ list[k].do # "fill"
  <1>1. list[k].do = "append"
    BY DEF Append1
  <1> QED
    BY <1>1 DEF StepFits

\* An event of the handoffs asks only that the run was ready to be evaluated.
LEMMA LateStep ==
    ASSUME NEW list, NEW k, NEW next \in LateStates, NEW payload,
           list[k] = Append1("skip", next, payload), Reached(4),
           \A i \in 1..3 : next # Stages[i]
    PROVE  StepFits(list, k) /\ list[k].do # "fill"
  <1>1. /\ list[k].do = "append" /\ list[k].next = next /\ list[k].rule = "skip"
        /\ list[k].payload = payload
    BY DEF Append1
  <1>2. StateFits(list, k)
    BY <1>1 DEF StateFits, LateStates
  <1> QED
    BY <1>1, <1>2 DEF StepFits

LEMMA LastEvent ==
    ASSUME RunInv, events # <<>>
    PROVE  /\ LoadsRequest /\ events[1].payload = file["request"]
           /\ \E n \in DOMAIN events : events[n].next = LastState(events) /\ EventFits(n)
  BY ListFacts DEF LastState, RunInv, JournalFits

\* PrepareEvents, ResumeReviewRun
LEMMA PrepareEventsKeeps ==
    ASSUME RunInv, NEW o \in Operators, PrepareEvents(o)
    PROVE  RunInv'
  <1>1. file' = file /\ events' = events /\ faults' = faults /\ swaps' = swaps /\ faults' \in Nat
    BY DEF PrepareEvents, RunInv, FilesFit
  <1>2. CASE Refuse(o)
    BY <1>1, <1>2, Refuses
  <1>3. ASSUME LoadsRequest,
               Todo(o, <<Append1("always", "RECEIVED", file["request"]),
                         Append1("always", "CLASSIFYING_INPUTS", file["request"]),
                         Append1("always", LaneOf(Frozen), file["request"])>>)
        PROVE  RunInv'
    <2>1. PICK list : list = <<Append1("always", "RECEIVED", file["request"]),
                               Append1("always", "CLASSIFYING_INPUTS", file["request"]),
                               Append1("always", LaneOf(Frozen), file["request"])>>
      OBVIOUS
    <2>2. /\ IsList(list) /\ DOMAIN list = {1, 2, 3}
          /\ list[1] = Append1("always", "RECEIVED", file["request"])
          /\ list[2] = Append1("always", "CLASSIFYING_INPUTS", file["request"])
          /\ list[3] = Append1("always", LaneOf(Frozen), file["request"])
      BY <2>1, ThreeSteps
    <2>3. StateFits(list, 1)
      <3>1. /\ list[1].do = "append" /\ list[1].next = "RECEIVED" /\ list[1].rule = "always"
            /\ list[1].payload = file["request"]
        BY <2>2 DEF Append1
      <3> QED
        BY <1>3, <3>1, InsideNames DEF StateFits, LateStates
    <2>4. StateFits(list, 2)
      <3>1. /\ list[2].do = "append" /\ list[2].next = "CLASSIFYING_INPUTS"
            /\ list[2].rule = "always"
        BY <2>2 DEF Append1
      <3> QED
        BY <3>1, InsideNames DEF StateFits, LateStates
    <2>5. StateFits(list, 3)
      <3>1. /\ list[3].do = "append" /\ list[3].next = LaneOf(Frozen)
            /\ list[3].rule = "always" /\ list[3].payload = file["request"]
        BY <2>2 DEF Append1
      <3>2. /\ LaneOf(Frozen) \in {"ROLE_CONFIRMATION_REQUIRED", "PENDING_REFERENCE_INGESTION",
                                   "PENDING_DRAWING_INGESTION", "READY_TO_EVALUATE"}
            /\ LaneOf(Frozen) # "ROLE_CONFIRMATION_REQUIRED" => RolesKnown
            /\ LaneOf(Frozen) \in {"PENDING_DRAWING_INGESTION", "READY_TO_EVALUATE"} =>
                  References(Frozen) = {}
            /\ LaneOf(Frozen) = "PENDING_DRAWING_INGESTION" => Drawings(Frozen) # {}
            /\ LaneOf(Frozen) = "READY_TO_EVALUATE" => Drawings(Frozen) = {}
        BY <1>3 DEF LaneOf, RolesKnown
      <3> QED
        BY <3>1, <3>2, InsideNames DEF StateFits, LateStates, CarriesReceipt
    <2>6. ListFits(list) /\ list[1].do # "fill"
      BY <2>2, <2>3, <2>4, <2>5, AppendStep DEF ListFits
    <2> QED
      BY <1>1, <1>3, <2>1, <2>6, TodoKeeps
  <1> QED
    BY <1>2, <1>3 DEF PrepareEvents

LEMMA ResumeKeeps ==
    ASSUME RunInv, NEW o \in Operators, ResumeReviewRun(o)
    PROVE  RunInv'
  <1>1. PICK receipt : receipt = file["reference-ingestion"]
    OBVIOUS
  <1>2. PICK lane : lane = IF Drawings(Frozen) # {} THEN "PENDING_DRAWING_INGESTION"
                           ELSE "READY_TO_EVALUATE"
    OBVIOUS
  <1>3. PICK list : list = <<Append1("always", "CLASSIFYING_INPUTS", receipt),
                             Append1("always", lane, receipt)>>
    OBVIOUS
  <1>4. /\ IsList(list) /\ DOMAIN list = {1, 2}
        /\ list[1] = Append1("always", "CLASSIFYING_INPUTS", receipt)
        /\ list[2] = Append1("always", lane, receipt)
    BY <1>3, TwoSteps
  <1>5. LastState(events) = "PENDING_REFERENCE_INGESTION" /\ events # <<>> /\ Call(o, list)
    BY <1>1, <1>2, <1>3 DEF ResumeReviewRun, LoadsState
  <1>6. RolesKnown
    BY <1>5, LastEvent DEF EventFits
  <1>7. CarriesReceipt(receipt)
    BY <1>1 DEF ResumeReviewRun, LoadsReceipt, RunInv, FilesFit, Real, CarriesReceipt
  <1>8. StateFits(list, 1)
    <2>1. /\ list[1].do = "append" /\ list[1].next = "CLASSIFYING_INPUTS"
          /\ list[1].rule = "always"
      BY <1>4 DEF Append1
    <2> QED
      BY <2>1, InsideNames DEF StateFits, LateStates
  <1>9. StateFits(list, 2)
    <2>1. /\ list[2].do = "append" /\ list[2].next = lane
          /\ list[2].rule = "always" /\ list[2].payload = receipt
      BY <1>4 DEF Append1
    <2> QED
      BY <1>2, <1>6, <1>7, <2>1, InsideNames DEF StateFits, LateStates
  <1>10. ListFits(list) /\ list[1].do # "fill"
    BY <1>4, <1>8, <1>9, AppendStep DEF ListFits
  <1> QED
    BY <1>5, <1>10, CallKeeps

LEMMA IngestKeeps ==
    ASSUME RunInv, NEW o \in Operators, IngestPendingReferences(o)
    PROVE  RunInv'
  <1>1. PICK list : list = <<Then("import")>>
    OBVIOUS
  <1>2. IsList(list) /\ DOMAIN list = {1} /\ list[1] = Then("import")
    BY <1>1, OneStep
  <1>3. LoadsRequest /\ events # <<>> /\ Call(o, list)
    BY <1>1 DEF IngestPendingReferences, LoadsState
  <1>4. list[1].do = "import"
    BY <1>2 DEF Then
  <1>5. ListFits(list)
    BY <1>2, <1>3, <1>4 DEF ListFits, StepFits
  <1> QED
    BY <1>3, <1>4, <1>5, CallKeeps

\* Where the database is made, nothing was before.
LEMMA ImportKeeps ==
    ASSUME RunInv, NEW o \in Operators, ImportReferences(o)
    PROVE  RunInv'
  <1>1. PICK list : list = op[o].todo
    OBVIOUS
  <1>2. /\ list # <<>> /\ Head(op[o].todo) = list[1] /\ CallsFit /\ StepFits(list, 1) /\ ~Idle(o)
        /\ list[1].do = "import"
    BY <1>1, CallFacts DEF ImportReferences, At
  <1>3. LoadsRequest /\ events # <<>>
    BY <1>2 DEF StepFits
  <1>4. events' = events /\ faults' = faults /\ swaps' = swaps /\ faults' \in Nat /\ swaps' \in Nat
    BY DEF ImportReferences, RunInv, FilesFit
  <1>5. PICK hashes : hashes = {store[i] : i \in References(Frozen)}
    OBVIOUS
  <1>6. CASE Refuse(o) /\ UNCHANGED file
    BY <1>4, <1>6, Refuses
  <1>7. ASSUME file["evidence.sqlite"] = NoFile,
               file' = [file EXCEPT !["evidence.sqlite"] = Doc("db", hashes)],
               Todo(o, <<[do |-> "result", hashes |-> hashes]>>)
        PROVE  RunInv'
    <2>1. /\ "evidence.sqlite" \in FileNames /\ "evidence.sqlite" \in Outside
          /\ "reference-ingestion" # "evidence.sqlite"
          /\ "reference-ingestion" \in FileNames
      BY DEF FileNames, Outside
    <2>2. /\ file'["evidence.sqlite"] = Doc("db", hashes)
          /\ \A n \in FileNames : n # "evidence.sqlite" => file'[n] = file[n]
          /\ file' = [n \in FileNames |-> file'[n]]
      BY <1>7, <2>1 DEF RunInv, FilesFit
    <2>3. Keeps
      BY <1>4, <1>7, <2>1, <2>2, InsideNames DEF Keeps, Outside, RunInv, JournalFits
    <2>4. LoadsRequest'
      BY <1>3, <2>3, KeepsRequest
    <2>5. PICK receipt : receipt = file["reference-ingestion"]
      OBVIOUS
    <2>6. Real(receipt) => GoodReceipt(receipt)'
      BY <2>3, <2>5, KeepsReceipt DEF RunInv, FilesFit
    <2>7. Real(file["reference-ingestion"])' => GoodReceipt(file["reference-ingestion"])'
      <3>1. file'["reference-ingestion"] = receipt
        BY <2>1, <2>2, <2>5
      <3>2. Real(file["reference-ingestion"])' = Real(receipt)
        BY <3>1 DEF Real
      <3>3. GoodReceipt(receipt)' => GoodReceipt(file["reference-ingestion"])'
        BY <3>1
      <3> QED
        BY <2>6, <3>2, <3>3
    <2>8. \A n \in Outside : file'[n] # Torn
      BY <2>1, <2>2, DocReal, InsideNames DEF Real, RunInv, FilesFit
    <2>9. FilesFit'
      BY <1>3, <1>4, <2>2, <2>4, <2>7, <2>8 DEF FilesFit
    <2>10. PICK new : new = <<[do |-> "result", hashes |-> hashes]>>
      OBVIOUS
    <2>11. IsList(new) /\ DOMAIN new = {1} /\ new[1].do = "result" /\ new[1].hashes = hashes
      <3>1. IsList(new) /\ DOMAIN new = {1} /\ new[1] = [do |-> "result", hashes |-> hashes]
        BY <2>10, OneStep
      <3> QED
        BY <3>1
    <2>12. StepFits(new, 1)'
      BY <2>2, <2>4, <2>11 DEF StepFits
    <2>13. ListFits(new)'
      BY <2>11, <2>12 DEF ListFits
    <2>14. Moves(o, new)
      BY <1>2, <1>7, <2>10, TodoMoves
    <2>15. FillsAlone'
      <3>1. \A n \in FileNames : file[n] = Torn => file'[n] = Torn
        BY <1>7, <2>2 DEF NoFile, Torn
      <3> QED
        BY <2>11, <2>14, <3>1, FillsAfter
    <2> QED
      BY <1>4, <2>3, <2>9, <2>13, <2>14, <2>15, JournalStill, Assemble
  <1> QED
    BY <1>5, <1>6, <1>7 DEF ImportReferences

\* The hashes of a report that covers the request are the hashes of its references.
LEMMA CoveredHashes ==
    ASSUME NEW r, NEW hashes, \A s \in SourcesOf(r, hashes) : s.ids # {},
           Covers(r, SourcesOf(r, hashes))
    PROVE  hashes = {r.hash[i] : i \in References(r)}
  <1> DEFINE Source(h) == [hash |-> h, ids |-> {i \in References(r) : r.hash[i] = h},
                           names |-> {r.name[i] : i \in {j \in References(r) : r.hash[j] = h}}]
  <1>1. \A h \in hashes : Source(h) \in SourcesOf(r, hashes)
    BY DEF SourcesOf
  <1>2. \A h : Source(h).ids = {i \in References(r) : r.hash[i] = h}
    OBVIOUS
  <1>3. \A h \in hashes : \E i \in References(r) : r.hash[i] = h
    BY <1>1, <1>2
  <1>4. \A s \in SourcesOf(r, hashes) : \E h \in hashes : s = Source(h)
    BY DEF SourcesOf
  <1>5. ASSUME NEW i \in References(r) PROVE r.hash[i] \in hashes
    <2>1. PICK s \in SourcesOf(r, hashes) : i \in s.ids
      BY DEF Covers
    <2>2. PICK h \in hashes : s = Source(h)
      BY <1>4
    <2> QED
      BY <1>2, <2>1, <2>2
  <1> QED
    BY <1>3, <1>5

LEMMA MakeReceiptKeeps ==
    ASSUME RunInv, NEW o \in Operators, MakeReceipt(o)
    PROVE  RunInv'
  <1>1. PICK list : list = op[o].todo
    OBVIOUS
  <1>2. /\ list # <<>> /\ Head(op[o].todo) = list[1] /\ CallsFit /\ StepFits(list, 1) /\ ~Idle(o)
        /\ list[1].do = "result"
    BY <1>1, CallFacts DEF MakeReceipt, At
  <1>3. PICK hashes : hashes = list[1].hashes
    OBVIOUS
  <1>4. /\ LoadsRequest
        /\ \/ file["evidence.sqlite"] = Doc("db", hashes)
           \/ file["evidence.sqlite"] = ForeignDb /\ swaps > 0
    BY <1>2, <1>3 DEF StepFits
  <1>5. /\ file' = file /\ events' = events /\ faults' = faults /\ swaps' = swaps
        /\ faults' \in Nat
    BY DEF MakeReceipt, RunInv, FilesFit
  <1>6. PICK receipt : receipt = Receipt(Frozen, file["evidence.sqlite"], SourcesOf(Frozen, hashes))
    OBVIOUS
  <1>7. CASE Refuse(o)
    BY <1>5, <1>7, Refuses
  <1>8. ASSUME \A s \in SourcesOf(Frozen, hashes) : s.ids # {},
               Covers(Frozen, SourcesOf(Frozen, hashes)),
               Todo(o, <<[do |-> "rehash", receipt |-> receipt]>>)
        PROVE  RunInv'
    <2>1. hashes = {Frozen.hash[i] : i \in References(Frozen)}
      BY <1>8, CoveredHashes
    <2>2. /\ receipt.kind = "receipt" /\ receipt.request = Frozen
          /\ receipt.db = file["evidence.sqlite"]
      BY <1>6 DEF Receipt
    <2>3. Real(receipt)
      BY <2>2 DEF Real, NoFile, Torn
    <2>4. GoodReceipt(receipt)
      BY <1>4, <2>1, <2>2, <2>3 DEF GoodReceipt
    <2>5. PICK new : new = <<[do |-> "rehash", receipt |-> receipt]>>
      OBVIOUS
    <2>6. IsList(new) /\ DOMAIN new = {1} /\ new[1] = [do |-> "rehash", receipt |-> receipt]
      BY <2>5, OneStep
    <2>7. new[1].do = "rehash" /\ new[1].receipt = receipt
      BY <2>6
    <2>8. ListFits(new)
      BY <2>4, <2>6, <2>7 DEF ListFits, StepFits
    <2> QED
      BY <1>5, <1>8, <2>5, <2>7, <2>8, TodoKeeps
  <1> QED
    BY <1>2, <1>3, <1>6, <1>7, <1>8 DEF MakeReceipt

LEMMA PersistKeeps ==
    ASSUME RunInv, NEW o \in Operators, PersistReceipt(o)
    PROVE  RunInv'
  <1>1. PICK list : list = op[o].todo
    OBVIOUS
  <1>2. /\ list # <<>> /\ Head(op[o].todo) = list[1] /\ CallsFit /\ StepFits(list, 1) /\ ~Idle(o)
        /\ list[1].do = "rehash"
    BY <1>1, CallFacts DEF PersistReceipt, At
  <1>3. PICK receipt : receipt = list[1].receipt
    OBVIOUS
  <1>4. GoodReceipt(receipt)
    BY <1>2, <1>3 DEF StepFits
  <1>5. /\ file' = file /\ events' = events /\ faults' = faults /\ swaps' = swaps
        /\ faults' \in Nat
    BY DEF PersistReceipt, RunInv, FilesFit
  <1>6. PICK new : new = <<Write("reference-ingestion", receipt, "identical"),
                           Write("reference-ingestion.sha256", Doc("sha", receipt), "identical")>>
    OBVIOUS
  <1>7. CASE Refuse(o)
    BY <1>5, <1>7, Refuses
  <1>8. CASE Todo(o, new)
    <2>1. /\ IsList(new) /\ DOMAIN new = {1, 2}
          /\ new[1] = Write("reference-ingestion", receipt, "identical")
          /\ new[2] = Write("reference-ingestion.sha256", Doc("sha", receipt), "identical")
      BY <1>6, TwoSteps
    <2>2. Real(receipt)
      BY <1>4 DEF GoodReceipt
    <2>3. StepFits(new, 1) /\ new[1].do # "fill"
      BY <1>4, <2>1, <2>2, WriteStep, InsideNames
    <2>4. StepFits(new, 2)
      <3>1. Real(Doc("sha", receipt))
        BY DocReal
      <3> QED
        BY <2>1, <3>1, WriteStep, InsideNames
    <2>5. ListFits(new)
      BY <2>1, <2>3, <2>4 DEF ListFits
    <2> QED
      BY <1>5, <1>8, <2>3, <2>5, TodoKeeps
  <1> QED
    BY <1>2, <1>3, <1>6, <1>7, <1>8 DEF PersistReceipt

LEMMA HashKeeps ==
    ASSUME RunInv, NEW o \in Operators, HashConfirmedInputs(o)
    PROVE  RunInv'
  <1>1. PICK list : list = op[o].todo
    OBVIOUS
  <1>2. /\ list # <<>> /\ Head(op[o].todo) = list[1] /\ CallsFit /\ StepFits(list, 1) /\ ~Idle(o)
        /\ list[1].do = "confirmed"
    BY <1>1, CallFacts DEF HashConfirmedInputs, At
  <1>3. PICK inputs : inputs = file["confirmed-inputs"]
    OBVIOUS
  <1>4. Paused /\ (ValidInputs(inputs, Frozen) \/ swaps > 0)
    BY <1>2, <1>3 DEF StepFits
  <1>5. RolesKnown
    BY <1>4 DEF Paused, RunInv, JournalFits, EventFits
  <1>6. PICK new : new = <<Append1("always", "READY_TO_EVALUATE", inputs)>>
    OBVIOUS
  <1>7. /\ IsList(new) /\ DOMAIN new = {1}
        /\ new[1] = Append1("always", "READY_TO_EVALUATE", inputs)
    BY <1>6, OneStep
  <1>8. StateFits(new, 1)
    <2>1. /\ new[1].do = "append" /\ new[1].next = "READY_TO_EVALUATE"
          /\ new[1].rule = "always" /\ new[1].payload = inputs
      BY <1>7 DEF Append1
    <2> QED
      BY <1>4, <1>5, <2>1, InsideNames DEF StateFits, LateStates
  <1>9. ListFits(new) /\ new[1].do # "fill"
    BY <1>7, <1>8, AppendStep DEF ListFits
  <1>10. /\ file' = file /\ events' = events /\ faults' = faults /\ swaps' = swaps
         /\ Todo(o, new)
    BY <1>3, <1>6 DEF HashConfirmedInputs
  <1> QED
    BY <1>9, <1>10, TodoKeeps

LEMMA PrepareKeeps ==
    ASSUME RunInv, NEW o \in Operators, NEW r, Prepare(o, r)
    PROVE  RunInv'
  <1>1. PICK list : list = <<Write("request", Doc("request", r), "identical"),
                             Write("request.sha256", Doc("sha", Doc("request", r)), "identical"),
                             Then("prepare")>>
    OBVIOUS
  <1>2. /\ IsList(list) /\ DOMAIN list = {1, 2, 3}
        /\ list[1] = Write("request", Doc("request", r), "identical")
        /\ list[2] = Write("request.sha256", Doc("sha", Doc("request", r)), "identical")
        /\ list[3] = Then("prepare")
    BY <1>1, ThreeSteps
  <1>3. Call(o, list)
    BY <1>1 DEF Prepare
  <1>4. StepFits(list, 1) /\ list[1].do # "fill"
    <2>1. Real(Doc("request", r))
      BY DocReal
    <2> QED
      BY <1>2, <2>1, WriteStep, InsideNames
  <1>5. StepFits(list, 2)
    <2>1. Real(Doc("sha", Doc("request", r)))
      BY DocReal
    <2> QED
      BY <1>2, <2>1, WriteStep, InsideNames
  <1>6. StepFits(list, 3)
    <2>1. list[3].do = "prepare"
      BY <1>2 DEF Then
    <2> QED
      BY <2>1 DEF StepFits
  <1>7. ListFits(list)
    BY <1>2, <1>4, <1>5, <1>6 DEF ListFits
  <1> QED
    BY <1>3, <1>4, <1>7, CallKeeps

LEMMA StartKeeps ==
    ASSUME RunInv, NEW o \in Operators, NEW candidates, StartDrawingConfirmation(o, candidates)
    PROVE  RunInv'
  <1>1. PICK plan : plan = Plan(candidates)
    OBVIOUS
  <1>2. PICK list : list = <<Write("drawing-confirmation", plan, "exclusive"),
                             Append1("plan", "INPUT_CONFIRMATION_REQUIRED", plan)>>
    OBVIOUS
  <1>3. /\ IsList(list) /\ DOMAIN list = {1, 2}
        /\ list[1] = Write("drawing-confirmation", plan, "exclusive")
        /\ list[2] = Append1("plan", "INPUT_CONFIRMATION_REQUIRED", plan)
    BY <1>2, TwoSteps
  <1>4. Call(o, list)
    BY <1>1, <1>2 DEF StartDrawingConfirmation
  <1>5. Real(plan)
    BY <1>1, DocReal DEF Plan
  <1>6. /\ list[2].do = "append" /\ list[2].next = "INPUT_CONFIRMATION_REQUIRED"
        /\ list[2].rule = "plan" /\ list[2].payload = plan
    BY <1>3 DEF Append1
  <1>7. StepFits(list, 1) /\ list[1].do # "fill"
    <2>1. 1 + 1 \in DOMAIN list /\ 1 + 1 = 2
      BY <1>3
    <2> QED
      BY <1>3, <1>5, <1>6, <2>1, WriteStep, InsideNames
  <1>8. StateFits(list, 2)
    <2>1. list[1].do = "write" /\ list[1].name = "drawing-confirmation" /\ list[1].content = plan
      BY <1>3 DEF Write
    <2>2. Settles(list, 2, "drawing-confirmation", plan)
      BY <1>5, <2>1 DEF Settles
    <2> QED
      BY <1>6, <2>2, InsideNames DEF StateFits, LateStates
  <1>9. ListFits(list)
    BY <1>3, <1>7, <1>8, AppendStep DEF ListFits
  <1> QED
    BY <1>4, <1>7, <1>9, CallKeeps

LEMMA ConfirmationKeeps ==
    ASSUME RunInv, NEW o \in Operators, ResumeAfterConfirmation(o)
    PROVE  RunInv'
  <1>1. PICK list : list = <<Then("confirmed")>>
    OBVIOUS
  <1>2. IsList(list) /\ DOMAIN list = {1} /\ list[1] = Then("confirmed")
    BY <1>1, OneStep
  <1>3. /\ LastState(events) = "INPUT_CONFIRMATION_REQUIRED" /\ events # <<>>
        /\ ValidInputs(file["confirmed-inputs"], Frozen) /\ Call(o, list)
    BY <1>1 DEF ResumeAfterConfirmation, LoadsState
  <1>4. list[1].do = "confirmed"
    BY <1>2 DEF Then
  <1>5. Paused
    BY <1>3, LastEvent DEF Paused
  <1>6. ListFits(list)
    BY <1>2, <1>3, <1>4, <1>5 DEF ListFits, StepFits
  <1> QED
    BY <1>3, <1>4, <1>6, CallKeeps

\* A run whose last event is an engine's or later has been ready to be evaluated.
LEMMA LateRun ==
    ASSUME RunInv, events # <<>>,
           LastState(events) \in {"READY_TO_EVALUATE", "RETRIEVING_EVIDENCE", "RUNNING_MATH",
                                  "RUNNING_RULES", "WAITING_TRACK_A", "WAITING_TRACK_B",
                                  "FINALIZING"}
    PROVE  Reached(4)
  <1>1. Rank(LastState(events)) \in 4 .. 10
    BY DEF Rank
  <1>2. Rank(LastState(events)) >= 4
    BY <1>1
  <1> QED
    BY <1>2, LastEvent DEF Reached

LEMMA TrackBKeeps ==
    ASSUME RunInv, NEW o \in Operators, NEW trackA, AdvanceToTrackB(o, trackA)
    PROVE  RunInv'
  <1>1. PICK list :
          list = <<Write("track-a-validation", Doc("validation", trackA), "stage"),
                   Append1("skip", "WAITING_TRACK_B", Doc("validation", trackA)),
                   Write("next-action-track-b", Doc("action", "PRODUCE_TRACK_B"), "stage")>>
    OBVIOUS
  <1>2. /\ IsList(list) /\ DOMAIN list = {1, 2, 3}
        /\ list[1] = Write("track-a-validation", Doc("validation", trackA), "stage")
        /\ list[2] = Append1("skip", "WAITING_TRACK_B", Doc("validation", trackA))
        /\ list[3] = Write("next-action-track-b", Doc("action", "PRODUCE_TRACK_B"), "stage")
    BY <1>1, ThreeSteps
  <1>3. Call(o, list) /\ Reached(4)
    BY <1>1, LateRun DEF AdvanceToTrackB, LoadsState
  <1>4. StepFits(list, 1) /\ list[1].do # "fill"
    <2>1. Real(Doc("validation", trackA))
      BY DocReal
    <2> QED
      BY <1>2, <2>1, WriteStep, InsideNames
  <1>5. StepFits(list, 2)
    <2>1. \A i \in 1..3 : "WAITING_TRACK_B" # Stages[i]
      BY InsideNames
    <2>2. "WAITING_TRACK_B" \in LateStates
      BY DEF LateStates
    <2> QED
      BY <1>2, <1>3, <2>1, <2>2, LateStep
  <1>6. StepFits(list, 3)
    <2>1. Real(Doc("action", "PRODUCE_TRACK_B"))
      BY DocReal
    <2> QED
      BY <1>2, <2>1, WriteStep, InsideNames
  <1>7. ListFits(list)
    BY <1>2, <1>4, <1>5, <1>6 DEF ListFits
  <1> QED
    BY <1>3, <1>4, <1>7, CallKeeps

LEMMA AcceptanceKeeps ==
    ASSUME RunInv, NEW o \in Operators, NEW trackB, NEW accept,
           RequireTrackBAcceptance(o, trackB, accept)
    PROVE  RunInv'
  <1>1. PICK next : next = IF accept THEN "FINALIZING" ELSE "BLOCKED"
    OBVIOUS
  <1>2. PICK list : list = <<Append1("skip", next, Doc("track-b", trackB))>>
    OBVIOUS
  <1>3. /\ IsList(list) /\ DOMAIN list = {1}
        /\ list[1] = Append1("skip", next, Doc("track-b", trackB))
    BY <1>2, OneStep
  <1>4. Call(o, list) /\ Reached(4)
    BY <1>1, <1>2, LateRun DEF RequireTrackBAcceptance, LoadsState
  <1>5. next \in LateStates /\ \A i \in 1..3 : next # Stages[i]
    BY <1>1, InsideNames DEF LateStates
  <1>6. ListFits(list) /\ list[1].do # "fill"
    BY <1>3, <1>4, <1>5, LateStep DEF ListFits
  <1> QED
    BY <1>4, <1>6, CallKeeps

LEMMA FinalizeKeeps ==
    ASSUME RunInv, NEW o \in Operators, NEW status, FinalizeOrchestrationRun(o, status)
    PROVE  RunInv'
  <1>1. PICK write : write = Write("final-review-packet", Doc("packet", status), "once")
    OBVIOUS
  <1>2. PICK event : event = Append1("skip", "READY_FOR_REVIEW", Doc("packet", status))
    OBVIOUS
  <1>3. Reached(4) /\ (Call(o, <<write>>) \/ Call(o, <<write, event>>))
    BY <1>1, <1>2, LateRun DEF FinalizeOrchestrationRun, LoadsState
  <1>4. Real(Doc("packet", status))
    BY DocReal
  <1>5. ASSUME NEW list, list = <<write>> \/ list = <<write, event>>
        PROVE  ListFits(list) /\ list[1].do # "fill"
    <2>1. /\ IsList(list) /\ list[1] = write
          /\ DOMAIN list = {1} \/ (DOMAIN list = {1, 2} /\ list[2] = event)
      BY <1>5, OneStep, TwoSteps
    <2>2. StepFits(list, 1) /\ list[1].do # "fill"
      BY <1>1, <1>4, <2>1, WriteStep, InsideNames
    <2>3. "READY_FOR_REVIEW" \in LateStates /\ \A i \in 1..3 : "READY_FOR_REVIEW" # Stages[i]
      BY InsideNames DEF LateStates
    <2>4. list[2] = event => StepFits(list, 2)
      BY <1>2, <1>3, <2>3, LateStep
    <2> QED
      BY <2>1, <2>2, <2>4 DEF ListFits
  <1>6. PICK list : (list = <<write>> \/ list = <<write, event>>) /\ Call(o, list)
    BY <1>3
  <1> QED
    BY <1>5, <1>6, CallKeeps

\* The steps of the engine stages, and the rest of them once some are recorded.
LEMMA StageList ==
    ASSUME NEW document, NEW done \in 0 .. 3, NEW list,
           list = SubSeq(StageSteps(document), 2 * done + 1, 8)
    PROVE  /\ IsList(list) /\ DOMAIN list = 1 .. (8 - 2 * done)
           /\ \A i \in 1 .. 3 : i > done =>
                /\ 2 * (i - done) - 1 \in DOMAIN list /\ 2 * (i - done) \in DOMAIN list
                /\ list[2 * (i - done) - 1] = Write(Stages[i], document[i], "stage")
                /\ list[2 * (i - done)] = Append1("skip", Stages[i], document[i])
           /\ list[7 - 2 * done] = Append1("skip", "WAITING_TRACK_A", document[3])
           /\ list[8 - 2 * done] = Write("next-action", Doc("action", "PRODUCE_TRACK_A"), "stage")
  <1>1. PICK all : all = StageSteps(document)
    OBVIOUS
  <1>2. /\ all[1] = Write(Stages[1], document[1], "stage")
        /\ all[2] = Append1("skip", Stages[1], document[1])
        /\ all[3] = Write(Stages[2], document[2], "stage")
        /\ all[4] = Append1("skip", Stages[2], document[2])
        /\ all[5] = Write(Stages[3], document[3], "stage")
        /\ all[6] = Append1("skip", Stages[3], document[3])
        /\ all[7] = Append1("skip", "WAITING_TRACK_A", document[3])
        /\ all[8] = Write("next-action", Doc("action", "PRODUCE_TRACK_A"), "stage")
    BY <1>1 DEF StageSteps
  <1>3. PICK first : first = 2 * done + 1
    OBVIOUS
  <1>4. first \in 1 .. 7 /\ first \in Int /\ 8 \in Int
    BY <1>3
  <1>5. PICK S : S = {all[i] : i \in first .. 8}
    OBVIOUS
  <1>6. \A i \in first .. 8 : all[i] \in S
    BY <1>5
  <1>7. /\ SubSeq(all, first, 8) \in Seq(S)
        /\ Len(SubSeq(all, first, 8)) = IF first <= 8 THEN 8 - first + 1 ELSE 0
        /\ \A i \in 1 .. 8 - first + 1 : SubSeq(all, first, 8)[i] = all[first + i - 1]
    BY <1>4, <1>6, SubSeqProperties
  <1>8. list \in Seq(S) /\ Len(list) = 8 - 2 * done
        /\ \A i \in 1 .. 8 - 2 * done : list[i] = all[2 * done + i]
    <2>1. list = SubSeq(all, first, 8)
      BY <1>1, <1>3
    <2>2. 8 - first + 1 = 8 - 2 * done /\ first <= 8
      BY <1>3
    <2>3. \A i \in 1 .. 8 - 2 * done : first + i - 1 = 2 * done + i
      BY <1>3
    <2> QED
      BY <1>7, <2>1, <2>2, <2>3
  <1>9. IsList(list)
    BY <1>8, ListOf
  <1>10. DOMAIN list = 1 .. (8 - 2 * done)
    BY <1>8
  <1>11. ASSUME NEW i \in 1 .. 3, i > done
         PROVE  /\ 2 * (i - done) - 1 \in 1 .. 8 - 2 * done /\ 2 * (i - done) \in 1 .. 8 - 2 * done
                /\ list[2 * (i - done) - 1] = Write(Stages[i], document[i], "stage")
                /\ list[2 * (i - done)] = Append1("skip", Stages[i], document[i])
    <2>1. /\ 2 * (i - done) - 1 \in 1 .. 8 - 2 * done /\ 2 * (i - done) \in 1 .. 8 - 2 * done
          /\ 2 * done + (2 * (i - done) - 1) = 2 * i - 1
          /\ 2 * done + 2 * (i - done) = 2 * i
      BY <1>11
    <2>2. list[2 * (i - done) - 1] = all[2 * i - 1] /\ list[2 * (i - done)] = all[2 * i]
      BY <1>8, <2>1
    <2>3. \/ i = 1 /\ 2 * i - 1 = 1 /\ 2 * i = 2
          \/ i = 2 /\ 2 * i - 1 = 3 /\ 2 * i = 4
          \/ i = 3 /\ 2 * i - 1 = 5 /\ 2 * i = 6
      OBVIOUS
    <2> QED
      BY <1>2, <2>1, <2>2, <2>3
  <1>12. list[7 - 2 * done] = all[7] /\ list[8 - 2 * done] = all[8]
    <2>1. /\ 7 - 2 * done \in 1 .. 8 - 2 * done /\ 8 - 2 * done \in 1 .. 8 - 2 * done
          /\ 2 * done + (7 - 2 * done) = 7 /\ 2 * done + (8 - 2 * done) = 8
      OBVIOUS
    <2> QED
      BY <1>8, <2>1
  <1> QED
    BY <1>2, <1>9, <1>10, <1>11, <1>12

LEMMA DocumentFacts ==
    ASSUME NEW r, NEW payload, NEW document, document = Document(r, payload)
    PROVE  /\ \A i \in 1..3 : Real(document[i])
           /\ document[1].input = r
           /\ \A i \in 2..3 : document[i].input = document[i - 1]
  <1>1. \A i, input : StageDocument(i, input, payload).kind = "stage"
                      /\ StageDocument(i, input, payload).input = input
    BY DEF StageDocument
  <1>2. PICK first : first = StageDocument(1, r, payload)
    OBVIOUS
  <1>3. PICK second : second = StageDocument(2, first, payload)
    OBVIOUS
  <1>4. PICK third : third = StageDocument(3, second, payload)
    OBVIOUS
  <1>5. document[1] = first /\ document[2] = second /\ document[3] = third
    BY <1>2, <1>3, <1>4 DEF Document
  <1>6. first.input = r /\ second.input = first /\ third.input = second
    BY <1>1, <1>2, <1>3, <1>4
  <1>7. \A d : d.kind = "stage" => Real(d)
    BY DEF Real, NoFile, Torn
  <1>8. Real(first) /\ Real(second) /\ Real(third)
    BY <1>1, <1>2, <1>3, <1>4, <1>7
  <1> QED
    BY <1>5, <1>6, <1>8

LEMMA StagesKeep ==
    ASSUME RunInv, NEW o \in Operators, NEW payload, RunDeterministicStages(o, payload)
    PROVE  RunInv'
  <1>1. PICK done : done = CompletedCount(LastState(events))
    OBVIOUS
  <1>2. PICK request : request = file["request.sha256"].of
    OBVIOUS
  <1>3. PICK document : document = Document(request, payload)
    OBVIOUS
  <1>4. PICK list : list = SubSeq(StageSteps(document), 2 * done + 1, 8)
    OBVIOUS
  <1>5. /\ events # <<>> /\ Call(o, list) /\ done < 4
        /\ \A i \in 1..done : file[Stages[i]] = document[i]
    BY <1>1, <1>2, <1>3, <1>4 DEF RunDeterministicStages, LoadsState
  <1>6. /\ done \in 0 .. 3
        /\ LastState(events) \in {"READY_TO_EVALUATE", "RETRIEVING_EVIDENCE", "RUNNING_MATH",
                                  "RUNNING_RULES", "WAITING_TRACK_A"}
    BY <1>1, <1>5 DEF CompletedCount
  <1>7. Reached(4) /\ LoadsRequest
    BY <1>5, <1>6, LateRun, LastEvent
  <1>8. request = file["request"]
    BY <1>2, <1>7 DEF LoadsRequest, Doc
  <1>9. /\ \A i \in 1..3 : Real(document[i])
        /\ document[1].input = file["request"]
        /\ \A i \in 2..3 : document[i].input = document[i - 1]
    BY <1>3, <1>8, DocumentFacts
  <1>10. /\ IsList(list) /\ DOMAIN list = 1 .. (8 - 2 * done)
         /\ \A i \in 1 .. 3 : i > done =>
              /\ 2 * (i - done) - 1 \in DOMAIN list /\ 2 * (i - done) \in DOMAIN list
              /\ list[2 * (i - done) - 1] = Write(Stages[i], document[i], "stage")
              /\ list[2 * (i - done)] = Append1("skip", Stages[i], document[i])
         /\ list[7 - 2 * done] = Append1("skip", "WAITING_TRACK_A", document[3])
         /\ list[8 - 2 * done] = Write("next-action", Doc("action", "PRODUCE_TRACK_A"), "stage")
    BY ZenonT(60), <1>4, <1>6, StageList
  \* a stage's document is on disk, or an earlier step of the call puts it there
  <1>11. ASSUME NEW i \in 1..3, NEW k \in Nat, i > done => k > 2 * (i - done) - 1
         PROVE  Settles(list, k, Stages[i], document[i])
    <2>1. CASE i <= done
      <3>1. i \in 1..done
        BY <1>6, <2>1
      <3> QED
        BY <1>5, <1>9, <3>1 DEF Settles
    <2>2. CASE i > done
      <3>1. PICK j : j = 2 * (i - done) - 1
        OBVIOUS
      <3>2. j \in 1 .. (k - 1)
        BY <1>6, <1>11, <2>2, <3>1
      <3>3. list[j].do = "write" /\ list[j].name = Stages[i] /\ list[j].content = document[i]
        BY <1>10, <2>2, <3>1 DEF Write
      <3> QED
        BY <1>9, <3>2, <3>3 DEF Settles
    <2> QED
      BY <1>6, <2>1, <2>2
  <1>12. ASSUME NEW i \in 1..3, i > done
         PROVE  /\ StepFits(list, 2 * (i - done) - 1) /\ list[2 * (i - done) - 1].do # "fill"
                /\ StepFits(list, 2 * (i - done))
    <2>1. StepFits(list, 2 * (i - done) - 1) /\ list[2 * (i - done) - 1].do # "fill"
      <3>1. /\ Stages[i] \in FileNames \ Outside
            /\ Stages[i] \in {"RETRIEVING_EVIDENCE", "RUNNING_MATH", "RUNNING_RULES"}
        BY InsideNames
      <3>2. PICK j : j = 2 * (i - done) - 1
        OBVIOUS
      <3>3. list[j] = Write(Stages[i], document[i], "stage") /\ Real(document[i])
        BY <1>9, <1>10, <1>12, <3>2
      <3>4. StepFits(list, j) /\ list[j].do # "fill"
        BY <3>1, <3>3, WriteStep
      <3> QED
        BY <3>2, <3>4
    <2>2. PICK k : k = 2 * (i - done)
      OBVIOUS
    <2>3. k \in Nat /\ k > 2 * (i - done) - 1
      BY <1>6, <1>12, <2>2
    <2>4. /\ list[k].do = "append" /\ list[k].rule = "skip" /\ list[k].next = Stages[i]
          /\ list[k].payload = document[i]
      BY <1>10, <1>12, <2>2 DEF Append1
    <2>5. Settles(list, k, Stages[i], document[i])
      BY <1>11, <2>3
    <2>6. i # 1 => Settles(list, k, Stages[i - 1], document[i].input)
      <3>1. SUFFICES ASSUME i # 1 PROVE Settles(list, k, Stages[i - 1], document[i].input)
        OBVIOUS
      <3>2. /\ i - 1 \in 1..3 /\ i \in 2..3
            /\ (i - 1) > done => k > 2 * ((i - 1) - done) - 1
        BY <1>6, <2>2, <3>1
      <3> QED
        BY <1>9, <1>11, <2>3, <3>2
    <2>7. \A m \in 1..3 : Stages[m] = Stages[i] => m = i
      BY DEF Stages
    <2>8. StateFits(list, k)
      <3>1. Stages[i] \in {"RETRIEVING_EVIDENCE", "RUNNING_MATH", "RUNNING_RULES"}
        BY InsideNames
      <3>2. \A m \in 1..3 : list[k].next = Stages[m] =>
              /\ LoadsRequest
              /\ Settles(list, k, Stages[m], list[k].payload)
              /\ IF m = 1 THEN list[k].payload.input = file["request"]
                 ELSE Settles(list, k, Stages[m - 1], list[k].payload.input)
        BY <1>7, <1>9, <2>4, <2>5, <2>6, <2>7
      <3> QED
        BY <1>7, <2>4, <3>1, <3>2 DEF StateFits, LateStates
    <2>9. StepFits(list, k)
      <3>1. list[k] = Append1("skip", Stages[i], document[i])
        BY <1>10, <1>12, <2>2
      <3> QED
        BY <2>8, <3>1, AppendStep
    <2> QED
      BY <2>1, <2>2, <2>9
  <1>13. StepFits(list, 7 - 2 * done) /\ list[7 - 2 * done].do # "fill"
    <2>1. "WAITING_TRACK_A" \in LateStates /\ \A i \in 1..3 : "WAITING_TRACK_A" # Stages[i]
      BY InsideNames DEF LateStates
    <2> QED
      BY <1>7, <1>10, <2>1, LateStep
  <1>14. StepFits(list, 8 - 2 * done)
    <2>1. Real(Doc("action", "PRODUCE_TRACK_A"))
      BY DocReal
    <2>2. PICK j : j = 8 - 2 * done
      OBVIOUS
    <2>3. list[j] = Write("next-action", Doc("action", "PRODUCE_TRACK_A"), "stage")
      BY <1>10, <2>2
    <2>4. StepFits(list, j)
      BY <2>1, <2>3, WriteStep, InsideNames
    <2> QED
      BY <2>2, <2>4
  <1>15. \A k \in DOMAIN list :
           \/ \E i \in 1..3 : i > done /\ (k = 2 * (i - done) - 1 \/ k = 2 * (i - done))
           \/ k = 7 - 2 * done
           \/ k = 8 - 2 * done
    BY <1>6, <1>10
  <1>16. ListFits(list)
    BY <1>10, <1>12, <1>13, <1>14, <1>15 DEF ListFits
  <1>17. list[1].do # "fill"
    <2>1. CASE done = 3
      BY <1>13, <2>1
    <2>2. CASE done < 3
      <3>1. PICK i : i = done + 1
        OBVIOUS
      <3>2. i \in 1..3 /\ i > done /\ 2 * (i - done) - 1 = 1
        BY <1>6, <2>2, <3>1
      <3> QED
        BY <1>12, <3>2
    <2> QED
      BY <1>6, <2>1, <2>2
  <1> QED
    BY <1>5, <1>16, <1>17, CallKeeps

----------------------------------------------------------------------------
(* What happens around the calls, and the whole step.                      *)

LEMMA CrashKeeps ==
    ASSUME RunInv, NEW o \in Operators, Crash(o)
    PROVE  RunInv'
  <1>1. /\ Refuse(o) /\ file' = file /\ events' = events /\ swaps' = swaps /\ faults' \in Nat
    BY DEF Crash, RunInv, FilesFit
  <1> QED
    BY <1>1, Refuses

LEMMA OutsideKeeps ==
    ASSUME RunInv, Keeps, op' = op, events' = events, faults' = faults, swaps' \in Nat,
           \A n \in FileNames \ Outside : file'[n] = file[n],
           \A n \in Outside : file'[n] # Torn,
           file'["evidence.sqlite"] # NoFile => file["evidence.sqlite"] # NoFile
    PROVE  RunInv'
  <1>1. ASSUME NEW p \in Operators PROVE ListFits(op[p].todo)'
    <2>1. PICK list : list = op[p].todo
      OBVIOUS
    <2>2. ListFits(list)'
      BY <2>1, KeepsList DEF RunInv, CallsFit
    <2>3. op'[p].todo = list
      BY <2>1
    <2> QED
      BY <2>2, <2>3
  <1>2. CallsFit'
    BY <1>1 DEF RunInv, CallsFit
  <1>3. LoadsRequest => LoadsRequest'
    BY KeepsRequest
  <1>4. PICK receipt : receipt = file["reference-ingestion"]
    OBVIOUS
  <1>5. file'["reference-ingestion"] = receipt
    BY <1>4, InsideNames
  <1>6. Real(receipt) => GoodReceipt(receipt)'
    BY <1>4, KeepsReceipt DEF RunInv, FilesFit
  <1>7. Real(file["reference-ingestion"])' => GoodReceipt(file["reference-ingestion"])'
    <2>1. Real(file["reference-ingestion"])' = Real(receipt)
      BY <1>5 DEF Real
    <2>2. GoodReceipt(receipt)' => GoodReceipt(file["reference-ingestion"])'
      BY <1>5
    <2> QED
      BY <1>6, <2>1, <2>2
  <1>8. FilesFit'
    BY <1>3, <1>7 DEF RunInv, FilesFit, Keeps
  <1>9. ASSUME NEW p \in Operators, Filling(p)
        PROVE  file'[op[p].todo[1].name] = Torn
    <2>1. op[p].todo # <<>> /\ op[p].todo[1].do = "fill" /\ ListFits(op[p].todo)
      BY <1>9 DEF Filling, Idle, RunInv, CallsFit
    <2>2. 1 \in DOMAIN op[p].todo
      BY <2>1, ListFacts DEF ListFits
    <2>3. op[p].todo[1].name \in FileNames \ Outside
      BY <2>1, <2>2 DEF ListFits, StepFits, WriteFits
    <2> QED
      BY <1>9, <2>3 DEF RunInv, FillsAlone
  <1>10. FillsAlone'
    BY <1>9 DEF RunInv, FillsAlone, Filling, Idle
  <1> QED
    BY <1>2, <1>8, <1>10, JournalStill DEF RunInv

LEMMA ConfirmsKeeps ==
    ASSUME RunInv, ReviewerConfirms
    PROVE  RunInv'
  <1>1. PICK inputs \in InputSets : file' = [file EXCEPT !["confirmed-inputs"] = inputs]
    BY DEF ReviewerConfirms
  <1>2. /\ op' = op /\ events' = events /\ faults' = faults /\ swaps' = swaps
        /\ swaps \in Nat /\ file["confirmed-inputs"] = NoFile
    BY DEF ReviewerConfirms, RunInv, FilesFit
  <1>3. inputs # Torn
    BY DEF InputSets, ConfirmedInputs, Torn
  <1>4. /\ "confirmed-inputs" \in FileNames /\ "confirmed-inputs" \in Outside
        /\ Outside = {"evidence.sqlite", "confirmed-inputs"} /\ Outside \subseteq FileNames
    BY DEF FileNames, Outside
  <1>5. /\ \A n \in FileNames : n # "confirmed-inputs" => file'[n] = file[n]
        /\ file'["confirmed-inputs"] = inputs
        /\ file' = [n \in FileNames |-> file'[n]]
    BY <1>1, <1>4 DEF RunInv, FilesFit
  <1>6. Keeps
    BY <1>2, <1>4, <1>5 DEF Keeps, RunInv, JournalFits
  <1>7. \A n \in Outside : file'[n] # Torn
    BY <1>3, <1>4, <1>5 DEF RunInv, FilesFit
  <1> QED
    BY <1>2, <1>4, <1>5, <1>6, <1>7, OutsideKeeps

LEMMA ReplaceKeeps ==
    ASSUME RunInv, ReplaceFile
    PROVE  RunInv'
  <1>1. /\ op' = op /\ events' = events /\ faults' = faults /\ swaps' = swaps + 1
        /\ swaps \in Nat /\ swaps' \in Nat /\ swaps' > 0
    BY DEF ReplaceFile, RunInv, FilesFit
  <1>2. Outside = {"evidence.sqlite", "confirmed-inputs"} /\ Outside \subseteq FileNames
    BY DEF FileNames, Outside
  <1>3. ForeignDb # Torn
    BY DocReal DEF ForeignDb, Real
  <1>4. \A inputs \in InputSets : inputs # Torn
    BY DEF InputSets, ConfirmedInputs, Torn
  <1>5. /\ file' = [n \in FileNames |-> file'[n]]
        /\ \A n \in FileNames \ Outside : file'[n] = file[n]
        /\ \A n \in Outside : file'[n] # Torn
        /\ file'["evidence.sqlite"] # NoFile => file["evidence.sqlite"] # NoFile
        /\ file'["evidence.sqlite"] \in {file["evidence.sqlite"], ForeignDb}
    <2>1. CASE file' = file
      BY <2>1 DEF RunInv, FilesFit
    <2>2. CASE /\ file["evidence.sqlite"] # NoFile
               /\ file' = [file EXCEPT !["evidence.sqlite"] = ForeignDb]
      BY <1>2, <1>3, <2>2 DEF RunInv, FilesFit
    <2>3. CASE \E inputs \in InputSets : file' = [file EXCEPT !["confirmed-inputs"] = inputs]
      <3>1. PICK inputs \in InputSets : file' = [file EXCEPT !["confirmed-inputs"] = inputs]
        BY <2>3
      <3> QED
        BY <1>2, <1>4, <3>1 DEF RunInv, FilesFit
    <2> QED
      BY <2>1, <2>2, <2>3 DEF ReplaceFile
  <1>6. Keeps
    BY <1>1, <1>5 DEF Keeps, RunInv, JournalFits
  <1> QED
    BY <1>1, <1>5, <1>6, OutsideKeeps

LEMMA InitFits == Init => RunInv
  <1> SUFFICES ASSUME Init PROVE RunInv
    OBVIOUS
  <1>1. /\ file = [n \in FileNames |-> NoFile] /\ events = <<>> /\ faults = 0 /\ swaps = 0
        /\ op = [o \in Operators |-> [at |-> CHOOSE t \in Times : TRUE, todo |-> <<>>]]
    BY DEF Init
  <1>2. \A n \in FileNames : file[n] = NoFile /\ file[n] # Torn /\ ~Real(file[n])
    BY <1>1 DEF NoFile, Torn, Real
  <1>3. FilesFit
    BY <1>1, <1>2, InsideNames DEF FilesFit, Outside
  <1>4. \A o \in Operators : op[o].todo = <<>> /\ op[o] = [at |-> op[o].at, todo |-> op[o].todo]
    BY <1>1
  <1>5. CallsFit
    BY <1>1, <1>4, EmptyFits DEF CallsFit
  <1>6. FillsAlone
    BY <1>4 DEF FillsAlone, Filling, Idle
  <1>7. IsList(events) /\ DOMAIN events = {}
    BY <1>1, EmptyFits DEF ListFits
  <1>8. JournalFits
    BY <1>1, <1>7 DEF JournalFits
  <1> QED
    BY <1>3, <1>5, <1>6, <1>8 DEF RunInv

LEMMA NextKeeps == RunInv /\ [Next]_vars => RunInv'
  <1> SUFFICES ASSUME RunInv, [Next]_vars PROVE RunInv'
    OBVIOUS
  <1>1. ASSUME NEW o \in Operators, Begin(o, Requests, Payloads)
        PROVE  RunInv'
    BY <1>1, PrepareKeeps, IngestKeeps, ResumeKeeps, StartKeeps, ConfirmationKeeps, StagesKeep
       DEF Begin, Lane
  <1>2. ASSUME NEW o \in Operators, Handoff(o)
        PROVE  RunInv'
    BY <1>2, TrackBKeeps, AcceptanceKeeps, FinalizeKeeps DEF Handoff
  <1>3. ASSUME NEW o \in Operators, Step(o)
        PROVE  RunInv'
    BY <1>3, CreateKeeps, FillKeeps, LoadKeeps, AppendKeeps, PrepareEventsKeeps, ImportKeeps,
       MakeReceiptKeeps, PersistKeeps, HashKeeps DEF Step
  <1>4. ASSUME UNCHANGED vars PROVE RunInv'
    <2>1. /\ file' = file /\ events' = events /\ op' = op /\ faults' = faults /\ swaps' = swaps
          /\ swaps' \in Nat
      BY <1>4 DEF vars, RunInv, FilesFit
    <2>2. Keeps
      BY <2>1, UnchangedKeeps
    <2>3. \A n \in Outside : file'[n] # Torn
      BY <2>1 DEF RunInv, FilesFit
    <2> QED
      BY <2>1, <2>2, <2>3, OutsideKeeps
  <1>5. CASE ReviewerConfirms \/ ReplaceFile
    BY <1>5, ConfirmsKeeps, ReplaceKeeps
  <1> QED
    BY <1>1, <1>2, <1>3, <1>4, <1>5, WriteFailsKeeps, CrashKeeps DEF Next

\* In every reachable state the files, the journal and the remaining steps of the
\* calls fit each other.
THEOREM RunInvariant == Spec => []RunInv
  BY InitFits, NextKeeps, PTL DEF Spec

\* The engines of a run work on what its lanes have confirmed, and each on what the
\* one before it left, whatever processes, crashes and failed writes interleave.
THEOREM EnginesAreGroundedHolds == Spec => []EnginesAreGrounded
  <1>1. RunInv => EnginesAreGrounded
    <2> SUFFICES ASSUME RunInv PROVE EnginesAreGrounded
      OBVIOUS
    <2>1. LanesBeforeEngines
      BY DEF LanesBeforeEngines, RunInv, JournalFits, EventFits, RolesKnown
    <2>2. ASSUME NEW n \in DOMAIN events, NEW i \in 1..3, events[n].next = Stages[i]
          PROVE  /\ events[n].payload = file[Stages[i]]
                 /\ events[n].payload.input =
                      IF i = 1 THEN file["request"] ELSE file[Stages[i - 1]]
                 /\ \A m \in DOMAIN events : events[m].next = Stages[i] => m = n
      <3>1. /\ events[n].payload = file[Stages[i]]
            /\ events[n].payload.input = IF i = 1 THEN file["request"] ELSE file[Stages[i - 1]]
        BY <2>2 DEF RunInv, JournalFits, EventFits
      <3>2. ASSUME NEW m \in DOMAIN events, events[m].next = Stages[i], m # n
            PROVE  FALSE
        <4>1. m < n \/ n < m
          BY <3>2, ListFacts DEF RunInv, JournalFits
        <4>2. Rank(events[m].next) >= 2 /\ Rank(events[n].next) >= 2
              /\ Rank(events[m].next) = Rank(events[n].next) /\ Rank(events[m].next) \in Nat
          BY <2>2, <3>2, Ranks
        <4> QED
          BY <4>1, <4>2 DEF RunInv, JournalFits
      <3> QED
        BY <3>1, <3>2
    <2>3. StageChain
      BY <2>2 DEF StageChain
    <2> QED
      BY <2>1, <2>3 DEF EnginesAreGrounded
  <1> QED
    BY <1>1, RunInvariant, PTL

----------------------------------------------------------------------------
(* A damaged run stays damaged.  What a step may do is told by the steps   *)
(* that are pending before it: a file is created, filled or given up, and  *)
(* an event appended, only by a pending step, and a step becomes pending   *)
(* only where the calls' checks let it.                                    *)

LEMMA PendingFacts ==
    ASSUME RunInv, NEW w \in Pending
    PROVE  /\ w.do \in {"write", "fill"} =>
                /\ w.name \in FileNames \ Outside /\ Real(w.content)
                /\ w.name \in {"reference-ingestion", "reference-ingestion.sha256"} =>
                      w.style = "identical"
                /\ w.name = "final-review-packet" => w.style = "once"
                /\ w.name = "drawing-confirmation" =>
                      \E v \in Pending : v.do = "append" /\ v.next = "INPUT_CONFIRMATION_REQUIRED"
           /\ w.do \in {"append", "event"} =>
                /\ w.next # "FAILED"
                /\ w.next \in LateStates => Reached(4)
                /\ w.next = "READY_TO_EVALUATE" => Drawings(Frozen) = {} \/ Paused
           /\ w.do = "append" =>
                w.rule = IF w.next \in LateStates THEN "skip"
                         ELSE IF w.next = "INPUT_CONFIRMATION_REQUIRED" THEN "plan" ELSE "always"
           /\ w.do = "confirmed" => Paused
  <1>1. PICK o \in Operators : \E k \in DOMAIN op[o].todo : w = op[o].todo[k]
    BY DEF Pending
  <1>2. PICK list : list = op[o].todo
    OBVIOUS
  <1>3. PICK k \in DOMAIN list : w = list[k]
    BY <1>1, <1>2
  <1>4. StepFits(list, k) /\ \A j \in DOMAIN list : list[j] \in Pending
    BY <1>2 DEF RunInv, CallsFit, ListFits, Pending
  <1>5. w.do \in {"write", "fill"} => WriteFits(list, k)
    BY <1>3, <1>4 DEF StepFits
  <1>6. w.do \in {"append", "event"} => StateFits(list, k)
    BY <1>3, <1>4 DEF StepFits
  <1> QED
    BY <1>3, <1>4, <1>5, <1>6 DEF StepFits, WriteFits, StateFits

LEMMA HeadPending ==
    ASSUME RunInv, NEW o \in Operators, ~Idle(o)
    PROVE  /\ Head(op[o].todo) \in Pending
           /\ IsList(Rest(o)) /\ \A k \in DOMAIN Rest(o) : Rest(o)[k] \in Pending
  <1>1. PICK list : list = op[o].todo
    OBVIOUS
  <1>2. /\ IsList(list) /\ list # <<>> /\ Head(list) = list[1] /\ 1 \in DOMAIN list
        /\ Rest(o) = Tail(list)
    BY <1>1, CallFacts
  <1>3. \A k \in DOMAIN list : list[k] \in Pending
    BY <1>1 DEF Pending
  <1>4. IsList(Tail(list)) /\ \A k \in DOMAIN Tail(list) : k + 1 \in DOMAIN list
                                                           /\ Tail(list)[k] = list[k + 1]
    BY <1>2, ListTail
  <1> QED
    BY <1>1, <1>2, <1>3, <1>4

LEMMA MovesPending ==
    ASSUME RunInv, NEW o \in Operators, NEW list, Moves(o, list), NEW w \in Pending'
    PROVE  w \in Pending \/ \E k \in DOMAIN list : w = list[k]
  <1>1. op'[o].todo = list /\ \A p \in Operators : p # o => op'[p] = op[p]
    BY MovesOp DEF RunInv
  <1>2. PICK p \in Operators : \E k \in DOMAIN op'[p].todo : w = op'[p].todo[k]
    BY DEF Pending
  <1>3. CASE p = o
    BY <1>1, <1>2, <1>3
  <1>4. CASE p # o
    BY <1>1, <1>2, <1>4 DEF Pending
  <1> QED
    BY <1>3, <1>4

\* Of a list that ends, goes on, or goes on after another first step, only that step
\* is new.
LEMMA TodoPending ==
    ASSUME RunInv, NEW o \in Operators, NEW w \in Pending', w \notin Pending
    PROVE  /\ ~Refuse(o)
           /\ ~(Advance(o) /\ ~Idle(o))
           /\ \A v : Todo(o, <<v>> \o Rest(o)) /\ ~Idle(o) => w = v
           /\ \A list : Todo(o, list) \/ Call(o, list) => \E k \in DOMAIN list : w = list[k]
  <1>1. \A list : Todo(o, list) => Moves(o, list)
    BY TodoMoves DEF RunInv
  <1>2. \A list : Call(o, list) => Moves(o, list)
    BY DEF Call, Moves
  <1>3. \A list : Moves(o, list) => \E k \in DOMAIN list : w = list[k]
    BY MovesPending
  <1>4. ~Refuse(o)
    <2>1. ~ \E k \in DOMAIN <<>> : w = <<>>[k]
      OBVIOUS
    <2> QED
      BY <1>1, <1>3, <2>1 DEF Refuse
  <1>5. ~(Advance(o) /\ ~Idle(o))
    BY <1>1, <1>3, HeadPending DEF Advance
  <1>6. ASSUME NEW v, Todo(o, <<v>> \o Rest(o)), ~Idle(o)
        PROVE  w = v
    <2>1. PICK list : list = <<v>> \o Rest(o)
      OBVIOUS
    <2>2. PICK k \in DOMAIN list : w = list[k]
      BY <1>1, <1>3, <1>6, <2>1
    <2>3. IsList(Rest(o)) /\ \A j \in DOMAIN Rest(o) : Rest(o)[j] \in Pending
      BY <1>6, HeadPending
    <2>4. list[1] = v /\ (k # 1 => k - 1 \in DOMAIN Rest(o) /\ list[k] = Rest(o)[k - 1])
      BY <2>1, <2>3, ListPush
    <2> QED
      BY <2>2, <2>3, <2>4
  <1> QED
    BY <1>1, <1>2, <1>3, <1>4, <1>5, <1>6

\* When a step may become pending.
AppendBegins(w) ==
  /\ w.rule = "always" => \/ events = <<>> \/ Paused
                          \/ LastState(events) = "PENDING_REFERENCE_INGESTION"
  /\ w.next = "INPUT_CONFIRMATION_REQUIRED" => file["drawing-confirmation"] = NoFile
  /\ w.next = "READY_FOR_REVIEW" => file["final-review-packet"] = NoFile
  /\ w.next = "BLOCKED" => LastState(events) = "WAITING_TRACK_B"
MayBegin(w) ==
  \/ w.do \in {"prepare", "import", "confirmed"}
  \/ w.do = "write" /\ w.style \in {"stage", "exclusive", "once"}
  \/ /\ w.do = "write" /\ w.style = "identical"
     /\ ~(LoadsRequest /\ events # <<>>) \/ \E v \in Pending : v.do = "rehash"
  \/ /\ w.do = "fill" /\ file[w.name] = NoFile
     /\ \E v \in Pending : v.do = "write" /\ v.name = w.name /\ v.style = w.style
  \/ w.do = "append" /\ AppendBegins(w)
  \/ /\ w.do = "event"
     /\ \E v \in Pending : /\ v.do = "append" /\ v.next = w.next
                           /\ v.rule = "plan" => LastState(events) = "PENDING_DRAWING_INGESTION"
  \/ w.do = "result" /\ file["evidence.sqlite"] = NoFile
  \/ w.do = "rehash" /\ \E v \in Pending : v.do = "result"

LEMMA WriteBegins ==
    ASSUME NEW name, NEW c, NEW style \in {"stage", "exclusive", "once"}
    PROVE  MayBegin(Write(name, c, style))
  BY DEF MayBegin, Write

LEMMA SkipBegins ==
    ASSUME NEW next, next \notin {"INPUT_CONFIRMATION_REQUIRED", "READY_FOR_REVIEW", "BLOCKED"},
           NEW payload
    PROVE  MayBegin(Append1("skip", next, payload))
  BY DEF MayBegin, AppendBegins, Append1

LEMMA AlwaysBegins ==
    ASSUME NEW next, next \notin {"INPUT_CONFIRMATION_REQUIRED", "READY_FOR_REVIEW", "BLOCKED"},
           NEW payload,
           events = <<>> \/ Paused \/ LastState(events) = "PENDING_REFERENCE_INGESTION"
    PROVE  MayBegin(Append1("always", next, payload))
  BY DEF MayBegin, AppendBegins, Append1

LEMMA StageMembers ==
    ASSUME NEW document, NEW done \in 0 .. 3, NEW list,
           list = SubSeq(StageSteps(document), 2 * done + 1, 8), NEW k \in DOMAIN list
    PROVE  \/ \E i \in 1..3 : list[k] \in {Write(Stages[i], document[i], "stage"),
                                          Append1("skip", Stages[i], document[i])}
           \/ list[k] = Append1("skip", "WAITING_TRACK_A", document[3])
           \/ list[k] = Write("next-action", Doc("action", "PRODUCE_TRACK_A"), "stage")
  <1>1. /\ IsList(list) /\ DOMAIN list = 1 .. (8 - 2 * done)
        /\ \A i \in 1 .. 3 : i > done =>
             /\ 2 * (i - done) - 1 \in DOMAIN list /\ 2 * (i - done) \in DOMAIN list
             /\ list[2 * (i - done) - 1] = Write(Stages[i], document[i], "stage")
             /\ list[2 * (i - done)] = Append1("skip", Stages[i], document[i])
        /\ list[7 - 2 * done] = Append1("skip", "WAITING_TRACK_A", document[3])
        /\ list[8 - 2 * done] = Write("next-action", Doc("action", "PRODUCE_TRACK_A"), "stage")
    BY ZenonT(60), StageList
  <1>2. \/ \E i \in 1..3 : i > done /\ (k = 2 * (i - done) - 1 \/ k = 2 * (i - done))
        \/ k = 7 - 2 * done
        \/ k = 8 - 2 * done
    BY <1>1
  <1> QED
    BY <1>1, <1>2

LEMMA CallsBegin ==
    ASSUME RunInv, NEW o \in Operators, NEW w \in Pending', w \notin Pending,
           Begin(o, Requests, Payloads)
    PROVE  MayBegin(w)
  <1>1. \A list : Call(o, list) => \E k \in DOMAIN list : w = list[k]
    BY TodoPending
  <1>2. ASSUME NEW r, Prepare(o, r) PROVE MayBegin(w)
    <2>1. PICK a : a = Write("request", Doc("request", r), "identical")
      OBVIOUS
    <2>2. PICK b : b = Write("request.sha256", Doc("sha", Doc("request", r)), "identical")
      OBVIOUS
    <2>3. PICK list : list = <<a, b, Then("prepare")>>
      OBVIOUS
    <2>4. Call(o, list) /\ ~(LoadsRequest /\ events # <<>>)
      BY <1>2, <2>1, <2>2, <2>3 DEF Prepare
    <2>5. w \in {a, b, Then("prepare")}
      BY <1>1, <2>3, <2>4, ThreeSteps
    <2>6. a.do = "write" /\ a.style = "identical" /\ b.do = "write" /\ b.style = "identical"
          /\ Then("prepare").do = "prepare"
      BY <2>1, <2>2 DEF Write, Then
    <2> QED
      BY <2>4, <2>5, <2>6 DEF MayBegin
  <1>3. ASSUME IngestPendingReferences(o) PROVE MayBegin(w)
    <2>1. PICK list : list = <<Then("import")>>
      OBVIOUS
    <2>2. w = Then("import")
      BY <1>1, <1>3, <2>1, OneStep DEF IngestPendingReferences
    <2> QED
      BY <2>2 DEF MayBegin, Then
  <1>4. ASSUME ResumeReviewRun(o) PROVE MayBegin(w)
    <2>1. PICK receipt : receipt = file["reference-ingestion"]
      OBVIOUS
    <2>2. PICK lane : lane = IF Drawings(Frozen) # {} THEN "PENDING_DRAWING_INGESTION"
                             ELSE "READY_TO_EVALUATE"
      OBVIOUS
    <2>3. PICK list : list = <<Append1("always", "CLASSIFYING_INPUTS", receipt),
                               Append1("always", lane, receipt)>>
      OBVIOUS
    <2>4. Call(o, list) /\ LastState(events) = "PENDING_REFERENCE_INGESTION"
      BY <1>4, <2>1, <2>2, <2>3 DEF ResumeReviewRun
    <2>5. w \in {Append1("always", "CLASSIFYING_INPUTS", receipt), Append1("always", lane, receipt)}
      BY <1>1, <2>3, <2>4, TwoSteps
    <2>6. lane \notin {"INPUT_CONFIRMATION_REQUIRED", "READY_FOR_REVIEW", "BLOCKED"}
      BY <2>2
    <2> QED
      BY <2>4, <2>5, <2>6, AlwaysBegins
  <1>5. ASSUME NEW candidates, StartDrawingConfirmation(o, candidates) PROVE MayBegin(w)
    <2>1. PICK plan : plan = Plan(candidates)
      OBVIOUS
    <2>2. PICK list : list = <<Write("drawing-confirmation", plan, "exclusive"),
                               Append1("plan", "INPUT_CONFIRMATION_REQUIRED", plan)>>
      OBVIOUS
    <2>3. Call(o, list) /\ file["drawing-confirmation"] = NoFile
      BY <1>5, <2>1, <2>2 DEF StartDrawingConfirmation
    <2>4. w \in {Write("drawing-confirmation", plan, "exclusive"),
                 Append1("plan", "INPUT_CONFIRMATION_REQUIRED", plan)}
      BY <1>1, <2>2, <2>3, TwoSteps
    <2>5. MayBegin(Append1("plan", "INPUT_CONFIRMATION_REQUIRED", plan))
      BY <2>3 DEF MayBegin, AppendBegins, Append1
    <2> QED
      BY <2>4, <2>5, WriteBegins
  <1>6. ASSUME ResumeAfterConfirmation(o) PROVE MayBegin(w)
    <2>1. PICK list : list = <<Then("confirmed")>>
      OBVIOUS
    <2>2. w = Then("confirmed")
      BY <1>1, <1>6, <2>1, OneStep DEF ResumeAfterConfirmation
    <2> QED
      BY <2>2 DEF MayBegin, Then
  <1>7. ASSUME NEW payload, RunDeterministicStages(o, payload) PROVE MayBegin(w)
    <2>1. PICK done : done = CompletedCount(LastState(events))
      OBVIOUS
    <2>2. PICK document : document = Document(file["request.sha256"].of, payload)
      OBVIOUS
    <2>3. PICK list : list = SubSeq(StageSteps(document), 2 * done + 1, 8)
      OBVIOUS
    <2>4. Call(o, list) /\ done < 4
      BY <1>7, <2>1, <2>2, <2>3 DEF RunDeterministicStages
    <2>5. done \in 0 .. 3
      BY <2>1, <2>4 DEF CompletedCount
    <2>6. PICK k \in DOMAIN list : w = list[k]
      BY <1>1, <2>4
    <2>7. \/ \E i \in 1..3 : w \in {Write(Stages[i], document[i], "stage"),
                                    Append1("skip", Stages[i], document[i])}
          \/ w = Append1("skip", "WAITING_TRACK_A", document[3])
          \/ w = Write("next-action", Doc("action", "PRODUCE_TRACK_A"), "stage")
      BY <2>3, <2>5, <2>6, StageMembers
    <2>8. \A i \in 1..3 : Stages[i] \notin {"INPUT_CONFIRMATION_REQUIRED", "READY_FOR_REVIEW", "BLOCKED"}
      BY InsideNames
    <2> QED
      BY <2>7, <2>8, WriteBegins, SkipBegins
  <1> QED
    BY <1>2, <1>3, <1>4, <1>5, <1>6, <1>7 DEF Begin, Lane

LEMMA HandoffsBegin ==
    ASSUME RunInv, NEW o \in Operators, NEW w \in Pending', w \notin Pending, Handoff(o)
    PROVE  MayBegin(w)
  <1>1. \A list : Call(o, list) => \E k \in DOMAIN list : w = list[k]
    BY TodoPending
  <1>2. ASSUME NEW trackA, AdvanceToTrackB(o, trackA) PROVE MayBegin(w)
    <2>1. PICK a : a = Write("track-a-validation", Doc("validation", trackA), "stage")
      OBVIOUS
    <2>2. PICK b : b = Append1("skip", "WAITING_TRACK_B", Doc("validation", trackA))
      OBVIOUS
    <2>3. PICK c : c = Write("next-action-track-b", Doc("action", "PRODUCE_TRACK_B"), "stage")
      OBVIOUS
    <2>4. PICK list : list = <<a, b, c>>
      OBVIOUS
    <2>5. w \in {a, b, c}
      BY <1>1, <1>2, <2>1, <2>2, <2>3, <2>4, ThreeSteps DEF AdvanceToTrackB
    <2> QED
      BY <2>1, <2>2, <2>3, <2>5, WriteBegins, SkipBegins
  <1>3. ASSUME NEW trackB, NEW accept, RequireTrackBAcceptance(o, trackB, accept) PROVE MayBegin(w)
    <2>1. PICK next : next = IF accept THEN "FINALIZING" ELSE "BLOCKED"
      OBVIOUS
    <2>2. PICK list : list = <<Append1("skip", next, Doc("track-b", trackB))>>
      OBVIOUS
    <2>3. w = Append1("skip", next, Doc("track-b", trackB))
      BY <1>1, <1>3, <2>1, <2>2, OneStep DEF RequireTrackBAcceptance
    <2>4. LastState(events) = "WAITING_TRACK_B" /\ next \in {"FINALIZING", "BLOCKED"}
      BY <1>3, <2>1 DEF RequireTrackBAcceptance
    <2> QED
      BY <2>3, <2>4 DEF MayBegin, AppendBegins, Append1
  <1>4. ASSUME NEW status, FinalizeOrchestrationRun(o, status) PROVE MayBegin(w)
    <2>1. PICK a : a = Write("final-review-packet", Doc("packet", status), "once")
      OBVIOUS
    <2>2. PICK b : b = Append1("skip", "READY_FOR_REVIEW", Doc("packet", status))
      OBVIOUS
    <2>3. PICK list : Call(o, list) /\ (list = <<a>> \/ list = <<a, b>>)
      BY <1>4, <2>1, <2>2 DEF FinalizeOrchestrationRun
    <2>4. w \in {a, b}
      BY <1>1, <2>3, OneStep, TwoSteps
    <2>5. file["final-review-packet"] = NoFile
      BY <1>4 DEF FinalizeOrchestrationRun
    <2>6. MayBegin(b)
      BY <2>2, <2>5 DEF MayBegin, AppendBegins, Append1
    <2> QED
      BY <2>1, <2>4, <2>6, WriteBegins
  <1> QED
    BY <1>2, <1>3, <1>4 DEF Handoff

LEMMA StepsBegin ==
    ASSUME RunInv, NEW o \in Operators, NEW w \in Pending', w \notin Pending, Step(o)
    PROVE  MayBegin(w)
  <1>1. /\ ~Refuse(o)
        /\ ~(Advance(o) /\ ~Idle(o))
        /\ \A v : Todo(o, <<v>> \o Rest(o)) /\ ~Idle(o) => w = v
        /\ \A list : Todo(o, list) => \E k \in DOMAIN list : w = list[k]
    BY TodoPending
  <1>2. ~Idle(o)
    BY DEF Step, CreateFile, FillFile, LoadEvents, AppendEvent, PrepareEvents, ImportReferences,
           MakeReceipt, PersistReceipt, HashConfirmedInputs, At
  <1>3. PICK h : h = Head(op[o].todo)
    OBVIOUS
  <1>4. h \in Pending
    BY <1>2, <1>3, HeadPending
  <1>5. ASSUME CreateFile(o) PROVE MayBegin(w)
    <2>1. h.do = "write" /\ h = [do |-> h.do, name |-> h.name, content |-> h.content, style |-> h.style]
      <3>1. PICK list : list = op[o].todo
        OBVIOUS
      <3>2. h = list[1] /\ StepFits(list, 1) /\ h.do = "write"
        BY <1>2, <1>3, <1>5, <3>1, CallFacts DEF CreateFile, At
      <3> QED
        BY <3>2 DEF StepFits, WriteFits
    <2>2. \/ w = [h EXCEPT !.style = "exclusive"]
          \/ w = [h EXCEPT !.do = "fill"] /\ file[h.name] = NoFile
      BY <1>1, <1>2, <1>3, <1>5 DEF CreateFile
    <2>3. \A a, b, c, d, x :
             /\ [[do |-> a, name |-> b, content |-> c, style |-> d] EXCEPT !.do = x]
                  = [do |-> x, name |-> b, content |-> c, style |-> d]
             /\ [[do |-> a, name |-> b, content |-> c, style |-> d] EXCEPT !.style = x]
                  = [do |-> a, name |-> b, content |-> c, style |-> x]
      OBVIOUS
    <2>4. \/ w = [do |-> "write", name |-> h.name, content |-> h.content, style |-> "exclusive"]
          \/ /\ w = [do |-> "fill", name |-> h.name, content |-> h.content, style |-> h.style]
             /\ file[h.name] = NoFile
      BY <2>1, <2>2, <2>3
    <2>5. \/ w.do = "write" /\ w.style = "exclusive"
          \/ w.do = "fill" /\ w.name = h.name /\ w.style = h.style /\ file[h.name] = NoFile
      BY <2>4
    <2> QED
      BY <1>4, <2>1, <2>5 DEF MayBegin
  <1>6. ~FillFile(o) /\ ~AppendEvent(o)
    BY <1>1, <1>2 DEF FillFile, AppendEvent
  <1>7. ASSUME LoadEvents(o) PROVE MayBegin(w)
    <2>1. PICK last : last = LastState(events)
      OBVIOUS
    <2>2. PICK e : e = [do |-> "event", sequence |-> Len(events) + 1, previous |-> last,
                        next |-> h.next, payload |-> h.payload]
      OBVIOUS
    <2>3. /\ h.do = "append" /\ Todo(o, <<e>> \o Rest(o))
          /\ h.rule = "plan" => last = "PENDING_DRAWING_INGESTION"
      BY <1>1, <1>2, <1>3, <1>7, <2>1, <2>2 DEF LoadEvents, At, Advance
    <2>4. w = e /\ e.do = "event" /\ e.next = h.next
      BY <1>1, <1>2, <2>2, <2>3
    <2> QED
      BY <1>4, <2>1, <2>3, <2>4 DEF MayBegin
  <1>8. ASSUME PrepareEvents(o) PROVE MayBegin(w)
    <2>1. PICK a : a = Append1("always", "RECEIVED", file["request"])
      OBVIOUS
    <2>2. PICK b : b = Append1("always", "CLASSIFYING_INPUTS", file["request"])
      OBVIOUS
    <2>3. PICK c : c = Append1("always", LaneOf(Frozen), file["request"])
      OBVIOUS
    <2>4. PICK list : list = <<a, b, c>>
      OBVIOUS
    <2>5. Todo(o, list) /\ events = <<>>
      BY <1>1, <1>8, <2>1, <2>2, <2>3, <2>4 DEF PrepareEvents
    <2>6. w \in {a, b, c}
      BY <1>1, <2>4, <2>5, ThreeSteps
    <2>7. LaneOf(Frozen) \notin {"INPUT_CONFIRMATION_REQUIRED", "READY_FOR_REVIEW", "BLOCKED"}
      BY DEF LaneOf
    <2> QED
      BY <2>1, <2>2, <2>3, <2>5, <2>6, <2>7, AlwaysBegins
  <1>9. ASSUME ImportReferences(o) PROVE MayBegin(w)
    <2>1. PICK e : e = [do |-> "result", hashes |-> {store[i] : i \in References(Frozen)}]
      OBVIOUS
    <2>2. PICK list : list = <<e>>
      OBVIOUS
    <2>3. Todo(o, list) /\ file["evidence.sqlite"] = NoFile
      BY <1>1, <1>9, <2>1, <2>2 DEF ImportReferences
    <2>4. w = e /\ e.do = "result"
      BY <1>1, <2>1, <2>2, <2>3, OneStep
    <2> QED
      BY <2>3, <2>4 DEF MayBegin
  <1>10. ASSUME MakeReceipt(o) PROVE MayBegin(w)
    <2>1. PICK receipt : receipt = Receipt(Frozen, file["evidence.sqlite"],
                                           SourcesOf(Frozen, h.hashes))
      OBVIOUS
    <2>2. PICK list : list = <<[do |-> "rehash", receipt |-> receipt]>>
      OBVIOUS
    <2>3. Todo(o, list) /\ h.do = "result"
      BY <1>1, <1>3, <1>10, <2>1, <2>2 DEF MakeReceipt, At
    <2>4. w = [do |-> "rehash", receipt |-> receipt]
      BY <1>1, <2>2, <2>3, OneStep
    <2>5. w.do = "rehash"
      BY <2>4
    <2> QED
      BY <1>4, <2>3, <2>5 DEF MayBegin
  <1>11. ASSUME PersistReceipt(o) PROVE MayBegin(w)
    <2>1. PICK a : a = Write("reference-ingestion", h.receipt, "identical")
      OBVIOUS
    <2>2. PICK b : b = Write("reference-ingestion.sha256", Doc("sha", h.receipt), "identical")
      OBVIOUS
    <2>3. PICK list : list = <<a, b>>
      OBVIOUS
    <2>4. Todo(o, list) /\ h.do = "rehash"
      BY <1>1, <1>3, <1>11, <2>1, <2>2, <2>3 DEF PersistReceipt, At
    <2>5. w \in {a, b}
      BY <1>1, <2>3, <2>4, TwoSteps
    <2>6. w.do = "write" /\ w.style = "identical"
      BY <2>1, <2>2, <2>5 DEF Write
    <2> QED
      BY <1>4, <2>4, <2>6 DEF MayBegin
  <1>12. ASSUME HashConfirmedInputs(o) PROVE MayBegin(w)
    <2>1. PICK list : list = <<Append1("always", "READY_TO_EVALUATE", file["confirmed-inputs"])>>
      OBVIOUS
    <2>2. Todo(o, list) /\ h.do = "confirmed"
      BY <1>3, <1>12, <2>1 DEF HashConfirmedInputs, At
    <2>3. w = Append1("always", "READY_TO_EVALUATE", file["confirmed-inputs"])
      BY <1>1, <2>1, <2>2, OneStep
    <2>4. Paused
      BY <1>4, <2>2, PendingFacts
    <2> QED
      BY <2>3, <2>4, AlwaysBegins
  <1> QED
    BY <1>5, <1>6, <1>7, <1>8, <1>9, <1>10, <1>11, <1>12 DEF Step

LEMMA PendingBegins ==
    ASSUME RunInv, [Next]_vars, NEW w \in Pending', w \notin Pending
    PROVE  MayBegin(w)
  <1>1. op' # op
    BY DEF Pending
  <1>2. PICK o \in Operators :
          \/ Begin(o, Requests, Payloads) \/ Handoff(o) \/ Step(o) \/ WriteFails(o) \/ Crash(o)
    BY <1>1 DEF Next, ReviewerConfirms, ReplaceFile, vars
  <1>3. ~Refuse(o)
    BY TodoPending
  <1> QED
    BY <1>2, <1>3, CallsBegin, HandoffsBegin, StepsBegin DEF WriteFails, Crash

\* What becomes of the files and of the journal.
LEMMA BeginsStill ==
    ASSUME NEW o \in Operators, Begin(o, Requests, Payloads) \/ Handoff(o)
    PROVE  file' = file /\ events' = events /\ tornEvent' = tornEvent
  <1>1. \E list : Call(o, list)
    BY DEF Begin, Lane, Handoff, Prepare, IngestPendingReferences, ResumeReviewRun,
           StartDrawingConfirmation, ResumeAfterConfirmation, RunDeterministicStages,
           AdvanceToTrackB, RequireTrackBAcceptance, FinalizeOrchestrationRun
  <1> QED
    BY <1>1 DEF Call

LEMMA FileChanges ==
    ASSUME RunInv, [Next]_vars, NEW n \in FileNames \ Outside, file'[n] # file[n]
    PROVE  \/ /\ file[n] = NoFile
              /\ \E v \in Pending : v.do = "write" /\ v.name = n
           \/ /\ file[n] = Torn
              /\ \E v \in Pending : /\ v.do = "fill" /\ v.name = n
                                    /\ file'[n] = NoFile => v.style \notin {"identical", "once"}
  <1>1. file' # file
    OBVIOUS
  <1>2. \A m \in Outside : \A c : file' # [file EXCEPT ![m] = c]
    BY DEF RunInv, FilesFit
  <1>3. \A name \in FileNames : \A c : file' = [file EXCEPT ![name] = c] => name = n /\ file'[n] = c
    BY DEF RunInv, FilesFit
  <1>4. ~ReviewerConfirms /\ ~ReplaceFile
    BY <1>1, <1>2 DEF ReviewerConfirms, ReplaceFile, Outside
  <1>5. PICK o \in Operators : CreateFile(o) \/ FillFile(o) \/ WriteFails(o)
    <2>1. PICK o \in Operators : Step(o) \/ WriteFails(o)
      BY <1>1, <1>4, BeginsStill DEF Next, Crash, vars
    <2>2. ~ImportReferences(o)
      BY <1>1, <1>2 DEF ImportReferences, Outside
    <2> QED
      BY <1>1, <2>1, <2>2 DEF Step, LoadEvents, AppendEvent, PrepareEvents, MakeReceipt,
                              PersistReceipt, HashConfirmedInputs
  <1>6. PICK h : h = Head(op[o].todo)
    OBVIOUS
  <1>7. ~Idle(o) /\ h \in Pending
    BY <1>5, <1>6, HeadPending DEF CreateFile, FillFile, WriteFails, At
  <1>8. h.do \in {"write", "fill"} => h.name \in FileNames /\ Real(h.content)
    BY <1>7, PendingFacts
  <1>9. CASE CreateFile(o)
    <2>1. h.do = "write" /\ file[h.name] = NoFile /\ file' = [file EXCEPT ![h.name] = Torn]
      BY <1>1, <1>6, <1>9 DEF CreateFile, At
    <2> QED
      BY <1>3, <1>7, <1>8, <2>1
  <1>10. ASSUME h.do = "fill" PROVE file[h.name] = Torn
    <2>1. PICK list : list = op[o].todo
      OBVIOUS
    <2>2. h = list[1]
      BY <1>6, <1>7, <2>1, CallFacts
    <2> QED
      BY <1>7, <1>10, <2>1, <2>2 DEF RunInv, FillsAlone, Filling
  <1>11. CASE FillFile(o)
    <2>1. h.do = "fill" /\ file' = [file EXCEPT ![h.name] = h.content]
      BY <1>6, <1>11 DEF FillFile, At
    <2>2. h.content # NoFile
      BY <1>8, <2>1 DEF Real
    <2> QED
      BY <1>3, <1>7, <1>8, <1>10, <2>1, <2>2
  <1>12. CASE WriteFails(o)
    <2>1. /\ h.do = "fill"
          /\ file' = [file EXCEPT ![h.name] = IF h.style \in {"identical", "once"} THEN Torn
                                              ELSE NoFile]
      BY <1>6, <1>12 DEF WriteFails, At
    <2>2. h.name = n /\ file'[n] = IF h.style \in {"identical", "once"} THEN Torn ELSE NoFile
      BY <1>3, <1>8, <2>1
    <2>3. NoFile # Torn
      BY DEF NoFile, Torn
    <2> QED
      BY <1>7, <1>10, <2>1, <2>2, <2>3
  <1> QED
    BY <1>5, <1>9, <1>11, <1>12

LEMMA EventChanges ==
    ASSUME RunInv, [Next]_vars, events' # events
    PROVE  \E v \in Pending : v.do = "event" /\ MayFollow(events, v.next)
  <1>1. PICK o \in Operators : AppendEvent(o)
    BY BeginsStill DEF Next, Step, CreateFile, FillFile, LoadEvents, PrepareEvents,
       ImportReferences, MakeReceipt, PersistReceipt, HashConfirmedInputs, WriteFails, Crash,
       ReviewerConfirms, ReplaceFile, vars
  <1>2. ~Idle(o) /\ Head(op[o].todo).do = "event" /\ MayFollow(events, Head(op[o].todo).next)
    BY <1>1 DEF AppendEvent, Appendable, At
  <1> QED
    BY <1>2, HeadPending

LEMMA TornChanges ==
    ASSUME [Next]_vars, tornEvent
    PROVE  tornEvent'
  <1>1. \A o \in Operators : Crash(o) => tornEvent'
    BY DEF Crash
  <1> QED
    BY <1>1, BeginsStill DEF Next, Step, CreateFile, FillFile, LoadEvents, AppendEvent,
       PrepareEvents, ImportReferences, MakeReceipt, PersistReceipt, HashConfirmedInputs,
       WriteFails, ReviewerConfirms, ReplaceFile, vars

LEMMA DatabaseStays ==
    ASSUME RunInv, [Next]_vars, file["evidence.sqlite"] # NoFile
    PROVE  file'["evidence.sqlite"] # NoFile
  <1>1. ForeignDb # NoFile
    BY DocReal DEF ForeignDb, Real
  <1>2. /\ "evidence.sqlite" \in FileNames /\ "evidence.sqlite" \notin FileNames \ Outside
        /\ "evidence.sqlite" # "confirmed-inputs"
    BY DEF FileNames, Outside
  <1>3. \A name, c : /\ file' = [file EXCEPT ![name] = c]
                     /\ name # "evidence.sqlite"
                     => file'["evidence.sqlite"] = file["evidence.sqlite"]
    BY <1>2 DEF RunInv, FilesFit
  <1>4. ASSUME NEW o \in Operators, CreateFile(o) \/ FillFile(o) \/ WriteFails(o)
        PROVE  file'["evidence.sqlite"] = file["evidence.sqlite"]
    <2>1. PICK h : h = Head(op[o].todo)
      OBVIOUS
    <2>2. h \in Pending /\ h.do \in {"write", "fill"}
      BY <1>4, <2>1, HeadPending DEF CreateFile, FillFile, WriteFails, At
    <2>3. h.name # "evidence.sqlite"
      BY <1>2, <2>2, PendingFacts
    <2>4. file' = file \/ \E c : file' = [file EXCEPT ![h.name] = c]
      BY <1>4, <2>1 DEF CreateFile, FillFile, WriteFails
    <2> QED
      BY <1>3, <2>3, <2>4
  <1>5. \A o \in Operators : ImportReferences(o) => file' = file
    BY DEF ImportReferences
  <1>6. ReviewerConfirms => file'["evidence.sqlite"] = file["evidence.sqlite"]
    BY <1>2, <1>3 DEF ReviewerConfirms
  <1>7. ReplaceFile => file'["evidence.sqlite"] \in {file["evidence.sqlite"], ForeignDb}
    <2>1. file' = [file EXCEPT !["evidence.sqlite"] = ForeignDb] =>
            file'["evidence.sqlite"] = ForeignDb
      BY <1>2 DEF RunInv, FilesFit
    <2> QED
      BY <1>2, <1>3, <2>1 DEF ReplaceFile
  <1> QED
    BY <1>1, <1>4, <1>5, <1>6, <1>7, BeginsStill DEF Next, Step, LoadEvents, AppendEvent,
       PrepareEvents, MakeReceipt, PersistReceipt, HashConfirmedInputs, Crash, vars

----------------------------------------------------------------------------
(* The damages, one by one.                                                *)

LEMMA LastRank ==
    ASSUME RunInv, events # <<>>
    PROVE  \A m \in DOMAIN events : Rank(events[m].next) <= Rank(LastState(events))
  <1> SUFFICES ASSUME NEW m \in DOMAIN events
               PROVE  Rank(events[m].next) <= Rank(LastState(events))
    OBVIOUS
  <1>1. PICK L : L = Len(events)
    OBVIOUS
  <1>2. L \in DOMAIN events /\ m \in 1 .. L /\ L \in Nat /\ LastState(events) = events[L].next
    BY <1>1, ListFacts DEF RunInv, JournalFits, LastState
  <1>3. CASE m < L
    BY <1>2, <1>3 DEF RunInv, JournalFits
  <1>4. CASE m = L
    <2>1. \A x \in 0 .. 11 : x <= x
      OBVIOUS
    <2> QED
      BY <1>2, <1>4, <2>1, Ranks
  <1> QED
    BY <1>2, <1>3, <1>4

\* Nothing later than the last state has been reached.
LEMMA NotYet ==
    ASSUME RunInv, events # <<>>, Rank(LastState(events)) < 3
    PROVE  ~Paused /\ ~Reached(4)
  <1>1. \A m \in DOMAIN events : Rank(events[m].next) < 3
    <2>1. SUFFICES ASSUME NEW m \in DOMAIN events PROVE Rank(events[m].next) < 3
      OBVIOUS
    <2>2. Rank(events[m].next) \in 0 .. 11 /\ Rank(LastState(events)) \in 0 .. 11
      BY Ranks
    <2>3. Rank(events[m].next) <= Rank(LastState(events))
      BY LastRank
    <2> QED
      BY <2>2, <2>3
  <1>2. \A x \in 0 .. 11 : x < 3 => ~(x >= 4) /\ x # 3
    OBVIOUS
  <1> QED
    BY <1>1, <1>2, Ranks DEF Paused, Reached

LEMMA HalfStays ==
    ASSUME RunInv, [Next]_vars, NEW n \in FileNames, HalfWritten(n)
    PROVE  HalfWritten(n)'
  <1>1. n \in FileNames \ Outside
    BY DEF HalfWritten, RunInv, FilesFit
  <1>2. file'[n] = Torn
    <2>1. Torn # NoFile
      BY DEF NoFile, Torn
    <2> QED
      BY <1>1, <2>1, FileChanges DEF HalfWritten
  <1>3. ASSUME NEW w \in Pending', w.do = "fill", w.name = n PROVE FALSE
    <2>1. w \notin Pending
      BY <1>3 DEF HalfWritten
    <2>2. MayBegin(w)
      BY <1>3, <2>1, PendingBegins
    <2>3. file[n] = NoFile
      BY <1>3, <2>2 DEF MayBegin
    <2> QED
      BY <2>3 DEF HalfWritten, NoFile, Torn
  <1> QED
    BY <1>2, <1>3 DEF HalfWritten

LEMMA InterruptionStays ==
    ASSUME RunInv, [Next]_vars, InterruptedClassification
    PROVE  InterruptedClassification'
  <1>1. /\ LastState(events) \in {"RECEIVED", "CLASSIFYING_INPUTS"} /\ events # <<>>
        /\ \A w \in Pending : w.do # "event" /\ ~(w.do = "append" /\ w.rule = "always")
    BY DEF InterruptedClassification, LastState
  <1>2. Rank(LastState(events)) < 3
    BY <1>1 DEF Rank
  <1>3. ~Paused /\ ~Reached(4)
    BY <1>1, <1>2, NotYet
  <1>4. events' = events
    BY <1>1, EventChanges
  <1>5. ASSUME NEW w \in Pending', w.do = "event" \/ (w.do = "append" /\ w.rule = "always")
        PROVE  FALSE
    <2>1. w \notin Pending
      BY <1>1, <1>5
    <2>2. MayBegin(w)
      BY <2>1, PendingBegins
    <2>3. CASE w.do = "append" /\ w.rule = "always"
      BY <1>1, <1>3, <2>2, <2>3 DEF MayBegin, AppendBegins
    <2>4. CASE w.do = "event"
      <3>1. PICK v \in Pending : /\ v.do = "append" /\ v.next = w.next
                                 /\ v.rule = "plan" => LastState(events) = "PENDING_DRAWING_INGESTION"
        BY <2>2, <2>4 DEF MayBegin
      <3>2. v.rule # "always" /\ v.rule # "plan"
        BY <1>1, <3>1
      <3>3. v.next \in LateStates
        BY <3>1, <3>2, PendingFacts
      <3> QED
        BY <1>3, <3>1, <3>3, PendingFacts
    <2> QED
      BY <1>5, <2>3, <2>4
  <1> QED
    BY <1>1, <1>4, <1>5 DEF InterruptedClassification, LastState

LEMMA DatabaseDamageStays ==
    ASSUME RunInv, [Next]_vars, DatabaseWithoutReceipt
    PROVE  DatabaseWithoutReceipt'
  <1>1. PICK n \in {"reference-ingestion", "reference-ingestion.sha256"} : file[n] = NoFile
    BY DEF DatabaseWithoutReceipt
  <1>2. /\ file["evidence.sqlite"] # NoFile
        /\ \A w \in Pending : /\ w.do \notin {"result", "rehash"}
                              /\ ~(w.do \in {"write", "fill"} /\ w.style = "identical")
    BY DEF DatabaseWithoutReceipt
  <1>3. LoadsRequest /\ events # <<>>
    BY <1>2 DEF RunInv, FilesFit
  <1>4. file'["evidence.sqlite"] # NoFile
    BY <1>2, DatabaseStays
  <1>5. file'[n] = NoFile
    <2>1. n \in FileNames \ Outside
      BY InsideNames
    <2>2. NoFile # Torn
      BY DEF NoFile, Torn
    <2>3. ~ \E v \in Pending : v.do = "write" /\ v.name = n
      BY <1>2, PendingFacts
    <2> QED
      BY <1>1, <2>1, <2>2, <2>3, FileChanges
  <1>6. ASSUME NEW w \in Pending',
               w.do \in {"result", "rehash"} \/ (w.do \in {"write", "fill"} /\ w.style = "identical")
        PROVE  FALSE
    <2>1. w \notin Pending
      BY <1>2, <1>6
    <2>2. MayBegin(w)
      BY <2>1, PendingBegins
    <2> QED
      BY <1>2, <1>3, <1>6, <2>2 DEF MayBegin
  <1> QED
    BY <1>4, <1>5, <1>6 DEF DatabaseWithoutReceipt

LEMMA PlanDamageStays ==
    ASSUME RunInv, [Next]_vars, PlanWithoutPause
    PROVE  PlanWithoutPause'
  <1>1. /\ LastState(events) = "PENDING_DRAWING_INGESTION" /\ events # <<>>
        /\ file["drawing-confirmation"] # NoFile
        /\ \A w \in Pending : ~(w.do \in {"append", "event"}
                                /\ w.next = "INPUT_CONFIRMATION_REQUIRED")
    BY DEF PlanWithoutPause, LastState
  <1>2. Rank(LastState(events)) < 3
    BY <1>1 DEF Rank
  <1>3. ~Paused /\ ~Reached(4)
    BY <1>1, <1>2, NotYet
  <1>4. Drawings(Frozen) # {}
    BY <1>1, LastEvent DEF EventFits
  <1>5. events' = events
    <2>1. SUFFICES ASSUME NEW v \in Pending, v.do = "event", MayFollow(events, v.next) PROVE FALSE
      BY EventChanges
    <2>2. ValidTransition("PENDING_DRAWING_INGESTION", v.next)
      BY <1>1, <2>1 DEF MayFollow
    <2>3. v.next \in {"INPUT_CONFIRMATION_REQUIRED", "READY_TO_EVALUATE", "FAILED", "BLOCKED"}
      BY <2>2 DEF ValidTransition, ForwardTransitions, WorkflowStates
    <2>4. "BLOCKED" \in LateStates
      BY DEF LateStates
    <2> QED
      BY <1>1, <1>3, <1>4, <2>1, <2>3, <2>4, PendingFacts
  <1>6. file'["drawing-confirmation"] # NoFile
    <2>1. "drawing-confirmation" \in FileNames \ Outside
      BY InsideNames
    <2>2. ~ \E v \in Pending : v.do = "fill" /\ v.name = "drawing-confirmation"
      BY <1>1, PendingFacts
    <2> QED
      BY <1>1, <2>1, <2>2, FileChanges
  <1>7. ASSUME NEW w \in Pending', w.do \in {"append", "event"},
               w.next = "INPUT_CONFIRMATION_REQUIRED"
        PROVE  FALSE
    <2>1. w \notin Pending
      BY <1>1, <1>7
    <2>2. MayBegin(w)
      BY <2>1, PendingBegins
    <2> QED
      BY <1>1, <1>7, <2>2 DEF MayBegin, AppendBegins
  <1> QED
    BY <1>1, <1>5, <1>6, <1>7 DEF PlanWithoutPause, LastState

LEMMA PacketDamageStays ==
    ASSUME RunInv, [Next]_vars, PacketWithoutEvent
    PROVE  PacketWithoutEvent'
  <1>1. /\ LastState(events) = "FINALIZING" /\ events # <<>>
        /\ file["final-review-packet"] # NoFile
        /\ \A w \in Pending : ~(w.do \in {"append", "event"}
                                /\ w.next \in {"READY_FOR_REVIEW", "BLOCKED"})
    BY DEF PacketWithoutEvent, LastState
  <1>2. events' = events
    <2>1. SUFFICES ASSUME NEW v \in Pending, v.do = "event", MayFollow(events, v.next) PROVE FALSE
      BY EventChanges
    <2>2. ValidTransition("FINALIZING", v.next)
      BY <1>1, <2>1 DEF MayFollow
    <2>3. v.next \in {"READY_FOR_REVIEW", "FAILED", "BLOCKED"}
      BY <2>2 DEF ValidTransition, ForwardTransitions, WorkflowStates
    <2> QED
      BY <1>1, <2>1, <2>3, PendingFacts
  <1>3. file'["final-review-packet"] # NoFile
    <2>1. "final-review-packet" \in FileNames \ Outside
      BY InsideNames
    <2>2. \A v \in Pending : v.do = "fill" /\ v.name = "final-review-packet" => v.style = "once"
      BY PendingFacts
    <2> QED
      BY <1>1, <2>1, <2>2, FileChanges
  <1>4. ASSUME NEW w \in Pending', w.do \in {"append", "event"},
               w.next \in {"READY_FOR_REVIEW", "BLOCKED"}
        PROVE  FALSE
    <2>1. w \notin Pending
      BY <1>1, <1>4
    <2>2. MayBegin(w)
      BY <2>1, PendingBegins
    <2> QED
      BY <1>1, <1>4, <2>2 DEF MayBegin, AppendBegins
  <1> QED
    BY <1>1, <1>2, <1>3, <1>4 DEF PacketWithoutEvent, LastState

\* A run a lost call has damaged stays refused: no step of any process, retry or
\* further fault repairs it, overwrites what the lost call wrote or continues past it.
THEOREM FailClosedHolds == Spec => FailClosed
  <1>1. RunInv /\ [Next]_vars => [DamagedForGood => DamagedForGood']_vars
    <2> SUFFICES ASSUME RunInv, [Next]_vars, DamagedForGood PROVE DamagedForGood'
      OBVIOUS
    <2>1. CASE tornEvent
      BY <2>1, TornChanges DEF DamagedForGood
    <2>2. ASSUME NEW n \in FileNames, HalfWritten(n) PROVE DamagedForGood'
      BY <2>2, HalfStays DEF DamagedForGood
    <2>3. CASE InterruptedClassification
      BY <2>3, InterruptionStays DEF DamagedForGood
    <2>4. CASE DatabaseWithoutReceipt
      BY <2>4, DatabaseDamageStays DEF DamagedForGood
    <2>5. CASE PlanWithoutPause
      BY <2>5, PlanDamageStays DEF DamagedForGood
    <2>6. CASE PacketWithoutEvent
      BY <2>6, PacketDamageStays DEF DamagedForGood
    <2> QED
      BY <2>1, <2>2, <2>3, <2>4, <2>5, <2>6 DEF DamagedForGood
  <1> QED
    BY <1>1, RunInvariant, PTL DEF Spec, FailClosed
================================================================================
