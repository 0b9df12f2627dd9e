------------------------------ MODULE Evidence ------------------------------
(***************************************************************************)
(* The evidence ledger of colorharness/ledger.py under the calls of        *)
(* colorharness/governance.py that record what the teams hand in: outputs  *)
(* appended record by record until one is refused, drafts and their        *)
(* completion, the chain of previous hashes, the strict load, and writes   *)
(* that fail or die; and the two questions the coordinator's evidence      *)
(* gates ask of it.                                                        *)
(*                                                                         *)
(* A record's hash is its number: no two records have the same body.       *)
(***************************************************************************)
EXTENDS JsonLines, FiniteSets

CONSTANTS
  Tasks,
  Outputs,    \* [team, task, items]: the record_*_output calls made
  Drafts,     \* <<task, type>>: records appended with status "draft"
  Encoded,    \* do records hold characters beyond ASCII
  None,
  MaxRecords, \* bound: records made
  MaxTorn     \* bound: writes that fail or die

\* What each call accepts, by the record types it appends.
ObserverTypes == {"observation"}
BlueTypes == {"alert", "recommendation", "runbook_entry"}
BlackTypes == {"hypothesis", "experiment", "diagnosis"}
SilverTypes == {"change"}
YellowTypes == {"test_result"}
RedTypes == {"finding"}
PurpleTypes == {"remediation"}
GoldTypes == {"standard", "pipeline", "exception"}
GreenTypes == {"release", "rollback"}

OutputTypes ==
  [observer |-> ObserverTypes, blue |-> BlueTypes, black |-> BlackTypes, silver |-> SilverTypes,
   yellow |-> YellowTypes, red |-> RedTypes, purple |-> PurpleTypes, gold |-> GoldTypes,
   green |-> GreenTypes]

Types == UNION {OutputTypes[team] : team \in DOMAIN OutputTypes}

\* sound: complete, without secrets and without interpretation of a fact;
\* passed: exit status 0, of a test result.
Items == [type : Types \cup {"other"}, passed : BOOLEAN, sound : BOOLEAN]

ASSUME CallsAssumption ==
  /\ Outputs \subseteq [team : DOMAIN OutputTypes, task : Tasks, items : Seq(Items)]
  /\ Drafts \subseteq Tasks \X Types
  /\ Encoded \in BOOLEAN
  /\ {MaxRecords, MaxTorn} \subseteq Nat
  /\ None \notin Nat

VARIABLES
  records,  \* _records, and _index by their numbers
  file,
  status,   \* "up"; "down", no process; "refused", the load raised
  issued,   \* records made so far
  returned, \* records some caller was told of
  torn,     \* writes that raised or died
  unwritten \* records in memory whose write raised

vars == <<records, file, status, issued, returned, torn, unwritten>>

RangeOf(s) == {s[i] : i \in DOMAIN s}

Record == [id : Nat, type : Types, task : Tasks, passed : BOOLEAN,
           status : {"draft", "complete"}, refs : Nat \cup {None}, prev : Nat]

-----------------------------------------------------------------------------
(* EvidenceLedger.append *)

\* The number whose hash the k-th record of a call carries on: 0 is GENESIS.
\* Faulty variant: taken once, before the call's first append.
PrevHash_OnceBug(k) == IF records = <<>> THEN 0 ELSE records[Len(records)].id

PrevHash(k) == IF k > 1 THEN issued + k - 1
               ELSE IF records = <<>> THEN 0 ELSE records[Len(records)].id

Sealed(k, task, type, passed, st, refs) ==
  [id |-> issued + k, type |-> type, task |-> task, passed |-> passed,
   status |-> st, refs |-> refs, prev |-> PrevHash(k)]

\* Faulty variant: a completed record takes its draft's place.
Appended_InPlaceBug(xs) ==
  SelectSeq(records, LAMBDA r : \A k \in DOMAIN xs : xs[k].refs # r.id) \o xs

\* The list with the records xs: nothing in it is replaced.
Appended(xs) == records \o xs

Makes(xs) == status = "up" /\ issued + Len(xs) <= MaxRecords /\ issued' = issued + Len(xs)

\* The records xs are appended; the caller is told unless an exception follows.
Append_All(xs, raises) ==
  /\ Makes(xs)
  /\ records' = Appended(xs)
  /\ file' = WrittenAll(file, xs)
  /\ returned' = IF raises THEN returned ELSE returned \cup RangeOf(xs)
  /\ UNCHANGED <<status, torn, unwritten>>

\* The last of xs is the one whose write is interrupted.
Interrupts(xs) ==
  /\ xs # <<>>
  /\ torn < MaxTorn /\ torn' = torn + 1
  /\ LET last == xs[Len(xs)]
         before == WrittenAll(file, SubSeq(xs, 1, Len(xs) - 1))
     IN  file' \in Interrupted(before, last, IF Encoded THEN Cuts ELSE {"part"})

\* OSError: the record stays in memory, the rest of the call is not reached.
Append_Raises(xs) ==
  /\ Makes(xs) /\ Interrupts(xs)
  /\ records' = Appended(xs)
  /\ unwritten' = unwritten \cup {xs[Len(xs)].id}
  /\ UNCHANGED <<status, returned>>

Append_Dies(xs) ==
  /\ Makes(xs) /\ Interrupts(xs)
  /\ status' = "down" /\ records' = <<>>
  /\ UNCHANGED <<returned, unwritten>>

\* A call that appends xs and then, if it does so, raises.
Call(xs, raises) ==
  \/ Append_All(xs, raises)
  \/ \E n \in DOMAIN xs : Append_Raises(SubSeq(xs, 1, n)) \/ Append_Dies(SubSeq(xs, 1, n))

-----------------------------------------------------------------------------
(* The calls *)

Refused(o, k) == o.items[k].type \notin OutputTypes[o.team] \/ ~o.items[k].sound

\* The first n items of an output are those before the first that is refused.
Accepted(o, n) == /\ \A k \in 1 .. n : ~Refused(o, k)
                  /\ n < Len(o.items) => Refused(o, n + 1)

\* record_observations and the record_*_output calls: earlier records stay
\* when a later one is refused.
record_output(o) ==
  \E n \in 0 .. Len(o.items) :
    /\ Accepted(o, n)
    /\ Call([k \in 1 .. n |->
               Sealed(k, o.task, o.items[k].type, o.items[k].passed, "complete", None)],
            n < Len(o.items))

\* A draft counts as what its payload says so far: a test result without an exit
\* status has not passed.
append_draft(t, type, passed) == Call(<<Sealed(1, t, type, passed, "draft", None)>>, FALSE)

\* complete_evidence: a new record that refers to the incomplete one, however
\* often it is called.  Its payload is merged with a new one, exit status included.
complete_evidence(r, passed) ==
  /\ r.status # "complete"
  /\ Call(<<Sealed(1, r.task, r.type, passed, "complete", r.id)>>, FALSE)

\* The process ends between two calls.
Stop == /\ status = "up"
        /\ status' = "down" /\ records' = <<>>
        /\ UNCHANGED <<file, issued, returned, torn, unwritten>>

\* Faulty variant: a last line that is no record is skipped, as EventLog does.
Loads_SkipBug(f) == Decodes(f) /\ \A i \in DOMAIN f.lines \ {Len(f.lines)} : IsObject(f.lines[i])

\* _load takes no line that is not a record.
Loads(f) == Decodes(f) /\ \A i \in DOMAIN f.lines : IsObject(f.lines[i])

Loaded(f) == [i \in ObjectLines(f) |-> f.lines[i][1].item]

\* A new EvidenceLedger on the file.
Open ==
  /\ status = "down"
  /\ IF Loads(file)
     THEN status' = "up" /\ records' = Loaded(file)
     ELSE status' = "refused" /\ records' = <<>>
  /\ UNCHANGED <<file, issued, returned, torn, unwritten>>

-----------------------------------------------------------------------------
(* The coordinator's questions *)

has_evidence(t, type) == \E r \in RangeOf(records) : r.task = t /\ r.type = type

TestResults(t) == {i \in DOMAIN records : records[i].task = t /\ records[i].type = "test_result"}

\* Faulty variant: the latest result decides.
verification_passing_LatestBug(t) ==
  \E i \in TestResults(t) : records[i].passed /\ \A j \in TestResults(t) : j <= i

verification_passing(t) ==
  TestResults(t) # {} /\ \A i \in TestResults(t) : records[i].passed

\* What verify_chain asks of the i-th record.
ChainHolds(i) == records[i].prev = IF i = 1 THEN 0 ELSE records[i - 1].id

-----------------------------------------------------------------------------
Init == /\ records = <<>> /\ file = EmptyFile /\ status = "up"
        /\ issued = 0 /\ returned = {} /\ torn = 0 /\ unwritten = {}

Next == \/ \E o \in Outputs : record_output(o)
        \/ \E d \in Drafts, passed \in BOOLEAN : append_draft(d[1], d[2], passed)
        \/ \E r \in RangeOf(records), passed \in BOOLEAN : complete_evidence(r, passed)
        \/ Stop
        \/ Open

Spec == Init /\ [][Next]_vars

-----------------------------------------------------------------------------
(* Properties *)

\* Every variable holds a value of its kind; a running process holds every
\* record that can be read from the file, drafts that were completed included.
TypeOK ==
  /\ records \in Seq(Record)
  /\ file \in Files(Record)
  /\ status \in {"up", "down", "refused"}
  /\ issued \in Nat /\ torn \in Nat
  /\ returned \subseteq Record
  /\ unwritten \subseteq 1 .. issued
  /\ IF status = "up" THEN Objects(file) \subseteq RangeOf(records) ELSE records = <<>>

\* evidence-schema.md, rule 1, "evidence is immutable": a record a caller was
\* told of is in the ledger, unchanged, of every process that opens it. An
\* interrupted write may stop the ledger from opening, it never loses such a
\* record silently.
ReturnedSurvives == status = "up" => returned \subseteq RangeOf(records)

\* Coordinator counts on evidence that is never withdrawn, and governance.py
\* says that "failed checks block progression": what a caller was told is on
\* record answers the evidence gates in every process after, and a task with a
\* failed result passes verification in none.
GateAnswersStand ==
  status = "up" =>
    \A r \in returned :
      /\ has_evidence(r.task, r.type)
      /\ (r.type = "test_result" /\ ~r.passed) => ~verification_passing(r.task)

\* verify_chain fails only for a loss: where a record does not carry on the
\* hash of the one before it, it carries on that of a record whose write failed.
ChainBreaksAtALoss ==
  \A i \in DOMAIN records : ChainHolds(i) \/ records[i].prev \in unwritten
=============================================================================
