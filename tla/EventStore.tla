----------------------------- MODULE EventStore -----------------------------
(***************************************************************************)
(* EventLog of colorharness/eventlog.py as a store: the list and the cache *)
(* in memory, the file behind them, writes that fail or tear, processes    *)
(* that die, and the load that skips an unreadable last line.  Coordinator *)
(* takes this store for one whose file is its list; here is when it is.    *)
(*                                                                         *)
(* An event is its idempotency key and a number that no other event has,   *)
(* given in the order the events are made; fingerprints are in Coordinator.*)
(* The list is kept as a set: the numbers tell its order (OneLinePerKey).   *)
(***************************************************************************)
EXTENDS JsonLines, FiniteSets

CONSTANTS
  Keys,       \* idempotency keys, (actor, request id)
  Uncoded,    \* keys whose events hold characters beyond ASCII
  MaxEvents,  \* bound: events made
  MaxTorn     \* bound: writes that fail or die

ASSUME StoreAssumption == Uncoded \subseteq Keys /\ {MaxEvents, MaxTorn} \subseteq Nat

VARIABLES
  events,   \* events and _seen
  file,
  status,   \* "up"; "down", no process; "refused", the load raised
  issued,   \* events made so far
  returned, \* events some caller was told of
  torn      \* writes that raised or died

vars == <<events, file, status, issued, returned, torn>>

Event == [key : Keys, id : Nat]

NewEvent(k) == [key |-> k, id |-> issued + 1]

\* The cached entries of a key.
Known(k) == {e \in events : e.key = k}

Init == /\ events = {} /\ file = EmptyFile /\ status = "up"
        /\ issued = 0 /\ returned = {} /\ torn = 0

\* A new event gets a number; list and cache have it before the file.
Remember(k) ==
  /\ status = "up" /\ Known(k) = {} /\ issued < MaxEvents
  /\ issued' = issued + 1
  /\ events' = events \cup {NewEvent(k)}

append(k) ==
  /\ Remember(k)
  /\ file' = Written(file, NewEvent(k))
  /\ returned' = returned \cup {NewEvent(k)}
  /\ UNCHANGED <<status, torn>>

\* A key the cache knows is answered from it.
append_Cached(k) ==
  /\ status = "up" /\ Known(k) # {}
  /\ returned' = returned \cup Known(k)
  /\ UNCHANGED <<events, file, status, issued, torn>>

Interrupts(k) ==
  /\ torn < MaxTorn
  /\ torn' = torn + 1
  /\ file' \in Interrupted(file, NewEvent(k), IF k \in Uncoded THEN Cuts ELSE {"part"})

\* _write raises OSError: the event stays in memory.
append_Raises(k) ==
  /\ Remember(k)
  /\ Interrupts(k)
  /\ UNCHANGED <<status, returned>>

\* The process dies in append: in _write, or before it or when it is done.
append_Dies(k) ==
  /\ status = "up" /\ Known(k) = {} /\ issued < MaxEvents
  /\ issued' = issued + 1
  /\ \/ Interrupts(k)
     \/ file' \in {file, Written(file, NewEvent(k))} /\ UNCHANGED torn
  /\ status' = "down" /\ events' = {}
  /\ UNCHANGED returned

\* The process ends between two calls.
Stop == /\ status = "up"
        /\ status' = "down" /\ events' = {}
        /\ UNCHANGED <<file, issued, returned, torn>>

\* Faulty variant: the last line dropped without looking at it.
Loaded_LastBug(f) == {f.lines[i][1].item : i \in ObjectLines(f) \ {Len(f.lines)}}

\* What _load makes of a file: its objects ...
Loaded(f) == Objects(f)

\* ... unless a line other than the last is none.
Loads(f) == Decodes(f) /\ \A i \in DOMAIN f.lines \ {Len(f.lines)} : IsObject(f.lines[i])

\* A new EventLog on the file.
Open ==
  /\ status = "down"
  /\ IF Loads(file)
     THEN status' = "up" /\ events' = Loaded(file)
     ELSE status' = "refused" /\ events' = {}
  /\ UNCHANGED <<file, issued, returned, torn>>

Next == \/ \E k \in Keys : append(k) \/ append_Cached(k) \/ append_Raises(k) \/ append_Dies(k)
        \/ Stop
        \/ Open

Spec == Init /\ [][Next]_vars

-----------------------------------------------------------------------------
(* Properties *)

\* Every variable holds a value of its kind; a running process knows every event
\* that can be read from the file.
TypeOK ==
  /\ events \subseteq Event
  /\ file \in Files(Event)
  /\ status \in {"up", "down", "refused"}
  /\ issued \in Nat /\ torn \in Nat
  /\ returned \subseteq Event
  /\ \A e \in events \cup Objects(file) : e.id <= issued
  /\ IF status = "up" THEN Objects(file) \subseteq events ELSE events = {}

\* No key has two events on file, through failed and torn writes, resends and
\* restarts: a resend is executed again only when its event is beyond reading.
\* What can be read stands in the order in which it was made.
OneLinePerKey ==
  \A i, j \in ObjectLines(file) : i < j =>
    /\ file.lines[i][1].item.key # file.lines[j][1].item.key
    /\ file.lines[i][1].item.id < file.lines[j][1].item.id

\* A failed or torn write costs its own event and the one written after it on
\* the same line, nothing more: all other events a caller was told of stand on
\* file, readable (also when the load refuses the file).
LossIsBounded == Cardinality(returned \ Objects(file)) <= 2 * torn

\* The file of a log none of whose writes failed, read line by line.
Lines == [i \in DOMAIN file.lines |-> file.lines[i][1].item]

Durable == INSTANCE DurableLog WITH stored <- Lines, served <- events, told <- returned

\* Until a write fails or tears, the event log is what eventlog.py:1 calls it,
\* also when processes end or die between, before and after their writes: no
\* event is lost or reordered, none is stored twice, a restart serves them all.
IsDurable == Durable!DurableInit /\ [][torn' = 0 => Durable!DurableNext]_vars
=============================================================================
