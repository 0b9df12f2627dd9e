----------------------------- MODULE DurableLog -----------------------------
(***************************************************************************)
(* What eventlog.py promises in its first line, a durable, append-only log *)
(* with idempotent replay: entries are added one by one and never leave    *)
(* it, no key has two, a process that serves it knows all of them and      *)
(* nothing else, and callers are told of stored entries only.  There is no *)
(* file here, no line, no cache kept beside it and no crash.  Coordinator  *)
(* uses its log as one of these; EventStore is one as long as no write     *)
(* fails or tears.                                                         *)
(***************************************************************************)
EXTENDS Naturals, Sequences

VARIABLES
  stored,   \* the entries, [key, id], in the order they were added
  served,   \* those a running process answers requests from
  told      \* those callers have an answer about

durableVars == <<stored, served, told>>

EntriesOf(s) == {s[i] : i \in DOMAIN s}

DurableInit == stored = <<>> /\ served = {} /\ told = {}

\* An entry of a new key, made after all others, is added behind them.
Store ==
  \E e \in EntriesOf(stored') :
    /\ stored' = Append(stored, e)
    /\ \A d \in EntriesOf(stored) : d.key # e.key /\ d.id < e.id

\* Whatever a process does besides, it serves all that is stored or is not
\* there, and tells of what is stored.
Serves == served' \in {{}, EntriesOf(stored')} /\ told' \subseteq EntriesOf(stored')

DurableNext == (Store \/ UNCHANGED stored) /\ Serves

DurableSpec == DurableInit /\ [][DurableNext]_durableVars
=============================================================================
