--------------------------------- MODULE Gold ---------------------------------
(***************************************************************************)
(* The versions of the gold team, colorharness/gold.py: standards and      *)
(* reference pipelines authored under "major.minor" version texts, which   *)
(* the code compares as texts.  What the versions carry is left out, and   *)
(* so are exceptions, which the gold team hands out and does not keep, and *)
(* calls that raise before they change anything.                           *)
(***************************************************************************)
EXTENDS Registry, Integers, Sequences, SequencesExt

CONSTANTS
  GoldAgents, \* the agents that call gold
  Ids,        \* ids of standards and pipelines
  Versions    \* the version texts used: <<digits, digits>>, digits in Seq(0 .. 9)

VARIABLES
  standards,  \* _standards: id -> the versions authored
  pipelines   \* _pipelines

vars == <<standards, pipelines, registryVars>>

\* The text of a version; a dot sorts before every digit.
Text(v) == v[1] \o <<-1>> \o v[2]

\* Text a sorts before text b: they differ first at k, or a ends there.
SortsBefore(a, b) ==
  \E k \in 1 .. Len(b) :
    /\ \A j \in 1 .. (k - 1) : j <= Len(a) /\ a[j] = b[j]
    /\ k > Len(a) \/ a[k] < b[k]

\* _bump_check: the version sorts after every one there is.
BumpCheck(existing, v) == \A w \in existing : SortsBefore(Text(w), Text(v))

\* _check_actor
IsGold(a) == teamOf[a] = "gold"

Init == /\ standards = [i \in Ids |-> {}] /\ pipelines = [i \in Ids |-> {}]
        /\ RegistryInit

author_standard(a, i, v) ==
  /\ IsGold(a) /\ BumpCheck(standards[i], v)
  /\ standards' = [standards EXCEPT ![i] = @ \cup {v}]
  /\ UNCHANGED <<pipelines, registryVars>>

define_pipeline(a, i, v) ==
  /\ IsGold(a) /\ BumpCheck(pipelines[i], v)
  /\ pipelines' = [pipelines EXCEPT ![i] = @ \cup {v}]
  /\ UNCHANGED <<standards, registryVars>>

\* A new GoldTeam knows no version.
Restart == /\ standards' = [i \in Ids |-> {}] /\ pipelines' = [i \in Ids |-> {}]
           /\ UNCHANGED registryVars

Next ==
  \/ \E a \in GoldAgents, i \in Ids, v \in Versions : author_standard(a, i, v) \/ define_pipeline(a, i, v)
  \/ RegistryStep /\ UNCHANGED <<standards, pipelines>>
  \/ Restart

Spec == Init /\ [][Next]_vars

-----------------------------------------------------------------------------
(* What the module's documentation says that the code does not do *)

\* The number a sequence of digits stands for.
Number(digits) == FoldLeft(LAMBDA n, d : 10 * n + d, 0, digits)

\* Version v is higher than version w, part by part.
Higher(v, w) == \/ Number(v[1]) > Number(w[1])
                \/ Number(v[1]) = Number(w[1]) /\ Number(v[2]) > Number(w[2])

\* gold.py: "strictly-increasing versions within an instance": a version
\* authored is higher than all that were there.
VersionsIncrease ==
  [][\A i \in Ids :
       /\ \A v \in standards'[i] \ standards[i], w \in standards[i] : Higher(v, w)
       /\ \A v \in pipelines'[i] \ pipelines[i], w \in pipelines[i] : Higher(v, w)]_vars
=============================================================================
