-------------------------------- MODULE Pages --------------------------------
(***************************************************************************)
(* The list of open incidents, page by page (index of web.py, with         *)
(* instance_page of store.py): a page reads the fleet, then the incidents  *)
(* of one workload after another, each in a transaction of its own, up to  *)
(* one more than fits; the next page starts behind the last one shown.     *)
(* Meanwhile the worker opens incidents and operators close them.          *)
(***************************************************************************)
EXTENDS Naturals, FiniteSets

CONSTANTS
  Workloads,   \* numbered in the order of their slugs
  Where,       \* the workload of each incident; incidents are numbered as their identities are ordered
  ListSize,    \* incidents on a page
  MaxChanges   \* bound: incidents opened or closed, and workloads that start or stop

Incidents == DOMAIN Where

ASSUME PagesAssumption ==
  /\ Workloads \subseteq Nat /\ IsFiniteSet(Workloads)
  /\ Where \in [Incidents -> Workloads] /\ Incidents \subseteq Nat \ {0} /\ IsFiniteSet(Incidents)
  /\ ListSize \in Nat \ {0}

VARIABLES
  open, running, changes,
  fleet,      \* the workloads that the page has yet to list
  foremost,   \* those that ran when the page read the fleet
  after,      \* the identity behind which the next workload is listed, 0 for the first
  items,      \* incidents read for the page so far
  position,   \* the cursor: the incident behind which the page starts, 0 for the first page
  shown,      \* how often the reader saw each incident
  reader,     \* wait, page, end
  stayed,     \* incidents open ever since the first page
  moved       \* whether a workload started or stopped since then

pagesVars == <<open, running, changes, fleet, foremost, after, items, position, shown, reader, stayed, moved>>

PagesInit ==
  /\ open \in SUBSET Incidents /\ running = {} /\ changes = 0
  /\ fleet = {} /\ foremost = {} /\ after = 0 /\ items = {} /\ position = 0
  /\ shown = [i \in Incidents |-> 0] /\ reader = "wait" /\ stayed = {} /\ moved = FALSE

Change ==
  /\ changes < MaxChanges /\ changes' = changes + 1
  /\ \/ \E i \in Incidents :
          /\ open' = (IF i \in open THEN open \ {i} ELSE open \cup {i}) /\ stayed' = stayed \ {i}
          /\ UNCHANGED <<running, moved>>
     \/ \E w \in Workloads :
          /\ running' = (IF w \in running THEN running \ {w} ELSE running \cup {w})
          /\ moved' = TRUE /\ UNCHANGED <<open, stayed>>
  /\ UNCHANGED <<fleet, foremost, after, items, position, shown, reader>>

----------------------------------------------------------------------------

\* Those that run come first.
Precedes(v, w, run) == IF v \in run <=> w \in run THEN v < w ELSE v \in run

\* The order of the page, and the first few in that order.
Sooner(i, j) == IF Where[i] = Where[j] THEN i < j ELSE Precedes(Where[i], Where[j], foremost)
Place(i, S) == Cardinality({j \in S : Sooner(j, i)})
FirstOf(S, limit) == {i \in S : Place(i, S) < limit}

OpenPage ==
  /\ reader = "wait" /\ reader' = "page" /\ items' = {} /\ foremost' = running /\ after' = position
  /\ fleet' = {w \in Workloads : \/ position = 0 \/ Where[position] = w
                                 \/ Precedes(Where[position], w, running)}
  /\ IF position = 0 THEN stayed' = open /\ moved' = FALSE ELSE UNCHANGED <<stayed, moved>>
  /\ UNCHANGED <<open, running, changes, position, shown>>

\* instance_page: at most limit incidents of w behind an identity.
Listed(w, behind, limit) == FirstOf({i \in open : Where[i] = w /\ i > behind}, limit)

List(w) ==
  /\ reader = "page" /\ w \in fleet /\ \A v \in fleet \ {w} : Precedes(w, v, foremost)
  /\ Cardinality(items) <= ListSize
  /\ items' = items \cup Listed(w, after, ListSize + 1 - Cardinality(items))
  /\ fleet' = fleet \ {w} /\ after' = 0
  /\ UNCHANGED <<open, running, changes, foremost, position, shown, reader, stayed, moved>>

\* Fault: the next page starts behind what was read, not what was shown.
Fault_LastShown == Cardinality(items)

LastShown == ListSize

Show ==
  /\ reader = "page" /\ (fleet = {} \/ Cardinality(items) > ListSize)
  /\ shown' = [i \in Incidents |-> IF i \in FirstOf(items, ListSize) THEN shown[i] + 1 ELSE shown[i]]
  /\ IF Cardinality(items) > ListSize
     THEN position' \in {i \in items : Place(i, items) = LastShown - 1} /\ reader' = "wait"
     ELSE position' = 0 /\ reader' = "end"
  /\ items' = {} /\ fleet' = {} /\ after' = 0
  /\ UNCHANGED <<open, running, changes, foremost, stayed, moved>>

\* The database does not answer: the page says so, lists nothing, and is loaded again.
Unavailable ==
  /\ reader = "page" /\ reader' = "wait" /\ items' = {} /\ fleet' = {} /\ after' = 0
  /\ UNCHANGED <<open, running, changes, foremost, position, shown, stayed, moved>>

PagesNext == Change \/ OpenPage \/ (\E w \in Workloads : List(w)) \/ Show \/ Unavailable

PagesSpec == PagesInit /\ [][PagesNext]_pagesVars

----------------------------------------------------------------------------
(* Properties *)

\* Whatever is opened and closed between and within the pages, and whatever page is
\* loaded again, a reader who turns them all sees no incident twice and misses none that
\* stayed open, unless a workload started or stopped meanwhile.
PagesShowEveryIncident ==
  ~moved =>
    /\ \A i \in Incidents : shown[i] <= 1
    /\ reader = "end" => \A i \in stayed : shown[i] = 1
=============================================================================
