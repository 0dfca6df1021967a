---------------------------- MODULE StoppedState ----------------------------
(***************************************************************************)
(* How a cluster that has stopped is handed on: what is left of its Mwpm   *)
(* is exported, and imported into the Mwpm of another cluster, which goes  *)
(* on from there (parallel/mwpm_stopped_state.cc).                         *)
(*                                                                         *)
(* All clusters work on the full graph, so that a node has the same id in  *)
(* each of them.  Regions are numbered anew by every export and import;    *)
(* only which of them are the same matters, so an export keeps the ids.    *)
(***************************************************************************)
EXTENDS Mwpm

\* validate_quiescent_state
Exportable(m) == Wishes(m) = {} /\ DOMAIN m.tree = {}

\* Only nodes that are owned; the match only of regions that are no blossom's child.
Exported(m) ==
    [time |-> m.time,
     node |-> [n \in {k \in DOMAIN m.node : m.node[k].region # None} |-> m.node[n]],
     region |-> [r \in DOMAIN m.region |->
        [m.region[r] EXCEPT !.match = IF m.region[r].parent = None THEN @ ELSE NoMatch]]]

\* Nodes that were reached from the sources given, and every region of a blossom
\* that has one of them; a match with a region that is left out is forgotten.
FilteredToReachedSources(stopped, sources) ==
    LET nodes == {n \in DOMAIN stopped.node : stopped.node[n].source \in sources}
        tops == {stopped.node[n].top : n \in nodes}
        regions == {r \in DOMAIN stopped.region : stopped.region[r].top \in tops}
        Kept(n) == n \in nodes IN
    [stopped EXCEPT
        !.node = [n \in nodes |-> stopped.node[n]],
        !.region = [r \in regions |->
            [stopped.region[r] EXCEPT
                !.match = IF @.region \in regions \cup {None} THEN @ ELSE NoMatch,
                !.shell = SelectSeq(@, Kept)]]]

ExportedForActiveDetectors(m, sources) == FilteredToReachedSources(Exported(m), sources)

\* An import must not take nodes from their owners.
WouldOverwrite(m, stopped) == \E n \in DOMAIN stopped.node : m.node[n].region # None

\* The slots that the regions of the stopped state get.
Slots(m, stopped) ==
    LET old == SetToSortSeq(DOMAIN stopped.region, <)
        taken == DOMAIN m.region
        free == SetToSortSeq((1..(Cardinality(taken) + Len(old))) \ taken, <) IN
    [r \in DOMAIN stopped.region |-> free[CHOOSE i \in DOMAIN old : old[i] = r]]

\* The clock advances only if nothing is queued: the buckets of the radix heap
\* depend on it.
Imported(m, stopped) ==
    LET slot == Slots(m, stopped) @@ (None :> None)
        Moved(region) ==
            [region EXCEPT
                !.parent = slot[@], !.top = slot[@], !.match.region = slot[@],
                !.children = [i \in DOMAIN @ |-> [@[i] EXCEPT !.region = slot[@]]]] IN
    [m EXCEPT
        !.time = IF Wishes(m) = {} THEN Max({@, stopped.time}) ELSE @,
        !.region = [q \in {slot[r] : r \in DOMAIN stopped.region} |->
            Moved(stopped.region[CHOOSE r \in DOMAIN stopped.region : slot[r] = q])] @@ @,
        !.node = [n \in DOMAIN stopped.node |->
            [stopped.node[n] EXCEPT
                !.region = slot[@], !.top = slot[@], !.look = Never]] @@ @]

\* Mutant: nothing is looked at that was imported.
RescheduleNothing(m, stopped) == m

\* reschedule_imported_detector_nodes
RescheduleImported(m, stopped) == RescheduleNodes(m, DOMAIN stopped.node)

=============================================================================
