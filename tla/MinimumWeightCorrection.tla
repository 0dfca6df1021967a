----------------------- MODULE MinimumWeightCorrection -----------------------
(***************************************************************************)
(* What a decoder promises: asked for a set of detection events, it says   *)
(* that no set of edges explains them, or answers with a lightest set of   *)
(* edges that does - with the edges themselves or with their weight and    *)
(* the observables they cross.  If it may take into account that errors    *)
(* come together, the weights are those that a first such answer implies.  *)
(* Asked for two ends it answers with a lightest path between them.        *)
(***************************************************************************)
EXTENDS Integers, Sequences, FiniteSets, FiniteSetsExt, SequencesExt

CONSTANT Problems

VARIABLES problem, events, ends, answer

Asked == [kind |-> "asked"]
NoMatching == [kind |-> "none"]
Matching(weight, obs) == [kind |-> "matching", weight |-> weight, obs |-> obs]
EdgeList(edges) == [kind |-> "edges", edges |-> edges]

Boundary == 0

\* An edge is named by its ends, all of the boundary being one.
Name(p, i) == {IF n \in p.boundaryNodes THEN Boundary ELSE n : n \in {p.edges[i].u, p.edges[i].v}}
SelfLoop(p, i) == p.edges[i].u = p.edges[i].v

\* The edges that flip a detector, and those that cross an observable.
Flipping(p, n) == {i \in DOMAIN p.edges : n \in Name(p, i) /\ ~SelfLoop(p, i)}
Crossing(p, x) == {i \in DOMAIN p.edges : x \in p.edges[i].obs}

Odd(family) == Cardinality(family) % 2 = 1
Weight(p, family) == MapThenSumSet(LAMBDA i : p.edges[i].weight, family)
Observables(p, family) ==
    {x \in UNION {p.edges[i].obs : i \in family} : Odd(family \cap Crossing(p, x))}

\* The lightest sets of edges that explain a syndrome: that flip each detector of it,
\* and no other, an odd number of times.
Explanations(p, syndrome) ==
    LET flipping == [n \in p.detectors \ p.boundaryNodes |-> Flipping(p, n)]
        families == {f \in SUBSET DOMAIN p.edges :
            \A n \in DOMAIN flipping : n \in syndrome <=> Odd(f \cap flipping[n])}
        lightest == Min({Weight(p, f) : f \in families}) IN
    {f \in families : Weight(p, f) = lightest}

\* Edges from a detector to itself are left out of the list.
Edges(p, family) == {Name(p, i) : i \in {j \in family : ~SelfLoop(p, j)}}

\* The edges that errors on some imply to be more likely weigh less.
Reweighted(p, edges) ==
    LET implied(i) == {r.weight : r \in {q \in p.rules : q.cause \in edges /\ q.effect = Name(p, i)}} IN
    [p EXCEPT !.edges = [i \in DOMAIN @ |->
        [@[i] EXCEPT !.weight = Min({@} \cup implied(i))]]]

Answers(p, syndrome) ==
    LET first == Explanations(p, syndrome)
        second == IF p.correlated
            THEN {Reweighted(p, Edges(p, f)) : f \in first} ELSE {}
        From(q, families) ==
            {Matching(Weight(q, f), Observables(q, f)) : f \in families}
                \cup {EdgeList(Edges(q, f)) : f \in families} IN
    IF first = {} THEN {NoMatching}
    ELSE From(p, first) \cup UNION {From(q, Explanations(q, syndrome)) : q \in second}

-----------------------------------------------------------------------------
\* With weights that are lengths, the lightest edge between two nodes.
Length(p, a, b) ==
    Min({IF w < 0 THEN -w ELSE w :
            w \in {p.edges[i].weight : i \in {j \in DOMAIN p.edges : Name(p, j) = {a, b}}}})
Joined(p, a, b) == \E i \in DOMAIN p.edges : Name(p, i) = {a, b}

\* The graph for a path: with no way through the boundary.
Lengths(p, to) ==
    LET Abs(e) == [e EXCEPT !.weight = IF @ < 0 THEN -@ ELSE @]
        inner == SelectSeq(p.edges, LAMBDA e : {e.u, e.v} \cap (p.boundaryNodes \cup {Boundary}) = {})
        edges == IF to = Boundary THEN p.edges ELSE inner IN
    [p EXCEPT !.edges = [i \in DOMAIN edges |-> Abs(edges[i])]]

\* nodes lead from the one end to the other, the boundary not being a node, and
\* no other way is shorter.
IsLightestPath(p, from, to, nodes) ==
    LET At(end) == IF end \in p.boundaryNodes \cup {Boundary} THEN <<Boundary>> ELSE <<>>
        way == At(from) \o nodes \o At(to)
        steps == 1..(Len(way) - 1)
        outer == {Head(way), Last(way)}
        lengths == Lengths(p, IF Boundary \in outer THEN Boundary ELSE to) IN
    /\ nodes # <<>>
    /\ At(from) = <<>> => Head(nodes) = from
    /\ At(to) = <<>> => Last(nodes) = to
    /\ \A k \in steps : Joined(p, way[k], way[k + 1])
    /\ \A f \in Explanations(lengths, outer \ {Boundary}) :
         Weight(lengths, f) = MapThenSumSet(LAMBDA k : Length(p, way[k], way[k + 1]), steps)

-----------------------------------------------------------------------------
CInit == problem \in Problems /\ events = {} /\ ends = <<>> /\ answer = NoMatching

Ask ==
    /\ answer # Asked
    /\ events' \in SUBSET problem.detectors
    /\ answer' = Asked
    /\ UNCHANGED <<problem, ends>>

AskPath ==
    /\ answer # Asked
    /\ \E from, to \in problem.detectors \cup {Boundary} : ends' = <<from, to>>
    /\ answer' = Asked
    /\ UNCHANGED <<problem, events>>

\* The question is forgotten.
Reply ==
    /\ answer = Asked /\ answer' # Asked
    /\ IF ends = <<>>
       THEN answer' \in Answers(problem, events \ problem.boundaryNodes)
       ELSE /\ answer'.kind = "path"
            /\ IsLightestPath(problem, ends[1], ends[2], answer'.nodes)
    /\ events' = {} /\ ends' = <<>>
    /\ UNCHANGED problem

CorrectionSpec ==
    /\ CInit
    /\ [][Ask \/ AskPath \/ Reply]_<<problem, events, ends, answer>>
    /\ []<>(answer # Asked)

=============================================================================
