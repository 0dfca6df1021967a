--------------------------- MODULE MCSparseBlossom ---------------------------
EXTENDS SparseBlossom

\* An edge without and one with an observable, and a rule.
E(u, v, w) == [u |-> u, v |-> v, weight |-> w, obs |-> {}]
X(u, v, w) == [u |-> u, v |-> v, weight |-> w, obs |-> {1}]

R(cause, effect, w) == [cause |-> cause, effect |-> effect, weight |-> w]

\* Between them the graphs have every kind of event: blossoms in blossoms that
\* shatter either way around, implosions, matches with the boundary, negative
\* edges, nodes of the boundary, parallel edges, and sets of events without a
\* matching.  Paths have up to five edges and cross each other, and there are edges
\* that are reweighted twice.
MCProblems == {
    [detectors |-> 1..6, boundaryNodes |-> {}, rules |-> {}, correlated |-> FALSE,
     wide |-> FALSE, asks |-> {"matching"},
     edges |-> <<E(1, None, 6), X(1, 4, 4), E(4, None, 4), E(4, 6, 4), E(2, 4, 8),
                 E(1, 3, 6), E(2, 5, 8), X(1, 5, 4), E(3, 4, 4), E(4, 5, 4)>>],
    [detectors |-> 1..7, boundaryNodes |-> {}, rules |-> {}, correlated |-> FALSE,
     wide |-> FALSE, asks |-> {"matching"},
     edges |-> <<E(1, 2, 2), E(1, 3, 8), E(2, 4, 8), E(2, 5, 8), E(2, 6, 4),
                 E(4, 5, 4), E(4, 7, 2), X(1, None, 6), E(5, None, 10)>>],
    [detectors |-> 1..5, boundaryNodes |-> {}, rules |-> {}, correlated |-> FALSE,
     wide |-> TRUE, asks |-> {"matching", "edges"},
     edges |-> <<E(1, 2, 6), E(1, 3, 2), E(2, 3, 4), X(2, 4, 6), E(3, 5, 2),
                 E(4, 5, 4), E(1, None, 4)>>],
    [detectors |-> 1..5, boundaryNodes |-> {}, rules |-> {}, correlated |-> FALSE,
     wide |-> FALSE, asks |-> {"matching", "edges", "path"},
     edges |-> <<E(1, 2, 8), X(1, 3, 2), E(1, 5, 2), E(2, 4, -2), E(2, 5, 2), E(4, 5, 4)>>],
    [detectors |-> 1..6, boundaryNodes |-> {6}, rules |-> {}, correlated |-> FALSE,
     wide |-> FALSE, asks |-> {"matching", "edges"},
     edges |-> <<E(1, 3, 6), E(2, 4, 6), E(3, 4, 6), X(4, 5, 8), X(3, None, -4),
                 E(5, None, 4)>>],
    [detectors |-> 1..6, boundaryNodes |-> {}, rules |-> {}, correlated |-> FALSE,
     wide |-> FALSE, asks |-> {"matching"},
     edges |-> <<E(1, 2, 2), X(2, 3, 2), E(1, 3, 2), E(3, 4, 4), E(4, None, 4),
                 E(1, 5, 16), E(4, 6, 18), X(5, 6, 44), E(5, None, 40)>>],
    [detectors |-> 1..5, boundaryNodes |-> {4, 5}, rules |-> {}, correlated |-> FALSE,
     wide |-> TRUE, asks |-> {"matching", "edges", "path"},
     edges |-> <<E(1, 2, 8), X(2, 1, 4), E(2, 3, 4), E(1, 4, 4), X(5, 1, 4), X(3, 5, -2),
                 E(4, 5, 2), E(1, 2, 10), X(3, 3, -2), E(2, 4, 6)>>],
    [detectors |-> 1..6, boundaryNodes |-> {}, rules |-> {}, correlated |-> FALSE,
     wide |-> FALSE, asks |-> {"edges", "path"},
     edges |-> <<E(1, 2, 4), E(2, 3, 2), E(3, 4, -6), E(4, 5, 4), E(5, 6, 2),
                 E(6, 1, 6), E(2, 5, 10), X(4, None, 4)>>],
    [detectors |-> 1..5, boundaryNodes |-> {}, correlated |-> TRUE,
     wide |-> FALSE, asks |-> {"matching", "edges"},
     rules |-> {R({1, 2}, {3, 4}, 4), R({4, 5}, {3, 4}, 2), R({4, 5}, {2, 3}, 0),
                R({3, 4}, {1, None}, 2)},
     edges |-> <<E(1, None, 6), E(1, 2, 4), X(2, 3, 4), E(3, 4, 8), E(4, 5, 2),
                 X(2, 5, 10)>>]
}

=============================================================================
