------------------------------ MODULE MCSelect ------------------------------
(* Instances of Select for TLC. *)
EXTENDS Select

CONSTANT word

(* As texts, "10" < word < "9". *)
Rank ==
    [v \in Value |-> CASE v = NULL -> 0
                       [] v = 10 -> 1
                       [] v = word -> 2
                       [] v = 9 -> 3]

Ascending(col) == [col |-> col, asc |-> TRUE]
Descending(col) == [col |-> col, asc |-> FALSE]

Orders ==
    { <<>>, <<Ascending("a")>>, <<Descending("a")>>, <<Ascending("b")>>,
      <<Ascending("a"), Descending("b")>>, <<Ascending("b"), Ascending("a")>>,
      <<Descending("b"), Ascending("a")>> }

Select(from, shape, cols, order, offset, limit, distinct) ==
    [from |-> from, shape |-> shape, cols |-> cols, group |-> NoGroup,
     having |-> 0, order |-> order, offset |-> offset, limit |-> limit, distinct |-> distinct,
     point |-> FALSE]

(* OFFSET and LIMIT. *)
Pages == { <<0, NoLimit>>, <<1, NoLimit>>, <<0, 2>>, <<1, 1>> }

Lone ==
    { Select("table", shape[1], cols, order, page[1], page[2], shape[2]) :
        shape \in {<<"columns", TRUE>>, <<"columns", FALSE>>,
                   <<"expressions", FALSE>>},
        cols \in {{"a"}, {"b"}, {"a", "b"}},
        order \in Orders, page \in Pages }

OfOneRow ==
    { [Select("table", shape, cols, order, page[1], page[2], distinct)
          EXCEPT !.point = TRUE] :
        shape \in {"columns", "expressions"}, cols \in {{"b"}, {"a", "b"}},
        order \in {<<>>, <<Descending("a")>>},
        page \in Pages \cup {<<0, 0>>}, distinct \in BOOLEAN }

OfJoins ==
    { Select(from, "columns", cols, order, page[1], page[2], FALSE) :
        from \in {"join", "left_join"}, cols \in {{"b"}, {"a", "b", "c"}},
        order \in Orders, page \in {<<0, NoLimit>>, <<1, 1>>} }

Grouping ==
    { [q EXCEPT !.group = g, !.order = order, !.having = having] :
        q \in { Select(from, "columns", {}, <<>>, 0, limit, FALSE) :
                  from \in {"table", "join", "left_join"},
                  limit \in {NoLimit, 1} },
        g \in {"a", "b"},
        order \in {<<>>, <<Descending("count")>>, <<Ascending("a")>>},
        having \in 0..1 }

Others ==
    { Select("table", "aggregates", {}, <<>>, 0, NoLimit, FALSE) }
    \cup { Select("union", "columns", {"a"}, <<>>, 0, NoLimit, distinct) :
             distinct \in BOOLEAN }

LeftRow == {r \in [{"a", "b"} -> {9, 10, word, NULL}] : r["b"] \in {10, NULL}}

RightRow == [{"c"} -> {9, NULL}]

UpTo(n, set) == UNION {[1..m -> set] : m \in 0..n}

Everything ==
    (Lone \X UpTo(3, LeftRow) \X {<<>>})
    \cup (OfOneRow \X UpTo(1, LeftRow) \X {<<>>})
    \cup ((OfJoins \cup Grouping \cup Others) \X UpTo(2, LeftRow) \X UpTo(2, RightRow))
=============================================================================
