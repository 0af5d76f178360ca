------------------------------- MODULE Select -------------------------------
(***************************************************************************)
(* How the engine (src/src/engine.rs: select, select_joined) turns the     *)
(* rows that pass WHERE into a result: the join, grouping, aggregates, the *)
(* passes of ORDER BY, projection, OFFSET, LIMIT, DISTINCT and UNION, in   *)
(* the order of the code, which differs from one kind of query to another. *)
(*                                                                         *)
(* A table is the sequence of its rows that pass WHERE (TableStore has how *)
(* they are found).  A query runs under read locks, so its tables do not   *)
(* change meanwhile; between queries they become anything.                 *)
(***************************************************************************)
EXTENDS Integers, Sequences, FiniteSets

CONSTANTS
    Numbers,     \* integers in the tables
    Words,       \* texts in the tables that do not spell a number
    TextRank,    \* the place of a value's text in the order of texts
    NULL,
    LeftCols,    \* columns of the first table
    RightCols,   \* columns of the second one
    LeftKey,     \* ON LeftKey = RightKey
    RightKey,
    Addend,      \* the column of SUM
    NoLimit,
    NoGroup,
    Asked        \* the queries clients send: <<query, rows, rows>>

Value == Numbers \cup Words \cup {NULL}

(* NULL is no integer, and its text is empty. *)
ASSUME ValueAssumption ==
    /\ Numbers \subseteq Int /\ NULL \notin Numbers
    /\ TextRank \in [Value -> Nat]
    /\ \A v \in Value \ {NULL} : TextRank[NULL] < TextRank[v]
    /\ \A v, w \in Value : TextRank[v] = TextRank[w] => v = w

ASSUME ColumnAssumption ==
    /\ LeftCols \cap RightCols = {}
    /\ LeftKey \in LeftCols /\ RightKey \in RightCols
    /\ Addend \in LeftCols
    /\ {"count", "sum", "max"} \cap (LeftCols \cup RightCols) = {}
    /\ NoGroup \notin LeftCols \cup RightCols \cup {"count", "sum", "max"}
    /\ NoLimit \notin Nat

VARIABLES
    query,  \* the query that is executed
    first,  \* the rows of its tables
    second,
    stage,  \* how far it is
    keys,   \* keys of ORDER BY that have yet to be sorted by
    rows    \* what has become of the rows

tables == <<first, second>>
vars == <<query, tables, stage, keys, rows>>

-----------------------------------------------------------------------------
(* Queries. *)

Columns == LeftCols \cup RightCols

Figures == {"count", "sum", "max"}

Key == [col : Columns \cup Figures, asc : BOOLEAN]

(* The projection consists of columns, or has an expression among them, or *)
(* aggregates only.  A UNION is over the key column of each side.  HAVING  *)
(* asks for groups of more than so many rows.  WHERE may ask for one row   *)
(* of a table, by a point of its PRIMARY KEY.                              *)
Query ==
    [from : {"table", "join", "left_join", "union"},
     shape : {"columns", "expressions", "aggregates"},
     cols : SUBSET Columns,
     group : Columns \cup {NoGroup},
     having : Nat,
     order : Seq(Key),
     offset : Nat,
     limit : Nat \cup {NoLimit},
     distinct : BOOLEAN,
     point : BOOLEAN]

Joins(q) == q.from \in {"join", "left_join"}
Grouped(q) == q.group # NoGroup

(* The queries that are answered from the index at once. *)
ByKey(q) ==
    q.from = "table" /\ q.shape = "columns" /\ ~Grouped(q) /\ q.point

(* The columns of the rows that a query starts from. *)
SourceCols(q) == IF Joins(q) THEN Columns ELSE LeftCols

(* The columns that a query names exist.  Groups are not united, and       *)
(* aggregates of a join are asked for by group.                            *)
ASSUME AskedAssumption ==
    \A asked \in Asked :
        /\ asked[1] \in Query
        /\ asked[1].cols \subseteq SourceCols(asked[1])
        /\ asked[1].group \in SourceCols(asked[1]) \cup {NoGroup}
        /\ asked[1].from = "union" => asked[1].group = NoGroup
        /\ asked[1].shape = "aggregates" => asked[1].from = "table"
        /\ asked[1].point => asked[1].from = "table" /\ Len(asked[2]) <= 1
        /\ asked[2] \in Seq([LeftCols -> Value])
        /\ asked[3] \in Seq([RightCols -> Value])

(* Nothing is left to do with the rows but to project them. *)
Plain(q) == q.order = <<>> /\ q.limit = NoLimit /\ q.offset = 0

(* The columns of the result. *)
Named(q) == IF Grouped(q) THEN {q.group} \cup Figures ELSE q.cols

-----------------------------------------------------------------------------
(* Sorting. *)

(* Two values compare as integers if both are, otherwise as texts. *)
ComesBefore(v, w) ==
    IF v \in Int /\ w \in Int THEN v < w
    ELSE TextRank[v] < TextRank[w]

Before(x, y, key) ==
    IF key.asc THEN ComesBefore(x[key.col], y[key.col])
    ELSE ComesBefore(y[key.col], x[key.col])

(* The elements of a set, given what is ahead of each of them. *)
InTurn(ahead) ==
    [n \in 1..Cardinality(DOMAIN ahead) |->
        CHOOSE x \in DOMAIN ahead : Cardinality(ahead[x]) = n - 1]

(* The elements of a sequence at some places, in the order of the places   *)
(* that "ahead" gives.                                                     *)
Arranged(s, ahead) == [n \in DOMAIN InTurn(ahead) |-> s[InTurn(ahead)[n]]]

(* What remains of a sequence. *)
Kept(s, places) == Arranged(s, [i \in places |-> {j \in places : j < i}])

(* A stable sort. *)
SortedBy(s, key) ==
    Arranged(s, [i \in DOMAIN s |->
                    {j \in DOMAIN s : \/ Before(s[j], s[i], key)
                                      \/ ~Before(s[i], s[j], key) /\ j < i}])

(* Texts among integers can make the comparison go round in a circle:      *)
(* 9 < 10 as integers, "10" < "1a" and "1a" < "9" as texts.                *)
Comparable(s, key) ==
    \A i, j, k \in DOMAIN s :
        Before(s[i], s[j], key) /\ Before(s[j], s[k], key)
            => Before(s[i], s[k], key)

Permuted(s) ==
    {[n \in DOMAIN s |-> s[p[n]]] :
        p \in {p \in [DOMAIN s -> DOMAIN s] :
                  \A m, n \in DOMAIN s : p[m] = p[n] => m = n}}

-----------------------------------------------------------------------------
(* Joins, groups and aggregates. *)

Merged(x, y) ==
    [col \in Columns |-> IF col \in LeftCols THEN x[col] ELSE y[col]]

NullRow == [col \in RightCols |-> NULL]

(* values_eq: NULL equals nothing. *)
Matching(x, r) ==
    {k \in DOMAIN r : x[LeftKey] # NULL /\ x[LeftKey] = r[k][RightKey]}

(* Mutant: "matched" is reset once per join, not once per row. *)
PairsOnce(s, r, outer) ==
    LET padded == outer /\ \A i \in DOMAIN s : Matching(s[i], r) = {}
    IN  UNION {{i} \X IF padded THEN {0} ELSE Matching(s[i], r) : i \in DOMAIN s}

(* The places of the rows that are joined; 0 is the row of NULLs that a    *)
(* LEFT JOIN adds to a row of the left side without a match.               *)
Pairs(s, r, outer) ==
    UNION {{i} \X IF outer /\ Matching(s[i], r) = {} THEN {0}
                  ELSE Matching(s[i], r) : i \in DOMAIN s}

(* Nested loops. *)
Joined(s, r, outer) ==
    LET pairs == Pairs(s, r, outer)
        turn == InTurn([p \in pairs |->
                           {q \in pairs : \/ q[1] < p[1]
                                          \/ q[1] = p[1] /\ q[2] < p[2]}])
    IN  [n \in DOMAIN turn |->
            Merged(s[turn[n][1]],
                   IF turn[n][2] = 0 THEN NullRow ELSE r[turn[n][2]])]

(* SUM adds what is an integer. *)
Total(s) ==
    LET t[n \in 0..Len(s)] ==
            IF n = 0 THEN 0
            ELSE t[n - 1] + (IF s[n][Addend] \in Numbers THEN s[n][Addend] ELSE 0)
    IN  t[Len(s)]

Greatest(s) ==
    LET integers == {s[n][Addend] : n \in DOMAIN s} \cap Numbers
    IN  IF integers = {} THEN NULL
        ELSE CHOOSE v \in integers : \A w \in integers : w <= v

Aggregate(s, group) ==
    [col \in {group} \cup Figures |->
        CASE col = "count" -> Len(s)
          [] col = "sum" -> Total(s)
          [] col = "max" -> Greatest(s)
          [] OTHER -> IF group = NoGroup THEN NULL ELSE s[1][group]]

Group(s, group, v) == Kept(s, {n \in DOMAIN s : s[n][group] = v})

(* Mutant: rows without a value belong to no group. *)
NotNullGroups(s, group) == {s[n][group] : n \in DOMAIN s} \ {NULL}

GroupKeys(s, group) == {s[n][group] : n \in DOMAIN s}

(* The groups, in the order of their texts (a BTreeMap). *)
Groups(s, group) ==
    LET values == GroupKeys(s, group)
        turn == InTurn([v \in values |->
                           {w \in values : TextRank[w] < TextRank[v]}])
    IN  [n \in DOMAIN turn |-> Aggregate(Group(s, group, turn[n]), group)]

-----------------------------------------------------------------------------
(* Duplicates. *)

(* UNION drops a row that equals the one before it. *)
WithoutRepeats(s) == Kept(s, {n \in DOMAIN s : n > 1 => s[n - 1] # s[n]})

(* DISTINCT keeps the first of equal rows. *)
FirstOnes(s) == Kept(s, {n \in DOMAIN s : \A i \in 1..(n - 1) : s[i] # s[n]})

(* The columns of a UNION are named after its left side. *)
Stacked(s, r) ==
    [n \in DOMAIN s |-> [col \in {LeftKey} |-> s[n][LeftKey]]]
    \o [n \in DOMAIN r |-> [col \in {LeftKey} |-> r[n][RightKey]]]

(* Mutant: the result has all columns of the row. *)
WholeRows(s, cols) == s

Projected(s, cols) == [n \in DOMAIN s |-> [col \in cols |-> s[n][col]]]

(* The keys of ORDER BY that name a column of the result; the others are   *)
(* passed over.                                                            *)
InResult(order, cols) == Kept(order, {n \in DOMAIN order : order[n].col \in cols})

-----------------------------------------------------------------------------
NoQuery ==
    [from |-> "table", shape |-> "columns", cols |-> {}, group |-> NoGroup,
     having |-> 0, order |-> <<>>, offset |-> 0, limit |-> NoLimit,
     distinct |-> FALSE, point |-> FALSE]

Init ==
    /\ query = NoQuery
    /\ first = <<>>
    /\ second = <<>>
    /\ stage = "idle"
    /\ keys = <<>>
    /\ rows = <<>>

(* A SELECT arrives; meanwhile the tables may have become anything. *)
Ask(q, s, r) ==
    /\ query' = q
    /\ first' = s
    /\ second' = r
    /\ stage' = "start"
    /\ UNCHANGED <<keys, rows>>

Goes(next, s) ==
    /\ stage' = next
    /\ rows' = s
    /\ UNCHANGED <<query, tables>>

(* Mutant: UNION ALL drops repeats, too. *)
UnionDistinct ==
    /\ stage = "start"
    /\ query.from = "union"
    /\ Goes("done", WithoutRepeats(Stacked(first, second)))
    /\ UNCHANGED keys

(* ORDER BY and LIMIT of the whole UNION are passed over. *)
Union ==
    /\ stage = "start"
    /\ query.from = "union"
    /\ Goes("done", IF query.distinct THEN WithoutRepeats(Stacked(first, second))
                    ELSE Stacked(first, second))
    /\ UNCHANGED keys

Join ==
    /\ stage = "start"
    /\ Joins(query)
    /\ Goes(IF Grouped(query) THEN "group" ELSE "sort",
            Joined(first, second, query.from = "left_join"))
    /\ keys' = IF Grouped(query) THEN <<>> ELSE InResult(query.order, Columns)

AggregateAll ==
    /\ stage = "start"
    /\ query.from = "table" /\ query.shape = "aggregates" /\ ~Grouped(query)
    /\ Goes("done", <<Aggregate(first, NoGroup)>>)
    /\ UNCHANGED keys

(* Without a join, ORDER BY and LIMIT of a grouped query are passed over;  *)
(* with one, HAVING is.                                                    *)
GroupTable ==
    /\ stage = "start"
    /\ query.from = "table" /\ Grouped(query)
    /\ LET groups == Groups(first, query.group)
       IN  Goes("done", Kept(groups, {n \in DOMAIN groups :
                                         groups[n]["count"] > query.having}))
    /\ UNCHANGED keys

GroupJoined ==
    /\ stage = "group"
    /\ Goes("sort_result", Groups(rows, query.group))
    /\ keys' = InResult(query.order, Named(query))

SelectExpressions ==
    /\ stage = "start"
    /\ query.from = "table" /\ query.shape = "expressions" /\ ~Grouped(query)
    /\ Goes("sort_result", Projected(first, query.cols))
    /\ keys' = InResult(query.order, query.cols)

(* The row that the index has for the key is the answer, if it has one:    *)
(* OFFSET and LIMIT are passed over.                                       *)
SelectByKey ==
    /\ stage = "start"
    /\ ByKey(query)
    /\ Goes("done", Projected(first, query.cols))
    /\ UNCHANGED keys

(* Nothing is sorted or cut, and DISTINCT is passed over. *)
SelectPlain ==
    /\ stage = "start"
    /\ query.from = "table" /\ query.shape = "columns" /\ ~Grouped(query)
    /\ ~ByKey(query) /\ Plain(query)
    /\ Goes("done", Projected(first, query.cols))
    /\ UNCHANGED keys

SelectOrdered ==
    /\ stage = "start"
    /\ query.from = "table" /\ query.shape = "columns" /\ ~Grouped(query)
    /\ ~ByKey(query) /\ ~Plain(query)
    /\ Goes("sort", first)
    /\ keys' = InResult(query.order, LeftCols)

Sorting == stage \in {"sort", "sort_result"} /\ keys # <<>>

(* Mutant: the keys are sorted by in the order in which they are written.  *)
SortForward ==
    /\ Sorting
    /\ LET key == Head(keys)
       IN  \E s \in IF Comparable(rows, key) THEN {SortedBy(rows, key)}
                    ELSE Permuted(rows) : Goes(stage, s)
    /\ keys' = Tail(keys)

(* One stable pass for each key, the last one first.  If the comparison    *)
(* goes round in a circle, sort_by leaves the rows in any order ...        *)
SortPass ==
    /\ Sorting
    /\ LET key == keys[Len(keys)]
       IN  \E s \in IF Comparable(rows, key) THEN {SortedBy(rows, key)}
                    ELSE Permuted(rows) : Goes(stage, s)
    /\ keys' = SubSeq(keys, 1, Len(keys) - 1)

(* The query is over and its intermediate results are gone. *)
Over ==
    /\ query' = NoQuery
    /\ first' = <<>>
    /\ second' = <<>>
    /\ stage' = "idle"
    /\ keys' = <<>>
    /\ rows' = <<>>

(* ... or panics, which ends the connection. *)
SortPanic ==
    /\ Sorting
    /\ ~Comparable(rows, keys[Len(keys)])
    /\ Over

(* The result of a join is sorted once more, by the keys it has a column   *)
(* for.                                                                    *)
Project ==
    /\ stage = "sort"
    /\ keys = <<>>
    /\ Goes(IF Joins(query) THEN "sort_result" ELSE "page",
            Projected(rows, query.cols))
    /\ keys' = IF Joins(query) THEN InResult(query.order, query.cols) ELSE <<>>

Smaller(m, n) == IF m < n THEN m ELSE n

Cut(s, offset, limit) ==
    LET last == IF limit = NoLimit THEN Len(s) ELSE Smaller(offset + limit, Len(s))
    IN  SubSeq(s, offset + 1, last)

(* A grouped join knows LIMIT only. *)
Page ==
    /\ \/ stage = "page"
       \/ stage = "sort_result" /\ keys = <<>>
    /\ Goes(IF stage = "page" THEN "distinct" ELSE "done",
            Cut(rows, IF Grouped(query) THEN 0 ELSE query.offset, query.limit))
    /\ UNCHANGED keys

Distinct ==
    /\ stage = "distinct"
    /\ Goes("done", IF query.distinct THEN FirstOnes(rows) ELSE rows)
    /\ UNCHANGED keys

Answer ==
    /\ stage = "done"
    /\ Over

Next ==
    \/ /\ stage = "idle"
       /\ \E asked \in Asked : Ask(asked[1], asked[2], asked[3])
    \/ Union \/ Join \/ AggregateAll \/ GroupTable \/ GroupJoined
    \/ SelectExpressions \/ SelectByKey \/ SelectPlain \/ SelectOrdered
    \/ SortPass \/ SortPanic \/ Project \/ Page \/ Distinct \/ Answer

Spec == Init /\ [][Next]_vars

-----------------------------------------------------------------------------
(* Properties. *)

ResultCols ==
    CASE query.from = "union" -> {LeftKey}
      [] query.from # "union" /\ (query.shape = "aggregates" \/ Grouped(query)) ->
            {query.group} \cup Figures
      [] OTHER -> query.cols

(* A result has the columns that were asked for. *)
TypeOK ==
    /\ stage \in {"idle", "start", "group", "sort", "sort_result", "page",
                  "distinct", "done"}
    /\ keys # <<>> => stage \in {"sort", "sort_result"}
    /\ stage \in {"page", "distinct", "done"} =>
          \A n \in DOMAIN rows : DOMAIN rows[n] = ResultCols

(* The rows that a query starts from. *)
Source ==
    IF Joins(query) THEN Joined(first, second, query.from = "left_join")
    ELSE first

Lists == query.from # "union" /\ ~Grouped(query) /\ query.shape # "aggregates"

(* The keys that a query is sorted by. *)
Honoured ==
    IF query.from = "table" /\ query.shape = "expressions"
    THEN InResult(query.order, query.cols)
    ELSE InResult(query.order, SourceCols(query))

(* Lexicographic order by a sequence of keys. *)
Precedes(x, y, order) ==
    \E n \in DOMAIN order :
        /\ Before(x, y, order[n])
        /\ \A m \in 1..(n - 1) : x[order[m].col] = y[order[m].col]

InOrder(s, order) ==
    Arranged(s, [i \in DOMAIN s |->
                    {j \in DOMAIN s : \/ Precedes(s[j], s[i], order)
                                      \/ ~Precedes(s[i], s[j], order) /\ j < i}])

(* The part of the sorted rows that the client asked for. *)
Expected ==
    Cut(Projected(InOrder(Source, Honoured), query.cols), query.offset, query.limit)

AllComparable == \A n \in DOMAIN Honoured : Comparable(Source, Honoured[n])

(* A join is sorted again after the projection, so that a projected key    *)
(* comes before an unprojected one that was written first.                 *)
KeyOvertaken ==
    /\ Joins(query)
    /\ \E m, n \in DOMAIN query.order :
          /\ m < n
          /\ query.order[m].col \notin query.cols
          /\ query.order[n].col \in query.cols

(* A row that is found by its key is the answer, though OFFSET or LIMIT    *)
(* leave it out.                                                           *)
PageIgnored == ByKey(query) /\ (query.offset > 0 \/ query.limit = 0)

(* Stable passes from the last key to the first, before or after the       *)
(* projection, then OFFSET and LIMIT, make a page of the lexicographic     *)
(* order, ties in the order of the table: pages of one query neither       *)
(* overlap nor leave rows out.  Whatever path a query takes, the result is *)
(* such a page, but for the exceptions named here.                         *)
PagesOfOneOrder ==
    /\ stage = "done" /\ Lists /\ AllComparable /\ ~KeyOvertaken
    /\ ~PageIgnored
    /\ ~(query.distinct /\ query.from = "table" /\ query.shape = "columns")
    => rows = Expected

(* Where DISTINCT is honoured, the result has the rows of the page, each   *)
(* once: it may be shorter than LIMIT though the table has more.           *)
DistinctPage ==
    /\ stage = "done" /\ Lists /\ AllComparable
    /\ query.distinct /\ query.from = "table" /\ query.shape = "columns"
    /\ ~Plain(query) /\ ~PageIgnored
    => /\ {rows[n] : n \in DOMAIN rows} = {Expected[n] : n \in DOMAIN Expected}
       /\ \A m, n \in DOMAIN rows : rows[m] = rows[n] => m = n

SumOf(s, col) ==
    LET t[n \in 0..Len(s)] == IF n = 0 THEN 0 ELSE t[n - 1] + s[n][col]
    IN  t[Len(s)]

(* The rows of the groups that HAVING lets pass. *)
Counted ==
    LET atLeast == IF Joins(query) THEN 0 ELSE query.having
        s == Source
    IN  Kept(s, {n \in DOMAIN s :
                    Len(Group(s, query.group, s[n][query.group])) > atLeast})

(* Every row is in exactly one group: the groups' counts and sums add up   *)
(* to the aggregates of all their rows and the greatest of their maxima is *)
(* the maximum, and no group occurs twice.                                 *)
GroupsAddUp ==
    /\ stage = "done" /\ Grouped(query)
    /\ Joins(query) => query.limit = NoLimit
    => /\ SumOf(rows, "count") = Len(Counted)
       /\ SumOf(rows, "sum") = Total(Counted)
       /\ {rows[n]["max"] : n \in DOMAIN rows} \cap Numbers = {}
             <=> Greatest(Counted) = NULL
       /\ \A n \in DOMAIN rows : rows[n]["max"] \in Numbers =>
             rows[n]["max"] <= Greatest(Counted)
       /\ \A m, n \in DOMAIN rows :
             rows[m][query.group] = rows[n][query.group] => m = n

(* UNION ALL loses nothing; UNION loses no value, but leaves equal rows    *)
(* that are not neighbours.                                                *)
UnionKeepsRows ==
    stage = "done" /\ query.from = "union"
    => LET both == Stacked(first, second)
       IN  /\ {rows[n] : n \in DOMAIN rows} = {both[n] : n \in DOMAIN both}
           /\ query.distinct => \A n \in 2..Len(rows) : rows[n - 1] # rows[n]
           /\ ~query.distinct => Len(rows) = Len(first) + Len(second)

(* The rows of a join are, for every row of the left side, one with each   *)
(* matching row of the right; a LEFT JOIN has one more for those without.  *)
JoinCounts ==
    stage \in {"sort", "group"} /\ Joins(query) =>
        \A n \in DOMAIN first :
            LET Ours(s) == {m \in DOMAIN s :
                               \A col \in LeftCols : s[m][col] = first[n][col]}
                matches == {m \in DOMAIN second :
                               /\ first[n][LeftKey] # NULL
                               /\ second[m][RightKey] = first[n][LeftKey]}
                alone == IF query.from = "left_join" /\ matches = {} THEN 1 ELSE 0
            IN  Cardinality(Ours(rows)) =
                    Cardinality(Ours(first)) * (Cardinality(matches) + alone)
=============================================================================
