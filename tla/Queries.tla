------------------------------- MODULE Queries -------------------------------
(***************************************************************************)
(* GraphQL lists over a table: a client reads one page after the other     *)
(* while rows come and go.  The nodes and the total count of a page are    *)
(* two queries, made at different times, from the same arguments.          *)
(*                                                                         *)
(* A row is a number, its place in a unique order, relay's by the primary  *)
(* key say.  What the application lets a list be ordered by may also be a  *)
(* column (Key) in which rows are alike, or nothing that tells them apart. *)
(* A where clause says of each column what is asked of it, or Any.  The    *)
(* group filter of the whereMap joins another table (include), in which a  *)
(* row of Twice has two partners.  graphql-sequelize is modelled as it is  *)
(* called: it turns the arguments that are columns into a where clause,    *)
(* runs before and after, and gives a relay node the cursor of its index.  *)
(***************************************************************************)
EXTENDS Integers, FiniteSets

CONSTANTS
  Rows,            \* the rows there can be
  Key,             \* a column of theirs by which lists may be ordered
  Grouped,         \* those that the group filter keeps
  Own,             \* those that the target's before handler lets pass
  Twice,           \* those that the group filter's join finds twice
  Ids,             \* the primary keys that clients ask for, or Null
  Limits, Offsets, \* the limits and offsets that clients ask for, or Null
  Any, Null,
  DefaultNodesLimit, MaxNodesLimit, DefaultNodesOffset,
  MaxChanges       \* bound: changes of the table

ASSUME RowsAssumption ==
  /\ Rows \subseteq Nat /\ Grouped \subseteq Rows /\ Own \subseteq Rows
  /\ Ids \subseteq Rows \cup {Null} /\ Key \in [Rows -> Int]
ASSUME LimitsAssumption ==       \* a client begins at the beginning of a list
  /\ DefaultNodesLimit \in Nat \ {0} /\ MaxNodesLimit \in Nat \ {0}
  /\ DefaultNodesOffset = 0
  /\ Limits \cup Offsets \subseteq Int \cup {Null}
  /\ \A offset \in Offsets \ {Null} : offset <= 0
ASSUME NullAssumption ==
  Null \notin Int /\ \A rows \in SUBSET Rows : rows # Null
ASSUME MaxChangesAssumption == MaxChanges \in Nat

VARIABLES
  list,        \* the resolver: its kind, its order, does before restrict?
  table,       \* the rows that are there
  args,        \* arguments of the client's requests, offset is the next one's
  at,          \* where the request is
  applied,     \* the limit and offset that are passed to the child resolvers
  nodes, more, total,  \* what they have answered, or Null
  seen,        \* the rows of all pages so far
  repeated,    \* was one of them in two pages?
  there,       \* rows of the list since the first request
  inserted, deleted, \* were rows inserted or deleted since then?
  quiet,       \* has the table not changed since this request?
  changes

listVars == <<list, args>>
pageVars == <<at, applied, nodes, more, total>>
tableVars == <<table, changes>>
ghostVars == <<seen, repeated, there, inserted, deleted, quiet>>
queryVars == <<listVars, pageVars, tableVars, ghostVars>>

Kinds == {"offset", "relay", "list", "object"}
Orders == {"unique", "key", "none"}

QueryTypeOK ==
  /\ list \in [kind : Kinds, order : Orders, restricted : BOOLEAN]
  /\ table \subseteq Rows /\ IsFiniteSet(table)
  /\ args \in [limit : Int \cup {Null}, offset : Int \cup {Null},
               group : BOOLEAN, id : Rows \cup {Null}]
  /\ at \in {"none", "resolving", "answered", "refused"}
  /\ applied \in [limit : Int \cup {Null}, offset : Nat]
  /\ nodes \in (SUBSET Rows) \cup {Null} /\ more \in BOOLEAN
  /\ total \in Nat \cup {Null}
  /\ seen \subseteq Rows /\ there \subseteq Rows
  /\ repeated \in BOOLEAN /\ inserted \in BOOLEAN /\ deleted \in BOOLEAN
  /\ quiet \in BOOLEAN
  /\ changes \in 0 .. MaxChanges

-----------------------------------------------------------------------------
(* Variants of the helpers below, each with a plausible mistake.           *)
AsAsked(a) == IF a.limit = Null THEN DefaultNodesLimit ELSE a.limit
JoinedRows(rows, include) ==
  Cardinality(rows) + Cardinality(IF include THEN rows \cap Twice ELSE {})

(* Helpers *)
NoWhere == [id |-> Any, group |-> Any, own |-> Any]

(* {...first, ...second} *)
Spread(first, second) ==
  [column \in DOMAIN first |->
     IF second[column] # Any THEN second[column] ELSE first[column]]

(* the default argument, as graphql-sequelize passes it on *)
DefaultArgs(a) ==
  [NoWhere EXCEPT !.id = IF a.id = Null THEN Any ELSE a.id]
WhereOfArgs(a) == [NoWhere EXCEPT !.group = IF a.group THEN TRUE ELSE Any]
IncludeOfArgs(a) == a.group

(* parseBeforeHandler: the arguments, then the handler of the target *)
ParseBeforeHandler(where, a) ==
  Spread(Spread(where, WhereOfArgs(a)),
         [NoWhere EXCEPT !.own = IF list.restricted THEN TRUE ELSE Any])

Matching(where) ==
  {r \in table : /\ where.id \in {Any, r}
                 /\ where.group # Any => r \in Grouped
                 /\ where.own # Any => r \in Own}

NodesWhere(a) == ParseBeforeHandler(DefaultArgs(a), a)
CountWhere(a) == Spread(DefaultArgs(a), ParseBeforeHandler(NoWhere, a))
RelayWhere(a) == WhereOfArgs(a)

(* model.count, distinct when there is an include *)
Count(rows, include) == Cardinality(rows)

(* args.limit || default, and not above the maximum *)
AppliedLimit(a) ==
  LET limit == IF a.limit \in {Null, 0} THEN DefaultNodesLimit ELSE a.limit
  IN IF limit > MaxNodesLimit THEN MaxNodesLimit ELSE limit

(* args.offset || default, and not negative *)
AppliedOffset(a) ==
  LET offset == IF a.offset \in {Null, 0} THEN DefaultNodesOffset ELSE a.offset
  IN IF offset < 0 THEN 0 ELSE offset

AnsweredLimit(a) == AppliedLimit(a)

(* the order of a list: what orderBy is mapped to, without a tie-break     *)
Precedes(order, q, r) ==
  \/ order = "unique" /\ q < r
  \/ order = "key" /\ Key[q] < Key[r]
Alike(order, q, r) == ~Precedes(order, q, r) /\ ~Precedes(order, r, q)
Before(order, rows, r) == Cardinality({q \in rows : Precedes(order, q, r)})
Among(order, rows, r) == {q \in rows : Alike(order, q, r)}

(* What LIMIT and OFFSET leave: the places of the list from offset on.  Of *)
(* rows that are alike, any may be in the places that they take together.  *)
Places(first, size, start, end) ==
  Cardinality((first .. first + size - 1) \cap (start .. end - 1))
Pages(rows, limit, offset) ==
  LET end == IF limit = Null THEN offset + Cardinality(rows) ELSE offset + limit
  IN {page \in SUBSET rows :
        /\ Cardinality(page) = Places(0, Cardinality(rows), offset, end)
        /\ \A r \in rows : Cardinality(Among(list.order, page, r)) =
             Places(Before(list.order, rows, r),
                    Cardinality(Among(list.order, rows, r)), offset, end)}

-----------------------------------------------------------------------------
QueryInit ==
  /\ list \in [kind : Kinds, order : Orders, restricted : BOOLEAN]
  /\ list.kind = "relay" => list.order = "unique"  \* primary key breaks ties
  /\ table \in SUBSET Rows /\ IsFiniteSet(table)
  /\ args \in [limit : Limits, offset : Offsets, group : BOOLEAN,
               id : Ids]
  /\ list.kind \notin {"offset", "relay"} => args.limit = Null
  /\ list.kind = "relay" => args.id = Null /\ args.offset = Null
  /\ at = "none"
  /\ applied = [limit |-> Null, offset |-> 0]
  /\ nodes = Null /\ more = FALSE /\ total = Null
  /\ seen = {} /\ repeated = FALSE /\ there = {}
  /\ inserted = FALSE /\ deleted = FALSE /\ quiet = TRUE
  /\ changes = 0

(* The resolver of the field: an offset list's applies the bounds; relay's *)
(* cursor is the index before the offset, and a first of 0 is no limit;    *)
(* a list has neither, an object one row.                                  *)
Request ==
  /\ at \in {"none", "answered"} /\ (at = "answered" => more)
  /\ at' = "resolving"
  /\ applied' =
       CASE list.kind = "offset" ->
              [limit |-> AppliedLimit(args), offset |-> AppliedOffset(args)]
         [] list.kind = "relay" ->
              [limit |-> IF args.limit = 0 THEN Null ELSE args.limit,
               offset |-> IF args.offset = Null THEN 0 ELSE args.offset]
         [] list.kind = "list" -> [limit |-> Null, offset |-> 0]
         [] list.kind = "object" -> [limit |-> 1, offset |-> 0]
  /\ nodes' = Null /\ total' = Null /\ more' = FALSE /\ quiet' = TRUE
  /\ there' = IF at = "none" THEN Matching(NodesWhere(args)) ELSE there
  /\ UNCHANGED <<listVars, tableVars, seen, repeated, inserted, deleted>>

(* The nodes are read.  More are there when a relay list's page does not   *)
(* end the list, or, as a client of an offset list sees it, when the page  *)
(* is as long as the limit that was answered.  PostgreSQL refuses negative *)
(* limits, and an object that is not there is an error.                    *)
ResolveNodes ==
  LET rows == Matching(NodesWhere(args)) IN
  /\ at = "resolving" /\ nodes = Null
  /\ applied.limit # Null => applied.limit >= 0
  /\ list.kind = "object" => rows # {}
  /\ \E page \in Pages(rows, applied.limit, applied.offset) :
       /\ nodes' = page
       /\ more' = CASE list.kind = "offset" ->
                         Cardinality(page) >= AnsweredLimit(args)
                    [] list.kind = "relay" ->
                         applied.offset + Cardinality(page) < Cardinality(rows)
                    [] OTHER -> FALSE
  /\ UNCHANGED <<listVars, at, applied, total, tableVars, ghostVars>>

(* totalCount of an offset list, and of a relay list *)
ResolveTotalCount ==
  /\ at = "resolving" /\ total = Null
  /\ \/ /\ list.kind = "offset"
        /\ total' = Count(Matching(CountWhere(args)), IncludeOfArgs(args))
     \/ /\ list.kind = "relay"
        /\ total' = Count(Matching(RelayWhere(args)), IncludeOfArgs(args))
  /\ UNCHANGED <<listVars, at, applied, nodes, more, tableVars, ghostVars>>

(* A query fails, or a before or an after handler throws. *)
Fail ==
  /\ at = "resolving"
  /\ at' = "refused"
  /\ UNCHANGED <<listVars, applied, nodes, more, total, tableVars, ghostVars>>

(* The client has the page, and asks for the next one from where it ends.  *)
Answer ==
  /\ at = "resolving" /\ nodes # Null
  /\ list.kind \in {"offset", "relay"} => total # Null
  /\ at' = "answered"
  /\ seen' = seen \cup nodes
  /\ repeated' = (repeated \/ seen \cap nodes # {})
  /\ args' = [args EXCEPT !.offset = applied.offset +
       IF list.kind = "offset" THEN AnsweredLimit(args) ELSE Cardinality(nodes)]
  /\ UNCHANGED <<list, applied, nodes, more, total, tableVars, there, inserted,
                 deleted, quiet>>

(* Others change the table. *)
Insert(r) ==
  /\ at # "none" /\ at # "refused" /\ changes < MaxChanges /\ r \notin table
  /\ table' = table \cup {r} /\ changes' = changes + 1
  /\ inserted' = TRUE /\ quiet' = FALSE
  /\ UNCHANGED <<listVars, pageVars, seen, repeated, there, deleted>>

Delete(r) ==
  /\ at # "none" /\ at # "refused" /\ changes < MaxChanges /\ r \in table
  /\ table' = table \ {r} /\ changes' = changes + 1
  /\ deleted' = TRUE /\ quiet' = FALSE /\ there' = there \ {r}
  /\ UNCHANGED <<listVars, pageVars, seen, repeated, inserted>>

QueryNext ==
  \/ Request \/ ResolveNodes \/ ResolveTotalCount \/ Fail \/ Answer
  \/ \E r \in Rows : Insert(r) \/ Delete(r)

QuerySpec == QueryInit /\ [][QueryNext]_queryVars

-----------------------------------------------------------------------------
Ended == at = "answered" /\ ~more

(* A client that reads a list page by page to its end has seen, if nothing *)
(* was deleted, every row that was in the list all the time, or one alike  *)
(* in the list's order: a tie is broken anew by each query, and may hide a *)
(* row from all pages.  Only in a list with a unique order it has seen the *)
(* row itself, and none twice, if none was inserted.  Whatever it asks for,*)
(* the bounds of the list are applied, and it goes on from what they were. *)
(* (resolvePaginatedOffsetListType, resolvePaginatedRelayListType,         *)
(* mapGraphQLOrderByEnumToSequelizeOrder)                                  *)
PagesCover ==
  Ended /\ list.kind # "object" =>
    /\ ~deleted => \A r \in there : \E q \in seen : Alike(list.order, q, r)
    /\ ~inserted /\ list.order = "unique" => ~repeated

(* The total count that comes with a page is the number of rows that all   *)
(* pages of the list have together, unless the table has changed since the *)
(* request; in an offset list, and in a relay list without a before        *)
(* handler, whose count does not call it. ("both gqlTarget.before and      *)
(* resolverOptions.before must be applied", "distinct count for paging")   *)
TotalIsOfTheList ==
  at = "answered" /\ quiet
  /\ (list.kind = "offset" \/ (list.kind = "relay" /\ ~list.restricted))
  => total = Cardinality(Matching(NodesWhere(args)))
=============================================================================
