----------------------------- MODULE ServerProofs -----------------------------
(***************************************************************************)
(* Proofs about the lists and the logger of a server: the pages of Queries,*)
(* for any rows, bounds and filters and any number of changes; and the     *)
(* streams of LogStreams, for any time window, any delay of the exit and   *)
(* any number of errors and posts.                                         *)
(***************************************************************************)
EXTENDS Queries, LogStreams, Integers, FiniteSetTheorems, TLAPS

(***************************************************************************)
(* Queries                                                                 *)
(***************************************************************************)

(* The places that rows take in a list, and those of a page                *)
LEMMA Fewer ==
  ASSUME NEW T, IsFiniteSet(T), NEW S, S \subseteq T
  PROVE  /\ IsFiniteSet(S) /\ Cardinality(S) \in Nat /\ Cardinality(T) \in Nat
         /\ Cardinality(S) <= Cardinality(T)
BY FS_Subset, FS_CardinalityType

LEMMA AlikeItself ==
  ASSUME NEW order, NEW r \in Rows
  PROVE  ~Precedes(order, r, r) /\ Alike(order, r, r)
<1>1. r \in Int /\ Key[r] \in Int
  BY RowsAssumption DEF RowsAssumption
<1> QED
  BY <1>1 DEF Precedes, Alike

(* Of n rows, fewer than n come before any.                                *)
LEMMA Ranks ==
  ASSUME NEW order, NEW S \in SUBSET Rows, IsFiniteSet(S)
  PROVE  /\ Cardinality(S) \in Nat
         /\ \A r \in S : /\ Before(order, S, r) \in Nat
                         /\ Before(order, S, r) < Cardinality(S)
<1> SUFFICES ASSUME NEW r \in S
             PROVE  /\ Before(order, S, r) \in Nat
                    /\ Before(order, S, r) < Cardinality(S)
  BY FS_CardinalityType
<1> DEFINE low == {q \in S : Precedes(order, q, r)}
<1>1. low \subseteq S /\ r \notin low /\ low \cup {r} \subseteq S
  BY AlikeItself
<1>2. Before(order, S, r) = Cardinality(low)
  BY DEF Before
<1> HIDE DEF low
<1>3. IsFiniteSet(low) /\ Cardinality(low) \in Nat
  BY <1>1, Fewer
<1>4. Cardinality(low \cup {r}) = Cardinality(low) + 1
  BY <1>1, <1>3, FS_AddElement
<1>5. Cardinality(low \cup {r}) <= Cardinality(S) /\ Cardinality(S) \in Nat
  BY <1>1, Fewer
<1> QED
  BY <1>2, <1>3, <1>4, <1>5

(* More rows, more of them before one                                      *)
LEMMA RankGrows ==
  ASSUME NEW order, NEW T, IsFiniteSet(T), NEW S \in SUBSET T, NEW r
  PROVE  /\ Before(order, S, r) \in Nat /\ Before(order, T, r) \in Nat
         /\ Before(order, S, r) <= Before(order, T, r)
<1> DEFINE few == {q \in S : Precedes(order, q, r)}
           many == {q \in T : Precedes(order, q, r)}
<1>1. few \subseteq many /\ many \subseteq T
  OBVIOUS
<1>2. /\ Before(order, S, r) = Cardinality(few)
      /\ Before(order, T, r) = Cardinality(many)
  BY DEF Before
<1> HIDE DEF few, many
<1>3. IsFiniteSet(many)
  BY <1>1, Fewer
<1> QED
  BY <1>1, <1>2, <1>3, Fewer

(* A page of a list has rows like each one whose first place it has; it is *)
(* full, or the last one; and in a unique order it has what its places say.*)
LEMMA PageIsDense ==
  ASSUME NEW order, NEW S \in SUBSET Rows, IsFiniteSet(S), NEW o \in Nat,
         NEW l \in Nat, NEW P \in SUBSET S,
         Cardinality(P) = Places(0, Cardinality(S), o, o + l),
         \A r \in S : Cardinality(Among(order, P, r)) =
           Places(Before(order, S, r), Cardinality(Among(order, S, r)), o, o + l)
  PROVE  /\ Cardinality(P) \in Nat /\ Cardinality(P) <= l
         /\ \A r \in S :
              o <= Before(order, S, r) /\ Before(order, S, r) < o + l =>
                \E q \in P : Alike(order, q, r)
         /\ Cardinality(P) < l => \A r \in S : Before(order, S, r) < o + l
         /\ order = "unique" => \A r \in P :
              /\ o <= Before(order, S, r)
              /\ Before(order, S, r) < o + Cardinality(P)
<1> DEFINE n == Cardinality(S)
           window == o .. o + l - 1
           b(r) == Before(order, S, r)
<1>1. n \in Nat /\ \A r \in S : b(r) \in Nat /\ b(r) < n
  BY Ranks
<1>2. IsFiniteSet(window) /\ Cardinality(window) = l
  <2>1. o \in Int /\ o + l - 1 \in Int
    OBVIOUS
  <2>2. IsFiniteSet(window)
        /\ Cardinality(window) = IF o > o + l - 1 THEN 0 ELSE (o + l - 1) - o + 1
    BY <2>1, FS_Interval
  <2> HIDE DEF window
  <2> QED
    BY <2>2
<1>3. Cardinality(P) \in Nat /\ IsFiniteSet(P)
  BY Fewer
<1>4. Cardinality(P) = Cardinality((0 .. 0 + n - 1) \cap window)
  BY DEF Places
<1>5. \A r \in S : Cardinality(Among(order, P, r)) =
        Cardinality((b(r) .. b(r) + Cardinality(Among(order, S, r)) - 1) \cap window)
  BY DEF Places
<1>6. Cardinality(P) <= l
  <2>1. (0 .. 0 + n - 1) \cap window \subseteq window
    OBVIOUS
  <2> HIDE DEF window, n
  <2> QED
    BY <1>2, <1>4, <2>1, Fewer
<1>7. ASSUME NEW r \in S
      PROVE  /\ IsFiniteSet(Among(order, S, r)) /\ r \in Among(order, S, r)
             /\ Cardinality(Among(order, S, r)) \in Nat
             /\ Cardinality(Among(order, S, r)) >= 1
             /\ IsFiniteSet(Among(order, P, r))
  <2>1. Among(order, S, r) \subseteq S /\ Among(order, P, r) \subseteq S
        /\ r \in Among(order, S, r)
    BY AlikeItself DEF Among
  <2>2. /\ IsFiniteSet(Among(order, S, r)) /\ IsFiniteSet(Among(order, P, r))
        /\ Cardinality(Among(order, S, r)) \in Nat
    BY <2>1, Fewer
  <2>3. Cardinality(Among(order, S, r)) # 0
    BY <2>1, <2>2, FS_EmptySet
  <2> QED
    BY <2>1, <2>2, <2>3
<1>8. ASSUME NEW r \in S, o <= b(r), b(r) < o + l
      PROVE  \E q \in P : Alike(order, q, r)
  <2> DEFINE places == (b(r) .. b(r) + Cardinality(Among(order, S, r)) - 1) \cap window
  <2>1. b(r) \in places /\ places \subseteq window
    BY <1>1, <1>7, <1>8
  <2>2. Cardinality(Among(order, P, r)) = Cardinality(places)
    BY <1>5
  <2> HIDE DEF places, window
  <2>3. Cardinality(places) # 0
    BY <1>2, <2>1, Fewer, FS_EmptySet
  <2>4. Among(order, P, r) # {}
    BY <2>2, <2>3, FS_EmptySet
  <2> QED
    BY <2>4 DEF Among
<1>9. ASSUME Cardinality(P) < l, NEW r \in S
      PROVE  b(r) < o + l
  <2> SUFFICES ASSUME ~(b(r) < o + l) PROVE FALSE
    OBVIOUS
  <2>1. b(r) \in Nat /\ b(r) < n /\ n \in Nat
    BY <1>1
  <2> HIDE DEF n, b
  <2>2. window \subseteq 0 .. 0 + n - 1
    BY <2>1
  <2>3. (0 .. 0 + n - 1) \cap window = window
    BY <2>2
  <2>4. Cardinality(P) = l
    BY <1>2, <1>4, <2>3, Zenon
  <2> QED
    BY <1>9, <2>4
<1>10. ASSUME order = "unique", NEW r \in P
       PROVE  o <= b(r) /\ b(r) < o + Cardinality(P)
  <2>1. b(r) \in Nat /\ b(r) < n /\ n \in Nat
    BY <1>1
  <2>2. Among(order, S, r) = {r} /\ r \in Among(order, P, r)
    <3>1. \A q \in S : q \in Int
      BY RowsAssumption DEF RowsAssumption
    <3> QED
      BY <1>10, <3>1 DEF Among, Alike, Precedes
  <2>3. Cardinality(Among(order, P, r)) # 0
    BY <1>7, <2>2, FS_EmptySet
  <2>4. Cardinality(Among(order, S, r)) = 1
    BY <2>2, FS_Singleton
  <2>5. Cardinality((b(r) .. b(r) + 1 - 1) \cap window) # 0
    BY <1>5, <2>3, <2>4
  <2>6. b(r) \in window
    <3> SUFFICES ASSUME b(r) \notin window PROVE FALSE
      OBVIOUS
    <3> HIDE DEF window, b
    <3>1. (b(r) .. b(r) + 1 - 1) \cap window = {}
      BY <2>1
    <3> QED
      BY <2>5, <3>1, FS_EmptySet
  <2>7. CASE n <= o + l
    <3> HIDE DEF b, n
    <3>1. (0 .. 0 + n - 1) \cap window = o .. n - 1
      BY <2>1, <2>7
    <3>2. o <= b(r) /\ o < n
      BY <2>1, <2>6
    <3>3. Cardinality(o .. n - 1) = n - o
      BY <2>1, <3>2, FS_Interval
    <3>4. Cardinality(P) = n - o
      <4>1. Cardinality(P) = Cardinality(o .. n - 1)
        BY <1>4, <3>1, Zenon
      <4> QED
        BY <4>1, <3>3
    <3> HIDE DEF window
    <3> QED
      BY <2>1, <3>2, <3>4
  <2>8. CASE ~(n <= o + l)
    <3> HIDE DEF b, n
    <3>1. (0 .. 0 + n - 1) \cap window = window
      BY <2>1, <2>8
    <3>2. Cardinality(P) = l
      BY <1>2, <1>4, <3>1, Zenon
    <3>3. o <= b(r) /\ b(r) < o + l
      BY <2>1, <2>6
    <3> QED
      BY <3>2, <3>3
  <2> QED
    BY <2>7, <2>8
<1> QED
  BY <1>3, <1>6, <1>8, <1>9, <1>10

(* The rows of the list                                                    *)
List == Matching(NodesWhere(args))

(* Where the page ends, and the next one begins                            *)
PageEnd == applied.offset +
  IF list.kind = "offset" THEN AnsweredLimit(args) ELSE Cardinality(nodes)

(* These rows have one like each that was there all the time.              *)
HasLike(rows) == \A r \in there : \E q \in rows : Alike(list.order, q, r)

(* They have one like each of those whose first place is before the o-th,  *)
(* as the list is now; and, in a unique order, none of a later place.      *)
Covers(o, rows) ==
  ~deleted => \A r \in there : Before(list.order, List, r) < o =>
                \E q \in rows : Alike(list.order, q, r)
Once(o, rows) ==
  ~inserted /\ list.order = "unique" =>
    \A r \in rows \cap List : Before(list.order, List, r) < o

(* What the client has seen of a list, wherever its request is             *)
SeenInv ==
  list.kind # "object" =>
    /\ at = "none" => seen = {} /\ ~repeated
    /\ at = "resolving" /\ nodes = Null =>
         Covers(applied.offset, seen) /\ Once(applied.offset, seen)
    /\ at = "resolving" /\ nodes # Null =>
         /\ Covers(PageEnd, seen \cup nodes) /\ Once(PageEnd, seen \cup nodes)
         /\ ~inserted /\ list.order = "unique" => nodes \cap seen = {}
         /\ ~more /\ ~deleted => HasLike(seen \cup nodes)
    /\ at = "answered" =>
         /\ Covers(args.offset, seen) /\ Once(args.offset, seen)
         /\ ~more /\ ~deleted => HasLike(seen)
    /\ ~inserted /\ list.order = "unique" => ~repeated

(* The bounds of the request, by the kind of the list                      *)
BoundsInv ==
  /\ at = "none" => (args.offset = Null \/ args.offset <= 0) /\ there = {}
  /\ at = "none" /\ list.kind = "relay" => args.offset = Null
  /\ at = "answered" => args.offset \in Nat
  /\ at = "resolving" /\ list.kind = "offset" =>
       applied.limit = AppliedLimit(args)
  /\ at = "resolving" /\ list.kind = "list" =>
       applied.limit = Null /\ applied.offset = 0
  /\ at = "resolving" /\ nodes # Null =>
       /\ nodes \in SUBSET Rows /\ IsFiniteSet(nodes)
       /\ applied.limit = Null \/ applied.limit >= 0
  /\ there \subseteq List
  /\ list.kind = "relay" => args.id = Null
  /\ list.kind \in {"list", "object"} => ~more

(* The count that has been answered, unless the table has changed since    *)
CountInv ==
  list.kind = "offset" \/ (list.kind = "relay" /\ ~list.restricted) =>
    /\ at \in {"resolving", "answered"} /\ quiet /\ total # Null =>
         total = Cardinality(List)
    /\ at = "answered" => total # Null

Listed(where, r) ==
  /\ where.id \in {Any, r}
  /\ where.group # Any => r \in Grouped
  /\ where.own # Any => r \in Own

(* The list is finite and part of the table; it changes with the table,    *)
(* and not with the request's bounds.                                      *)
LEMMA ListType ==
  ASSUME QueryTypeOK
  PROVE  List \in SUBSET Rows /\ List \in SUBSET Nat /\ List \subseteq table
         /\ IsFiniteSet(List) /\ Cardinality(List) \in Nat
<1>1. List \subseteq table
  BY DEF List, Matching
<1> QED
  BY <1>1, Fewer, RowsAssumption DEF QueryTypeOK, RowsAssumption

LEMMA ListFollows ==
  ASSUME QueryTypeOK, UNCHANGED list, args'.id = args.id, args'.group = args.group
  PROVE  List = {r \in table : Listed(NodesWhere(args), r)}
         /\ List' = {r \in table' : Listed(NodesWhere(args), r)}
<1>1. NodesWhere(args)' = NodesWhere(args)
  BY DEF NodesWhere, ParseBeforeHandler, DefaultArgs, WhereOfArgs
<1> QED
  BY <1>1 DEF List, Matching, Listed

LEMMA ListStays ==
  ASSUME QueryTypeOK, UNCHANGED <<list, table, args>>
  PROVE  List' = List
BY DEF List, Matching, NodesWhere, ParseBeforeHandler, DefaultArgs, WhereOfArgs

(* Both resolvers of an offset list ask for the same rows; so do those of  *)
(* a relay list that its target does not restrict.                         *)
LEMMA SameWhere ==
  ASSUME QueryTypeOK
  PROVE  /\ Matching(CountWhere(args)) = List
         /\ list.kind = "relay" /\ args.id = Null /\ ~list.restricted =>
              Matching(RelayWhere(args)) = List
<1> DEFINE W == WhereOfArgs(args)
           O == [NoWhere EXCEPT !.own = IF list.restricted THEN TRUE ELSE Any]
           D == DefaultArgs(args)
<1>1. /\ DOMAIN NoWhere = {"id", "group", "own"}
      /\ DOMAIN D = {"id", "group", "own"}
      /\ \A c \in {"id", "group", "own"} : NoWhere[c] = Any
  BY DEF NoWhere, DefaultArgs
<1>2. CountWhere(args) = NodesWhere(args)
  <2>1. /\ NodesWhere(args) = Spread(Spread(D, W), O)
        /\ CountWhere(args) = Spread(D, Spread(Spread(NoWhere, W), O))
    BY DEF NodesWhere, CountWhere, ParseBeforeHandler
  <2> HIDE DEF D, W, O
  <2> QED
    BY <1>1, <2>1 DEF Spread
<1>3. ASSUME args.id = Null, ~list.restricted
      PROVE  /\ RelayWhere(args).id = NodesWhere(args).id
             /\ RelayWhere(args).group = NodesWhere(args).group
             /\ RelayWhere(args).own = NodesWhere(args).own
  BY <1>3 DEF RelayWhere, NodesWhere, ParseBeforeHandler, Spread, DefaultArgs,
              WhereOfArgs, NoWhere
<1> QED
  BY <1>2, <1>3 DEF List, Matching

(* the bounds that are applied                                             *)
LEMMA BoundsType ==
  ASSUME QueryTypeOK
  PROVE  AppliedLimit(args) \in Int /\ AppliedOffset(args) \in Nat
BY LimitsAssumption DEF QueryTypeOK, AppliedLimit, AppliedOffset, LimitsAssumption

PagingInv == QueryTypeOK /\ BoundsInv /\ SeenInv /\ CountInv

LEMMA InitPagingInv == QueryInit => PagingInv
<1> SUFFICES ASSUME QueryInit PROVE PagingInv
  OBVIOUS
<1>1. QueryTypeOK
  <2>1. args \in [limit : Int \cup {Null}, offset : Int \cup {Null},
                 group : BOOLEAN, id : Rows \cup {Null}]
    BY RowsAssumption, LimitsAssumption
       DEF QueryInit, RowsAssumption, LimitsAssumption
  <2>2. /\ applied \in [limit : Int \cup {Null}, offset : Nat]
        /\ nodes \in (SUBSET Rows) \cup {Null} /\ total \in Nat \cup {Null}
        /\ changes \in 0 .. MaxChanges
    BY MaxChangesAssumption DEF QueryInit, MaxChangesAssumption
  <2> QED
    BY <2>1, <2>2 DEF QueryInit, QueryTypeOK
<1>2. BoundsInv
  BY LimitsAssumption DEF QueryInit, BoundsInv, LimitsAssumption
<1>3. SeenInv /\ CountInv
  BY DEF QueryInit, SeenInv, CountInv
<1> QED
  BY <1>1, <1>2, <1>3 DEF PagingInv

-----------------------------------------------------------------------------
(* A request begins where the last page has ended.                         *)
LEMMA RequestBounds ==
  ASSUME QueryTypeOK, BoundsInv, Request
  PROVE  /\ applied'.limit \in Int \cup {Null} /\ applied'.offset \in Nat
         /\ applied' \in [limit : Int \cup {Null}, offset : Nat]
         /\ list.kind = "offset" => applied'.limit = AppliedLimit(args)
         /\ list.kind = "list" => applied'.limit = Null /\ applied'.offset = 0
         /\ at = "none" => applied'.offset = 0
         /\ at = "answered" /\ list.kind \in {"offset", "relay"} =>
              applied'.offset = args.offset
<1>0. /\ at \in {"none", "answered"}
      /\ list.kind \in {"offset", "relay", "list", "object"}
      /\ args.limit \in Int \cup {Null} /\ args.offset \in Int \cup {Null}
      /\ at = "none" => args.offset = Null \/ args.offset <= 0
      /\ at = "none" /\ list.kind = "relay" => args.offset = Null
      /\ at = "answered" => args.offset \in Nat
      /\ Null \notin Int
  BY NullAssumption DEF QueryTypeOK, Kinds, BoundsInv, Request, NullAssumption
<1>1. CASE list.kind = "offset"
  <2>1. applied' = [limit |-> AppliedLimit(args), offset |-> AppliedOffset(args)]
    BY <1>1 DEF Request
  <2>2. /\ at = "none" => AppliedOffset(args) = 0
        /\ at = "answered" => AppliedOffset(args) = args.offset
    BY <1>0, LimitsAssumption DEF AppliedOffset, LimitsAssumption
  <2> QED
    BY <1>1, <2>1, <2>2, BoundsType
<1>2. CASE list.kind = "relay"
  <2>1. applied' = [limit |-> IF args.limit = 0 THEN Null ELSE args.limit,
                    offset |-> IF args.offset = Null THEN 0 ELSE args.offset]
    BY <1>2 DEF Request
  <2> QED
    BY <1>0, <1>2, <2>1
<1>3. CASE list.kind = "list"
  <2>1. applied' = [limit |-> Null, offset |-> 0]
    BY <1>3 DEF Request
  <2> QED
    BY <1>0, <1>3, <2>1
<1>4. CASE list.kind = "object"
  <2>1. applied' = [limit |-> 1, offset |-> 0]
    BY <1>4 DEF Request
  <2> QED
    BY <1>0, <1>4, <2>1
<1> QED
  BY <1>0, <1>1, <1>2, <1>3, <1>4

LEMMA RequestKept ==
  ASSUME PagingInv, Request
  PROVE  PagingInv'
<1> USE DEF PagingInv
<1>0. /\ at' = "resolving" /\ nodes' = Null /\ total' = Null /\ more' = FALSE
      /\ quiet' = TRUE /\ at \in {"none", "answered"} /\ (at = "answered" => more)
      /\ there' = IF at = "none" THEN List ELSE there
      /\ UNCHANGED <<list, args, table, changes, seen, repeated, inserted, deleted>>
  BY DEF Request, List, listVars, tableVars
<1>1. List' = List /\ List \in SUBSET Rows /\ List \in SUBSET Nat /\ IsFiniteSet(List)
  BY <1>0, ListStays, ListType
<1>2. QueryTypeOK'
  <2>1. /\ applied' \in [limit : Int \cup {Null}, offset : Nat]
        /\ there' \subseteq Rows
    BY <1>0, <1>1, RequestBounds DEF QueryTypeOK
  <2>2. /\ nodes' \in (SUBSET Rows) \cup {Null} /\ total' \in Nat \cup {Null}
        /\ more' \in BOOLEAN /\ quiet' \in BOOLEAN
    BY <1>0
  <2> QED
    BY <1>0, <2>1, <2>2 DEF QueryTypeOK
<1>3. AppliedLimit(args)' = AppliedLimit(args)
  BY <1>0 DEF AppliedLimit
<1>4. BoundsInv'
  BY <1>0, <1>1, <1>3, RequestBounds DEF BoundsInv
<1>5. CountInv'
  BY <1>0 DEF CountInv
<1>6. SeenInv'
  <2> SUFFICES ASSUME list.kind # "object"
               PROVE  /\ (Covers(applied.offset, seen) /\ Once(applied.offset, seen))'
                      /\ ~inserted /\ list.order = "unique" => ~repeated
    BY <1>0 DEF SeenInv
  <2>1. ~inserted /\ list.order = "unique" => ~repeated
    BY DEF SeenInv
  <2>2. CASE at = "none"
    <3>1. seen = {} /\ applied'.offset = 0
      BY <2>2, RequestBounds DEF SeenInv
    <3>2. \A r \in List : Before(list.order, List, r) \in Nat
      BY <1>1, Ranks
    <3>3. Covers(applied.offset, seen)'
      BY <1>0, <1>1, <2>2, <3>1, <3>2 DEF Covers
    <3>4. Once(applied.offset, seen)'
      BY <1>0, <3>1 DEF Once
    <3> QED
      BY <2>1, <3>3, <3>4
  <2>3. CASE at = "answered"
    <3>1. list.kind \in {"offset", "relay"} => applied'.offset = args.offset
      BY <2>3, RequestBounds
    <3>2. Covers(args.offset, seen) /\ Once(args.offset, seen)
      BY <2>3 DEF SeenInv
    <3>3. CASE list.kind \in {"offset", "relay"}
      BY <1>0, <1>1, <2>1, <2>3, <3>1, <3>2, <3>3 DEF Covers, Once
    <3> QED
      BY <1>0, <2>3, <3>3 DEF QueryTypeOK, Kinds, BoundsInv
  <2> QED
    BY <1>0, <2>2, <2>3
<1> QED
  BY <1>2, <1>4, <1>5, <1>6

(* The nodes are the page, ...                                             *)
LEMMA PageMeans ==
  ASSUME PagingInv, ResolveNodes
  PROVE  /\ nodes' \in SUBSET List /\ nodes' \in SUBSET Rows /\ nodes' # Null
         /\ IsFiniteSet(nodes') /\ Cardinality(nodes') \in Nat
         /\ applied.limit = Null \/ applied.limit >= 0
         /\ \E l \in Nat :
              /\ l = IF applied.limit = Null THEN Cardinality(List)
                     ELSE applied.limit
              /\ Cardinality(nodes') = Places(0, Cardinality(List), applied.offset,
                                              applied.offset + l)
              /\ \A r \in List : Cardinality(Among(list.order, nodes', r)) =
                   Places(Before(list.order, List, r),
                          Cardinality(Among(list.order, List, r)),
                          applied.offset, applied.offset + l)
<1> USE DEF PagingInv
<1>0. /\ nodes' \in Pages(List, applied.limit, applied.offset)
      /\ applied.limit # Null => applied.limit >= 0
      /\ applied.limit \in Int \cup {Null} /\ applied.offset \in Nat
      /\ List \in SUBSET Rows /\ IsFiniteSet(List) /\ Cardinality(List) \in Nat
  BY ListType DEF ResolveNodes, List, QueryTypeOK
<1>1. nodes' \in SUBSET List
  BY <1>0 DEF Pages
<1>2. /\ nodes' \in SUBSET Rows /\ IsFiniteSet(nodes') /\ Cardinality(nodes') \in Nat
  BY <1>0, <1>1, Fewer
<1>3. nodes' # Null
  BY <1>2, NullAssumption DEF NullAssumption
<1> DEFINE l == IF applied.limit = Null THEN Cardinality(List) ELSE applied.limit
<1>4. l \in Nat
  BY <1>0
<1>5. (IF applied.limit = Null THEN applied.offset + Cardinality(List)
       ELSE applied.offset + applied.limit) = applied.offset + l
  OBVIOUS
<1>6. /\ Cardinality(nodes') = Places(0, Cardinality(List), applied.offset,
                                      applied.offset + l)
      /\ \A r \in List : Cardinality(Among(list.order, nodes', r)) =
           Places(Before(list.order, List, r),
                  Cardinality(Among(list.order, List, r)),
                  applied.offset, applied.offset + l)
  BY <1>0, <1>5 DEF Pages
<1> QED
  BY <1>0, <1>1, <1>2, <1>3, <1>4, <1>6

(* ... and what the client has seen with them goes to its end.             *)
LEMMA PageSeen ==
  ASSUME PagingInv, ResolveNodes, list.kind # "object",
         UNCHANGED <<seen, there, inserted, deleted, applied, list, args>>,
         List' = List
  PROVE  /\ Covers(PageEnd, seen \cup nodes)' /\ Once(PageEnd, seen \cup nodes)'
         /\ ~inserted /\ list.order = "unique" => nodes' \cap seen = {}
         /\ ~more' /\ ~deleted => HasLike(seen \cup nodes')
<1> USE DEF PagingInv
<1>0. /\ at = "resolving" /\ nodes = Null /\ there \subseteq List
      /\ applied.offset \in Nat /\ Null \notin Int
      /\ list.kind \in {"offset", "relay", "list"}
      /\ list.kind = "offset" => applied.limit = AppliedLimit(args)
      /\ list.kind = "list" => applied.limit = Null /\ applied.offset = 0
      /\ Covers(applied.offset, seen) /\ Once(applied.offset, seen)
  BY NullAssumption
     DEF ResolveNodes, QueryTypeOK, Kinds, BoundsInv, SeenInv, NullAssumption
<1>1. PICK l \in Nat :
        /\ l = IF applied.limit = Null THEN Cardinality(List) ELSE applied.limit
        /\ Cardinality(nodes') = Places(0, Cardinality(List), applied.offset,
                                        applied.offset + l)
        /\ \A r \in List : Cardinality(Among(list.order, nodes', r)) =
             Places(Before(list.order, List, r),
                    Cardinality(Among(list.order, List, r)),
                    applied.offset, applied.offset + l)
  BY PageMeans
<1> DEFINE b(r) == Before(list.order, List, r)
           o == applied.offset
           page == nodes'
           n == Cardinality(page)
<1>2. /\ List \in SUBSET Rows /\ IsFiniteSet(List) /\ Cardinality(List) \in Nat
      /\ \A r \in List : b(r) \in Nat /\ b(r) < Cardinality(List)
  BY ListType, Ranks
<1>3. /\ n \in Nat /\ n <= l /\ page \subseteq List /\ o \in Nat
      /\ \A r \in List : o <= b(r) /\ b(r) < o + l =>
           \E q \in page : Alike(list.order, q, r)
      /\ n < l => \A r \in List : b(r) < o + l
      /\ list.order = "unique" => \A r \in page : o <= b(r) /\ b(r) < o + n
  <2>1. page \in SUBSET List /\ o \in Nat /\ l \in Nat
    BY <1>0, <1>1, PageMeans
  <2>2. /\ Cardinality(page) = Places(0, Cardinality(List), o, o + l)
        /\ \A r \in List : Cardinality(Among(list.order, page, r)) =
             Places(Before(list.order, List, r),
                    Cardinality(Among(list.order, List, r)), o, o + l)
    BY <1>1
  <2> HIDE DEF PagingInv, page, o, n
  <2>3. /\ Cardinality(page) \in Nat /\ Cardinality(page) <= l
        /\ \A r \in List :
             o <= Before(list.order, List, r) /\ Before(list.order, List, r) < o + l =>
               \E q \in page : Alike(list.order, q, r)
        /\ Cardinality(page) < l => \A r \in List : Before(list.order, List, r) < o + l
        /\ list.order = "unique" => \A r \in page :
             /\ o <= Before(list.order, List, r)
             /\ Before(list.order, List, r) < o + Cardinality(page)
    BY <1>2, <2>1, <2>2, PageIsDense
  <2> QED
    BY <2>1, <2>3 DEF n
<1>4. PageEnd' = o + (IF list.kind = "offset" THEN l ELSE n)
  <2>1. AnsweredLimit(args)' = AnsweredLimit(args)
        /\ AnsweredLimit(args) = AppliedLimit(args)
    BY DEF AnsweredLimit, AppliedLimit
  <2>2. list.kind = "offset" => l = AppliedLimit(args)
    BY <1>0, <1>1, BoundsType
  <2> QED
    BY <2>1, <2>2 DEF PageEnd
<1> DEFINE end == o + (IF list.kind = "offset" THEN l ELSE n)
<1>5. /\ end \in Nat /\ end <= o + l /\ o <= end
      /\ list.order = "unique" => \A r \in page : o <= b(r) /\ b(r) < end
  BY <1>0, <1>2, <1>3
<1>6. ~more' => \A r \in List : b(r) < o + l
  <2>1. CASE list.kind = "offset"
    <3>1. more' = (n >= AnsweredLimit(args))
      BY <2>1 DEF ResolveNodes
    <3>2. AnsweredLimit(args) = l /\ l \in Nat
      BY <1>0, <1>1, <2>1, BoundsType DEF AnsweredLimit
    <3> HIDE DEF n
    <3>3. ~more' => n < l
      <4>1. more' = (n >= l)
        BY <3>1, <3>2
      <4>2. n \in Nat /\ l \in Nat
        BY <1>3
      <4>3. n >= l \/ n < l
        BY <4>2
      <4> QED
        BY <4>1, <4>3
    <3> QED
      BY <1>3, <3>3
  <2>2. CASE list.kind = "relay"
    <3>1. more' = (o + n < Cardinality(List))
      BY <2>2 DEF ResolveNodes, List
    <3> HIDE DEF n, o
    <3>2. ASSUME ~more', NEW r \in List
          PROVE  b(r) < o + l
      <4>1. ~(o + n < Cardinality(List))
        BY <3>1, <3>2
      <4>2. b(r) \in Nat /\ b(r) < Cardinality(List)
            /\ o \in Nat /\ n \in Nat /\ n <= l /\ Cardinality(List) \in Nat
        BY <1>2, <1>3, <3>2
      <4> QED
        BY <4>1, <4>2
    <3> QED
      BY <3>2
  <2>3. CASE list.kind = "list"
    BY <1>0, <1>1, <1>2, <2>3
  <2> QED
    BY <1>0, <2>1, <2>2, <2>3
<1> HIDE DEF page, n, end, o, b
<1>7. ASSUME ~deleted, NEW r \in there, b(r) < o + l
      PROVE  \E q \in seen \cup page : Alike(list.order, q, r)
  <2>1. r \in List /\ b(r) \in Nat /\ o \in Nat
    BY <1>0, <1>2, <1>7 DEF o
  <2>2. CASE b(r) < o
    BY <1>0, <1>7, <2>2 DEF Covers, o, b
  <2>3. CASE ~(b(r) < o)
    <3>1. o <= b(r)
      BY <2>1, <2>3
    <3> QED
      BY <1>3, <1>7, <2>1, <3>1
  <2> QED
    BY <2>2, <2>3
<1>8. Covers(PageEnd, seen \cup nodes)'
  <2>1. ASSUME ~deleted, NEW r \in there, b(r) < end
        PROVE  \E q \in seen \cup page : Alike(list.order, q, r)
    <3>1. b(r) \in Nat /\ o \in Nat
      BY <1>0, <1>2 DEF o
    <3>2. b(r) < o + l
      BY <1>5, <2>1, <3>1
    <3> QED
      BY <1>7, <2>1, <3>2
  <2>2. PageEnd' = end
    BY <1>4 DEF end
  <2> QED
    BY <2>1, <2>2 DEF Covers, page, b
<1>9. Once(PageEnd, seen \cup nodes)'
  <2>1. ASSUME ~inserted, list.order = "unique", NEW r \in seen \cup page, r \in List
        PROVE  b(r) < end
    <3>1. r \in seen => b(r) < o
      BY <1>0, <2>1 DEF Once, o, b
    <3>2. b(r) \in Nat /\ o \in Nat
      BY <1>0, <1>2, <2>1 DEF o
    <3> QED
      BY <1>5, <2>1, <3>1, <3>2
  <2>2. PageEnd' = end
    BY <1>4 DEF end
  <2> QED
    BY <2>1, <2>2 DEF Once, page, b
<1>10. ASSUME ~inserted, list.order = "unique", NEW r \in page, r \in seen
       PROVE  FALSE
  <2>1. r \in List /\ o <= b(r) /\ b(r) \in Nat /\ o \in Nat
    BY <1>0, <1>2, <1>3, <1>10 DEF o
  <2>2. b(r) < o
    BY <1>0, <1>10, <2>1 DEF Once, o, b
  <2> QED
    BY <2>1, <2>2
<1>11. ~more' /\ ~deleted => HasLike(seen \cup nodes')
  BY <1>0, <1>6, <1>7 DEF HasLike, page
<1> QED
  BY <1>8, <1>9, <1>10, <1>11 DEF page

LEMMA ResolveNodesKept ==
  ASSUME PagingInv, ResolveNodes
  PROVE  PagingInv'
<1> USE DEF PagingInv
<1>0. /\ UNCHANGED <<list, args, at, applied, total, table, changes, seen, repeated,
                     there, inserted, deleted, quiet>>
      /\ at = "resolving" /\ nodes = Null
      /\ list.kind \in {"list", "object"} => ~more'
  BY DEF ResolveNodes, listVars, tableVars, ghostVars
<1>1. List' = List
  BY <1>0, ListStays
<1>2. more' \in BOOLEAN
  <2>1. CASE list.kind = "offset"
    <3>1. \E page : more' = (Cardinality(page) >= AnsweredLimit(args))
      BY <2>1 DEF ResolveNodes
    <3> QED
      BY <3>1
  <2>2. CASE list.kind = "relay"
    <3>1. \E page : more' = (applied.offset + Cardinality(page) < Cardinality(List))
      BY <2>2 DEF ResolveNodes, List
    <3> QED
      BY <3>1
  <2>3. CASE list.kind \notin {"offset", "relay"}
    BY <2>3 DEF ResolveNodes
  <2> QED
    BY <2>1, <2>2, <2>3
<1>3. QueryTypeOK'
  BY <1>0, <1>2, PageMeans DEF QueryTypeOK
<1>4. AppliedLimit(args)' = AppliedLimit(args)
  BY <1>0 DEF AppliedLimit
<1>5. BoundsInv'
  BY <1>0, <1>1, <1>4, PageMeans DEF BoundsInv
<1>6. CountInv'
  BY <1>0, <1>1 DEF CountInv
<1>7. SeenInv'
  BY <1>0, <1>1, PageMeans, PageSeen DEF SeenInv, HasLike
<1> QED
  BY <1>3, <1>5, <1>6, <1>7

-----------------------------------------------------------------------------
(* The rows are counted as they are asked for.                             *)
LEMMA CountKept ==
  ASSUME PagingInv, ResolveTotalCount
  PROVE  PagingInv'
<1> USE DEF PagingInv
<1>0. /\ UNCHANGED <<list, args, at, applied, nodes, more, table, changes, seen,
                     repeated, there, inserted, deleted, quiet>>
      /\ at = "resolving"
  BY DEF ResolveTotalCount, listVars, tableVars, ghostVars
<1>1. List' = List /\ Cardinality(List) \in Nat
  BY <1>0, ListStays, ListType
<1>2. \/ total' = Cardinality(List)
      \/ total' \in Nat /\ list.kind = "relay" /\ list.restricted
  <2>1. \/ total' = Cardinality(Matching(CountWhere(args)))
        \/ /\ list.kind = "relay"
           /\ total' = Cardinality(Matching(RelayWhere(args)))
    BY DEF ResolveTotalCount, Count
  <2>2. Cardinality(Matching(RelayWhere(args))) \in Nat
    <3>1. Matching(RelayWhere(args)) \subseteq table
      BY DEF Matching
    <3> QED
      BY <3>1, Fewer DEF QueryTypeOK
  <2>3. list.kind = "relay" => args.id = Null
    BY DEF BoundsInv
  <2> QED
    BY <2>1, <2>2, <2>3, SameWhere
<1>3. total' \in Nat
  BY <1>1, <1>2
<1>4. QueryTypeOK'
  BY <1>0, <1>3 DEF QueryTypeOK
<1>5. AppliedLimit(args)' = AppliedLimit(args)
  BY <1>0 DEF AppliedLimit
<1>6. BoundsInv'
  BY <1>0, <1>1, <1>5 DEF BoundsInv
<1>7. CountInv'
  BY <1>0, <1>1, <1>2 DEF CountInv
<1>8. SeenInv'
  BY <1>0, <1>1 DEF SeenInv, HasLike, Covers, Once, PageEnd, AnsweredLimit,
                    AppliedLimit
<1> QED
  BY <1>4, <1>6, <1>7, <1>8

LEMMA FailKept ==
  ASSUME PagingInv, Fail
  PROVE  PagingInv'
<1> USE DEF PagingInv
<1>0. /\ UNCHANGED <<list, args, applied, nodes, more, total, table, changes, seen,
                     repeated, there, inserted, deleted, quiet>>
      /\ at = "resolving" /\ at' = "refused"
  BY DEF Fail, listVars, tableVars, ghostVars
<1>1. List' = List
  BY <1>0, ListStays
<1>2. QueryTypeOK'
  BY <1>0 DEF QueryTypeOK
<1>3. BoundsInv' /\ CountInv'
  BY <1>0, <1>1 DEF BoundsInv, CountInv
<1>4. SeenInv'
  BY <1>0 DEF SeenInv
<1> QED
  BY <1>2, <1>3, <1>4

(* The client goes on where the page has ended.                            *)
LEMMA AnswerKept ==
  ASSUME PagingInv, Answer
  PROVE  PagingInv'
<1> USE DEF PagingInv
<1>0. /\ UNCHANGED <<list, applied, nodes, more, total, table, changes, there,
                     inserted, deleted, quiet>>
      /\ at = "resolving" /\ at' = "answered" /\ nodes # Null
      /\ seen' = seen \cup nodes /\ repeated' = (repeated \/ seen \cap nodes # {})
      /\ list.kind \in {"offset", "relay"} => total # Null
      /\ args' = [args EXCEPT !.offset = PageEnd]
  BY DEF Answer, tableVars, PageEnd
<1>1. /\ args'.id = args.id /\ args'.group = args.group /\ args'.limit = args.limit
      /\ args'.offset = PageEnd
  BY <1>0 DEF QueryTypeOK
<1>2. List' = List
  BY <1>0, <1>1, ListFollows
<1>3. PageEnd \in Nat
  <2>1. applied.offset \in Nat /\ Cardinality(nodes) \in Nat
    BY <1>0, FS_CardinalityType DEF QueryTypeOK, BoundsInv
  <2>2. CASE list.kind = "offset"
    <3>1. AnsweredLimit(args) \in Nat
      <4>1. AnsweredLimit(args) = applied.limit
        BY <1>0, <2>2 DEF BoundsInv, AnsweredLimit
      <4>2. AppliedLimit(args) \in Int /\ Null \notin Int
        BY BoundsType, NullAssumption DEF NullAssumption
      <4> QED
        BY <1>0, <4>1, <4>2 DEF BoundsInv, AnsweredLimit
    <3> QED
      BY <2>1, <2>2, <3>1 DEF PageEnd
  <2>3. CASE list.kind # "offset"
    BY <2>1, <2>3 DEF PageEnd
  <2> QED
    BY <2>2, <2>3
<1>4. nodes \subseteq Rows
  BY <1>0 DEF QueryTypeOK
<1>5. QueryTypeOK'
  <2>1. args' \in [limit : Int \cup {Null}, offset : Int \cup {Null},
                   group : BOOLEAN, id : Rows \cup {Null}]
    BY <1>0, <1>3 DEF QueryTypeOK
  <2>2. repeated' \in BOOLEAN /\ seen' \subseteq Rows
    BY <1>0, <1>4 DEF QueryTypeOK
  <2> QED
    BY <1>0, <2>1, <2>2 DEF QueryTypeOK
<1>6. BoundsInv'
  BY <1>0, <1>1, <1>2, <1>3 DEF BoundsInv
<1>7. CountInv'
  BY <1>0, <1>2 DEF CountInv
<1>8. SeenInv'
  <2> SUFFICES ASSUME list.kind # "object"
               PROVE  /\ (Covers(args.offset, seen) /\ Once(args.offset, seen))'
                      /\ ~more /\ ~deleted => HasLike(seen)'
                      /\ ~inserted /\ list.order = "unique" => ~repeated'
    BY <1>0 DEF SeenInv
  <2>1. /\ Covers(PageEnd, seen \cup nodes) /\ Once(PageEnd, seen \cup nodes)
        /\ ~inserted /\ list.order = "unique" => nodes \cap seen = {}
        /\ ~more /\ ~deleted => HasLike(seen \cup nodes)
        /\ ~inserted /\ list.order = "unique" => ~repeated
    BY <1>0 DEF SeenInv
  <2>2. (Covers(args.offset, seen) /\ Once(args.offset, seen))'
    BY <1>0, <1>1, <1>2, <2>1 DEF Covers, Once
  <2>3. ~more /\ ~deleted => HasLike(seen)'
    BY <1>0, <2>1 DEF HasLike
  <2> QED
    BY <1>0, <2>1, <2>2, <2>3
<1> QED
  BY <1>5, <1>6, <1>7, <1>8

(* A row that comes moves others back: what was covered still is.          *)
LEMMA InsertKept ==
  ASSUME PagingInv, NEW x \in Rows, Insert(x)
  PROVE  PagingInv'
<1> USE DEF PagingInv
<1>0. /\ UNCHANGED <<list, args, at, applied, nodes, more, total, seen, repeated,
                     there, deleted>>
      /\ at # "none" /\ table' = table \cup {x} /\ changes < MaxChanges
      /\ changes' = changes + 1 /\ inserted' = TRUE /\ quiet' = FALSE
  BY DEF Insert, listVars, pageVars
<1>1. QueryTypeOK'
  <2>1. IsFiniteSet(table') /\ table' \subseteq Rows
    BY <1>0, FS_AddElement DEF QueryTypeOK
  <2>2. changes' \in 0 .. MaxChanges
    BY <1>0, MaxChangesAssumption DEF QueryTypeOK, MaxChangesAssumption
  <2>3. inserted' \in BOOLEAN /\ quiet' \in BOOLEAN
    BY <1>0
  <2> QED
    BY <1>0, <2>1, <2>2, <2>3 DEF QueryTypeOK
<1>2. List \subseteq List'
  BY <1>0, ListFollows
<1>3. List' \in SUBSET Nat /\ IsFiniteSet(List')
  <2>1. List' \subseteq table'
    BY <1>0, ListFollows
  <2> QED
    BY <1>1, <2>1, Fewer, RowsAssumption DEF QueryTypeOK, RowsAssumption
<1>4. \A r : /\ Before(list.order, List, r) \in Nat
             /\ Before(list.order, List', r) \in Nat
             /\ Before(list.order, List, r) <= Before(list.order, List', r)
  BY <1>2, <1>3, RankGrows
<1>5. AppliedLimit(args)' = AppliedLimit(args)
  BY <1>0 DEF AppliedLimit
<1>6. BoundsInv'
  BY <1>0, <1>2, <1>5 DEF BoundsInv
<1>7. CountInv'
  BY <1>0 DEF CountInv
<1>8. ASSUME NEW o, o \in Int, NEW rows, Covers(o, rows)
      PROVE  ~deleted => \A r \in there : Before(list.order, List', r) < o =>
               \E q \in rows : Alike(list.order, q, r)
  BY <1>4, <1>8 DEF Covers
<1>9. SeenInv'
  <2> SUFFICES ASSUME list.kind # "object"
               PROVE  SeenInv'
    BY <1>0 DEF SeenInv
  <2>1. /\ applied.offset \in Int /\ (at = "answered" => args.offset \in Int)
        /\ at = "resolving" /\ nodes # Null => PageEnd \in Int
    <3>1. applied.offset \in Int /\ (at = "answered" => args.offset \in Int)
      BY DEF QueryTypeOK, BoundsInv
    <3>2. ASSUME at = "resolving", nodes # Null
          PROVE  Cardinality(nodes) \in Int
      BY <3>2, FS_CardinalityType DEF BoundsInv
    <3> QED
      BY <3>1, <3>2, BoundsType DEF PageEnd, AnsweredLimit
  <2>2. PageEnd' = PageEnd
    BY <1>0, <1>5 DEF PageEnd, AnsweredLimit
  <2>3. CASE at = "resolving" /\ nodes = Null
    <3>1. Covers(applied.offset, seen)
      BY <2>3 DEF SeenInv
    <3>2. Covers(applied.offset, seen)'
      BY <1>0, <1>8, <2>1, <3>1 DEF Covers
    <3> QED
      BY <1>0, <2>3, <3>2 DEF SeenInv, HasLike, Once
  <2>4. CASE at = "resolving" /\ nodes # Null
    <3>1. Covers(PageEnd, seen \cup nodes)
          /\ (~more /\ ~deleted => HasLike(seen \cup nodes))
      BY <2>4 DEF SeenInv
    <3>2. Covers(PageEnd, seen \cup nodes)'
      BY <1>0, <1>8, <2>1, <2>2, <2>4, <3>1 DEF Covers
    <3> QED
      BY <1>0, <2>4, <3>1, <3>2 DEF SeenInv, HasLike, Once
  <2>5. CASE at = "answered"
    <3>1. Covers(args.offset, seen) /\ (~more /\ ~deleted => HasLike(seen))
      BY <2>5 DEF SeenInv
    <3>2. Covers(args.offset, seen)'
      BY <1>0, <1>8, <2>1, <2>5, <3>1 DEF Covers
    <3> QED
      BY <1>0, <2>5, <3>1, <3>2 DEF SeenInv, HasLike, Once
  <2>6. CASE at = "refused"
    BY <1>0, <2>6 DEF SeenInv
  <2> QED
    BY <1>0, <2>3, <2>4, <2>5, <2>6 DEF QueryTypeOK
<1> QED
  BY <1>1, <1>6, <1>7, <1>9

(* A row that goes moves others forward: what was once still is.           *)
LEMMA DeleteKept ==
  ASSUME PagingInv, NEW x \in Rows, Delete(x)
  PROVE  PagingInv'
<1> USE DEF PagingInv
<1>0. /\ UNCHANGED <<list, args, at, applied, nodes, more, total, seen, repeated,
                     inserted>>
      /\ at # "none" /\ table' = table \ {x} /\ changes < MaxChanges
      /\ changes' = changes + 1 /\ deleted' = TRUE /\ quiet' = FALSE
      /\ there' = there \ {x}
  BY DEF Delete, listVars, pageVars
<1>1. QueryTypeOK'
  <2>1. IsFiniteSet(table') /\ table' \subseteq Rows /\ there' \subseteq Rows
    <3>1. table' \subseteq table /\ IsFiniteSet(table)
      BY <1>0 DEF QueryTypeOK
    <3> QED
      BY <1>0, <3>1, Fewer DEF QueryTypeOK
  <2>2. changes' \in 0 .. MaxChanges
    BY <1>0, MaxChangesAssumption DEF QueryTypeOK, MaxChangesAssumption
  <2>3. deleted' \in BOOLEAN /\ quiet' \in BOOLEAN
    BY <1>0
  <2> QED
    BY <1>0, <2>1, <2>2, <2>3 DEF QueryTypeOK
<1>2. List' = List \ {x}
  BY <1>0, ListFollows
<1>3. List \in SUBSET Nat /\ IsFiniteSet(List)
  BY ListType
<1>4. \A r : /\ Before(list.order, List, r) \in Nat
             /\ Before(list.order, List', r) \in Nat
             /\ Before(list.order, List', r) <= Before(list.order, List, r)
  BY <1>2, <1>3, RankGrows
<1>5. AppliedLimit(args)' = AppliedLimit(args)
  BY <1>0 DEF AppliedLimit
<1>6. BoundsInv'
  BY <1>0, <1>2, <1>5 DEF BoundsInv
<1>7. CountInv'
  BY <1>0 DEF CountInv
<1>8. ASSUME NEW o, o \in Int, NEW rows, Once(o, rows)
      PROVE  ~inserted /\ list.order = "unique" =>
               \A r \in rows \cap List' : Before(list.order, List', r) < o
  BY <1>2, <1>4, <1>8 DEF Once
<1>9. SeenInv'
  <2> SUFFICES ASSUME list.kind # "object"
               PROVE  SeenInv'
    BY <1>0 DEF SeenInv
  <2>1. /\ applied.offset \in Int /\ (at = "answered" => args.offset \in Int)
        /\ at = "resolving" /\ nodes # Null => PageEnd \in Int
    <3>1. applied.offset \in Int /\ (at = "answered" => args.offset \in Int)
      BY DEF QueryTypeOK, BoundsInv
    <3>2. ASSUME at = "resolving", nodes # Null
          PROVE  Cardinality(nodes) \in Int
      BY <3>2, FS_CardinalityType DEF BoundsInv
    <3> QED
      BY <3>1, <3>2, BoundsType DEF PageEnd, AnsweredLimit
  <2>2. PageEnd' = PageEnd
    BY <1>0, <1>5 DEF PageEnd, AnsweredLimit
  <2>3. CASE at = "resolving" /\ nodes = Null
    <3>1. Once(applied.offset, seen)
      BY <2>3 DEF SeenInv
    <3>2. Once(applied.offset, seen)'
      BY <1>0, <1>8, <2>1, <3>1 DEF Once
    <3> QED
      BY <1>0, <2>3, <3>2 DEF SeenInv, HasLike, Covers
  <2>4. CASE at = "resolving" /\ nodes # Null
    <3>1. Once(PageEnd, seen \cup nodes)
      BY <2>4 DEF SeenInv
    <3>2. Once(PageEnd, seen \cup nodes)'
      BY <1>0, <1>8, <2>1, <2>2, <2>4, <3>1 DEF Once
    <3> QED
      BY <1>0, <2>4, <3>2 DEF SeenInv, HasLike, Covers
  <2>5. CASE at = "answered"
    <3>1. Once(args.offset, seen)
      BY <2>5 DEF SeenInv
    <3>2. Once(args.offset, seen)'
      BY <1>0, <1>8, <2>1, <2>5, <3>1 DEF Once
    <3> QED
      BY <1>0, <2>5, <3>2 DEF SeenInv, HasLike, Covers
  <2>6. CASE at = "refused"
    BY <1>0, <2>6 DEF SeenInv
  <2> QED
    BY <1>0, <2>3, <2>4, <2>5, <2>6 DEF QueryTypeOK
<1> QED
  BY <1>1, <1>6, <1>7, <1>9

LEMMA SamePagingInv ==
  ASSUME PagingInv, UNCHANGED queryVars
  PROVE  PagingInv'
<1>0. UNCHANGED <<list, args, at, applied, nodes, more, total, table, changes, seen,
                  repeated, there, inserted, deleted, quiet>>
  BY DEF queryVars, listVars, pageVars, tableVars, ghostVars
<1>1. List' = List /\ PageEnd' = PageEnd
  BY <1>0, ListStays DEF PagingInv, PageEnd, AnsweredLimit, AppliedLimit
<1>2. QueryTypeOK' /\ BoundsInv'
  BY <1>0, <1>1 DEF PagingInv, QueryTypeOK, BoundsInv, AppliedLimit
<1>3. SeenInv' /\ CountInv'
  BY <1>0, <1>1 DEF PagingInv, SeenInv, CountInv, HasLike, Covers, Once
<1> QED
  BY <1>2, <1>3 DEF PagingInv

LEMMA NextPagingInv == PagingInv /\ [QueryNext]_queryVars => PagingInv'
<1> SUFFICES ASSUME PagingInv, [QueryNext]_queryVars PROVE PagingInv'
  OBVIOUS
<1>1. CASE \E x \in Rows : Insert(x) \/ Delete(x)
  BY <1>1, InsertKept, DeleteKept
<1>2. CASE Request \/ ResolveNodes \/ ResolveTotalCount \/ Fail \/ Answer
  BY <1>2, RequestKept, ResolveNodesKept, CountKept, FailKept, AnswerKept
<1>3. CASE UNCHANGED queryVars
  BY <1>3, SamePagingInv
<1> QED
  BY <1>1, <1>2, <1>3 DEF QueryNext

-----------------------------------------------------------------------------
(* A request, its answers and what the client has seen keep their types.   *)
(* (resolvers of createPaginatedListType)                                  *)
THEOREM QueryTypes == QuerySpec => []QueryTypeOK
<1>1. PagingInv => QueryTypeOK
  BY DEF PagingInv
<1> QED
  BY <1>1, InitPagingInv, NextPagingInv, PTL DEF QuerySpec

(* The pages that a client has read to the end of a list have, whatever    *)
(* bounds it asks for and when nothing was deleted, of every row that was  *)
(* in it throughout that row or one alike in the list's order; and in a    *)
(* list with a unique order none twice, when nothing was inserted.         *)
(* (resolvePaginatedOffsetListType, resolvePaginatedRelayListType)         *)
THEOREM PagesRead == QuerySpec => []PagesCover
<1>1. PagingInv => PagesCover
  BY DEF PagingInv, SeenInv, HasLike, PagesCover, Ended
<1> QED
  BY <1>1, InitPagingInv, NextPagingInv, PTL DEF QuerySpec

(* While nobody changes the table, the total count that comes with a page  *)
(* is the number of rows of the list, whatever its filters and joins: of   *)
(* an offset list also when its target has a before handler, of a relay    *)
(* list only when it has none, since its count does not call the handler.  *)
(* (totalCount of resolvePaginatedOffsetListType and of                    *)
(* resolvePaginatedRelayListType, "distinct count for paging")             *)
THEOREM Total == QuerySpec => []TotalIsOfTheList
<1>1. ASSUME PagingInv
      PROVE  TotalIsOfTheList
  <2>1. CountInv
    BY <1>1 DEF PagingInv
  <2> QED
    BY <2>1 DEF CountInv, TotalIsOfTheList, List
<1> QED
  BY <1>1, InitPagingInv, NextPagingInv, PTL DEF QuerySpec

(***************************************************************************)
(* LogStreams                                                              *)
(***************************************************************************)
USE TicksAssumption, BoundsAssumption, NoneAssumption
    DEF TicksAssumption, BoundsAssumption, NoneAssumption

(* What a record written to the streams posts is a number of posts.        *)
LEMMA PostsCounted ==
  ASSUME NEW n \in Nat, NEW m \in Nat
  PROVE  Posted(n, m) \in Nat
BY DEF Posted

(* What is counted stays within its bound.                                 *)
LEMMA CountedBounded ==
  ASSUME NEW n \in Nat
  PROVE  Counted(n) \in 0 .. MaxPosts
BY DEF Counted

LEMMA PostsBounded ==
  ASSUME posts \in 0 .. MaxPosts, NEW n \in Nat, NEW m \in Nat
  PROVE  Counted(posts + Posted(n, m)) \in 0 .. MaxPosts
<1>1. posts + Posted(n, m) \in Nat
  BY PostsCounted
<1>2. QED
  BY <1>1, CountedBounded

(* Writing a fatal error keeps the types of what it changes. *)
LEMMA WriteFatalType ==
  ASSUME TypeOK, NEW done \in 0 .. 1, done <= posts, WriteFatal(done)
  PROVE  /\ fatals + 1 \in Fatals
         /\ fatals' \in 0 .. MaxFatals
         /\ collectedErrors' \subseteq Fatals
         /\ sendErrorMailTimeout' \in 0 .. Followup \cup {None}
         /\ posts' \in 0 .. MaxPosts
         /\ UNCHANGED <<mails, mailed, failed, loggerVars, exited>>
<1>1. fatals + 1 \in Fatals /\ fatals' = fatals + 1
  BY DEF TypeOK, WriteFatal, Fatals
<1>2. Posted(IF sendErrorMailTimeout = None THEN 1 ELSE 2, 1) \in Nat
  BY PostsCounted
<1>3. posts - done + Posted(IF sendErrorMailTimeout = None THEN 1 ELSE 2, 1)
        \in Nat
  BY <1>2 DEF TypeOK
<1>4. posts' \in 0 .. MaxPosts
  BY <1>3, CountedBounded DEF WriteFatal
<1>5. QED
  BY <1>1, <1>4 DEF WriteFatal, TypeOK, Fatals

(* An unhandled error keeps the types of the exit.                         *)
LEMMA UnhandledType ==
  ASSUME TypeOK, NEW done \in 0 .. 1, done <= posts, Unhandled(done)
  PROVE  /\ exitTimeout' \in 0 .. ExitDelay \cup {None}
         /\ cause' \in Fatals \cup {None}
BY WriteFatalType DEF Unhandled, TypeOK, ExitIn

-----------------------------------------------------------------------------
(* The state of the streams keeps its type. (aaa-logger/src)               *)
THEOREM TypeCorrect == Spec => []TypeOK
<1>1. ASSUME Init
      PROVE  TypeOK
  <2>1. /\ configured \in BOOLEAN /\ exited \in BOOLEAN
        /\ loggerOf \in [Modules -> {"mock", "child", None}]
    BY <1>1 DEF Init
  <2>2. QED
    BY <1>1, <2>1 DEF Init, TypeOK, Fatals
<1>2. ASSUME TypeOK, [Next]_vars
      PROVE  TypeOK'
  <2>0. USE <1>2
  <2>1. CASE Configure
    BY <2>1 DEF Configure, TypeOK, slackVars, mailVars, timeVars
  <2>2. ASSUME NEW m \in Modules, GetChildLogger(m)
        PROVE  TypeOK'
    BY <2>2 DEF GetChildLogger, TypeOK, slackVars, mailVars, timeVars
  <2>3. ASSUME NEW m \in Modules, LogFatal(m)
        PROVE  TypeOK'
    <3>1. WriteFatal(0) /\ 0 <= posts
      BY <2>3 DEF LogFatal, TypeOK
    <3>2. QED
      BY <2>3, <3>1, WriteFatalType DEF LogFatal, TypeOK, loggerVars
  <2>4. ASSUME NEW m \in Modules, Log(m)
        PROVE  TypeOK'
    <3>1. posts' \in 0 .. MaxPosts
      <4>1. posts \in 0 .. MaxPosts
        BY DEF TypeOK
      <4>2. Counted(posts + Posted(0, 1)) \in 0 .. MaxPosts
        BY <4>1, PostsBounded
      <4>3. QED
        BY <2>4, <4>2 DEF Log
    <3>2. /\ UNCHANGED <<configured, loggerOf, warningsPosted>>
          /\ UNCHANGED <<slackEnabled, bodies, fatals>>
          /\ UNCHANGED mailVars
          /\ UNCHANGED timeVars
      BY <2>4 DEF Log, loggerVars
    <3>3. QED
      BY <3>1, <3>2 DEF TypeOK, mailVars, timeVars
  <2>5. CASE UncaughtException
    <3>1. Unhandled(0) /\ WriteFatal(0) /\ 0 <= posts
      BY <2>5 DEF UncaughtException, Unhandled, TypeOK
    <3>2. /\ fatals' \in 0 .. MaxFatals
          /\ collectedErrors' \subseteq Fatals
          /\ sendErrorMailTimeout' \in 0 .. Followup \cup {None}
          /\ posts' \in 0 .. MaxPosts
          /\ UNCHANGED <<mails, mailed, failed, loggerVars, exited>>
      BY <3>1, WriteFatalType
    <3>3. /\ exitTimeout' \in 0 .. ExitDelay \cup {None}
          /\ cause' \in Fatals \cup {None}
      BY <3>1, UnhandledType
    <3>4. QED
      BY <2>5, <3>2, <3>3 DEF UncaughtException, TypeOK, loggerVars
  <2>6. CASE SendErrorMail
    <3>1. posts' \in 0 .. MaxPosts
      <4>1. posts \in 0 .. MaxPosts
        BY DEF TypeOK
      <4>2. Counted(posts + Posted(1, 0)) \in 0 .. MaxPosts
        BY <4>1, PostsBounded
      <4>3. QED
        BY <2>6, <4>2 DEF SendErrorMail, Warn
    <3>2. QED
      BY <2>6, <3>1
         DEF SendErrorMail, TypeOK, loggerVars, timeVars, Pending
  <2>7. ASSUME NEW mail \in mails, MailSent(mail)
        PROVE  TypeOK'
    <3>1. posts' \in 0 .. MaxPosts
      <4>1. posts \in 0 .. MaxPosts
        BY DEF TypeOK
      <4>2. Counted(posts + Posted(1, 0)) \in 0 .. MaxPosts
        BY <4>1, PostsBounded
      <4>3. QED
        BY <2>7, <4>2 DEF MailSent, Warn
    <3>2. mailed' \subseteq Fatals /\ failed' \subseteq Fatals
      BY <2>7 DEF MailSent, TypeOK
    <3>3. QED
      BY <2>7, <3>1, <3>2 DEF MailSent, TypeOK, loggerVars, timeVars
  <2>8. CASE SlackAnswers
    <3>1. Counted(bodies + 1) \in 0 .. MaxPosts
      BY CountedBounded DEF TypeOK
    <3>2. QED
      BY <2>8, <3>1
         DEF SlackAnswers, TypeOK, loggerVars, mailVars, timeVars
  <2>9. CASE SlackFails
    <3>1. Unhandled(1) /\ WriteFatal(1) /\ 1 <= posts
      BY <2>9 DEF SlackFails, Unhandled, TypeOK
    <3>2. /\ fatals' \in 0 .. MaxFatals
          /\ collectedErrors' \subseteq Fatals
          /\ sendErrorMailTimeout' \in 0 .. Followup \cup {None}
          /\ posts' \in 0 .. MaxPosts
          /\ UNCHANGED <<mails, mailed, failed, loggerVars, exited>>
      BY <3>1, WriteFatalType
    <3>3. /\ exitTimeout' \in 0 .. ExitDelay \cup {None}
          /\ cause' \in Fatals \cup {None}
      BY <3>1, UnhandledType
    <3>4. QED
      BY <2>9, <3>2, <3>3 DEF SlackFails, TypeOK, loggerVars
  <2>10. CASE DisableSlack
    <3>0. bodies' \in 0 .. MaxPosts
      BY <2>10 DEF DisableSlack, TypeOK
    <3>1. slackEnabled' \in BOOLEAN
      BY <2>10 DEF DisableSlack
    <3>2. UNCHANGED <<loggerVars, posts, fatals, mailVars, timeVars>>
      BY <2>10 DEF DisableSlack
    <3>3. QED
      BY <3>0, <3>1, <3>2 DEF TypeOK, loggerVars, mailVars, timeVars
  <2>11. CASE BodyFails
    <3>1. Unhandled(0) /\ WriteFatal(0) /\ 0 <= posts
      BY <2>11 DEF BodyFails, Unhandled, TypeOK
    <3>2. /\ fatals' \in 0 .. MaxFatals
          /\ collectedErrors' \subseteq Fatals
          /\ sendErrorMailTimeout' \in 0 .. Followup \cup {None}
          /\ posts' \in 0 .. MaxPosts
          /\ UNCHANGED <<mails, mailed, failed, loggerVars, exited>>
      BY <3>1, WriteFatalType
    <3>3. /\ exitTimeout' \in 0 .. ExitDelay \cup {None}
          /\ cause' \in Fatals \cup {None}
      BY <3>1, UnhandledType
    <3>4. QED
      BY <2>11, <3>2, <3>3 DEF BodyFails, TypeOK, loggerVars
  <2>12. CASE Tick
    BY <2>12 DEF Tick, Due, TypeOK, loggerVars, slackVars
  <2>13. CASE Exit
    BY <2>13 DEF Exit, TypeOK, loggerVars, slackVars, mailVars
  <2>14. CASE UNCHANGED vars
    BY <2>14 DEF vars, TypeOK, loggerVars, slackVars, mailVars, timeVars
  <2>15. QED
    BY <2>1, <2>2, <2>3, <2>4, <2>5, <2>6, <2>7, <2>8, <2>9, <2>10, <2>11,
       <2>12, <2>13, <2>14 DEF Next
<1>3. QED
  BY <1>1, <1>2, PTL DEF Spec

-----------------------------------------------------------------------------
(* What leaves the collected errors, the mails and their outcomes alone    *)
(* keeps EveryErrorOnce.                                                   *)
LEMMA MailUnchanged ==
  ASSUME EveryErrorOnce, fatals' = fatals, collectedErrors' = collectedErrors,
         mails' = mails, mailed' = mailed, failed' = failed,
         sendErrorMailTimeout' = None <=> sendErrorMailTimeout = None
  PROVE  EveryErrorOnce'
BY DEF EveryErrorOnce

(* Errors are collected, sent and reported: none is lost or doubled.       *)
LEMMA CollectsFatal ==
  ASSUME TypeOK, EveryErrorOnce, NEW done \in 0 .. 1, WriteFatal(done)
  PROVE  EveryErrorOnce'
<1> DEFINE f == fatals + 1
<1>1. /\ fatals \in Nat /\ fatals' = f
      /\ collectedErrors' = collectedErrors \cup {f}
      /\ UNCHANGED <<mails, mailed, failed>>
      /\ sendErrorMailTimeout' # None
  BY DEF WriteFatal, TypeOK
<1>2. 1 .. f = (1 .. fatals) \cup {f} /\ f \notin 1 .. fatals
  BY <1>1
<1>3. f \notin (UNION mails) \cup mailed \cup failed
  BY <1>2 DEF EveryErrorOnce
<1> HIDE DEF f
<1>4. 1 .. fatals' = collectedErrors' \cup (UNION mails') \cup mailed' \cup failed'
  BY <1>1, <1>2 DEF EveryErrorOnce
<1>5. \A mail \in mails' :
        /\ mail \cap (collectedErrors' \cup mailed' \cup failed') = {}
        /\ \A other \in mails' : mail = other \/ mail \cap other = {}
  BY <1>1, <1>3 DEF EveryErrorOnce
<1>6. /\ collectedErrors' \cap (mailed' \cup failed') = {}
      /\ mailed' \cap failed' = {}
      /\ collectedErrors' # {} <=> sendErrorMailTimeout' # None
  BY <1>1, <1>3 DEF EveryErrorOnce
<1>7. QED
  BY <1>4, <1>5, <1>6 DEF EveryErrorOnce

LEMMA SendsErrors ==
  ASSUME TypeOK, EveryErrorOnce, SendErrorMail
  PROVE  EveryErrorOnce'
<1>1. /\ collectedErrors' = {} /\ sendErrorMailTimeout' = None
      /\ mails' = mails \cup {collectedErrors}
      /\ UNCHANGED <<fatals, mailed, failed>>
  BY DEF SendErrorMail, Pending
<1>2. (UNION mails') = (UNION mails) \cup collectedErrors
  BY <1>1
<1>3. 1 .. fatals' = collectedErrors' \cup (UNION mails') \cup mailed' \cup failed'
  BY <1>1, <1>2 DEF EveryErrorOnce
<1>4. \A mail \in mails' :
        /\ mail \cap (collectedErrors' \cup mailed' \cup failed') = {}
        /\ \A other \in mails' : mail = other \/ mail \cap other = {}
  BY <1>1 DEF EveryErrorOnce
<1>5. QED
  BY <1>1, <1>3, <1>4 DEF EveryErrorOnce

LEMMA ReportsErrors ==
  ASSUME TypeOK, EveryErrorOnce, NEW mail \in mails, MailSent(mail)
  PROVE  EveryErrorOnce'
<1>1. /\ mails' = mails \ {mail}
      /\ mailed' \cup failed' = mailed \cup failed \cup mail
      /\ UNCHANGED <<fatals, collectedErrors, sendErrorMailTimeout>>
  BY DEF MailSent
<1>2. (UNION mails) = (UNION mails') \cup mail
  BY <1>1
<1>3. 1 .. fatals' = collectedErrors' \cup (UNION mails') \cup mailed' \cup failed'
  BY <1>1, <1>2 DEF EveryErrorOnce
<1>4. \A one \in mails' :
        /\ one \cap (collectedErrors' \cup mailed' \cup failed') = {}
        /\ \A other \in mails' : one = other \/ one \cap other = {}
  <2> TAKE one \in mails'
  <2>1. one \in mails /\ one # mail
    BY <1>1
  <2>2. one \cap (collectedErrors \cup mailed \cup failed \cup mail) = {}
    BY <2>1 DEF EveryErrorOnce
  <2>3. QED
    BY <1>1, <2>1, <2>2 DEF EveryErrorOnce
<1>5. mailed' \cap failed' = {}
  BY DEF MailSent, EveryErrorOnce
<1>6. collectedErrors' \cap (mailed' \cup failed') = {}
  BY <1>1 DEF EveryErrorOnce
<1>7. QED
  BY <1>1, <1>3, <1>4, <1>5, <1>6 DEF EveryErrorOnce

(* No fatal error is lost or reported twice, whatever the order of timers, *)
(* mails and further errors. (BunyanErrorMailStream.write)                 *)
THEOREM Reported == Spec => []EveryErrorOnce
<1>1. Init => EveryErrorOnce
  BY DEF Init, EveryErrorOnce
<1>2. ASSUME TypeOK, EveryErrorOnce, [Next]_vars
      PROVE  EveryErrorOnce'
  <2>0. USE <1>2
  <2>1. CASE Configure
    BY <2>1, MailUnchanged DEF Configure, mailVars
  <2>2. ASSUME NEW m \in Modules, GetChildLogger(m) \/ Log(m)
        PROVE  EveryErrorOnce'
    BY <2>2, MailUnchanged DEF GetChildLogger, Log, mailVars
  <2>3. ASSUME NEW m \in Modules, LogFatal(m)
        PROVE  EveryErrorOnce'
    BY <2>3, CollectsFatal DEF LogFatal
  <2>4. CASE UncaughtException \/ SlackFails \/ BodyFails
    BY <2>4, CollectsFatal
       DEF UncaughtException, SlackFails, BodyFails, Unhandled
  <2>5. CASE SendErrorMail
    BY <2>5, SendsErrors
  <2>6. ASSUME NEW mail \in mails, MailSent(mail)
        PROVE  EveryErrorOnce'
    BY <2>6, ReportsErrors
  <2>7. CASE SlackAnswers \/ DisableSlack
    BY <2>7, MailUnchanged DEF SlackAnswers, DisableSlack, mailVars
  <2>8. CASE Tick
    <3>1. sendErrorMailTimeout' = None <=> sendErrorMailTimeout = None
      BY <2>8 DEF Tick, Due, TypeOK
    <3>2. QED
      BY <2>8, <3>1, MailUnchanged DEF Tick
  <2>9. CASE Exit
    BY <2>9, MailUnchanged DEF Exit, mailVars
  <2>10. CASE UNCHANGED vars
    BY <2>10, MailUnchanged DEF vars, mailVars
  <2>11. QED
    BY <2>1, <2>2, <2>3, <2>4, <2>5, <2>6, <2>7, <2>8, <2>9, <2>10 DEF Next
<1>3. QED
  BY <1>1, <1>2, TypeCorrect, PTL DEF Spec

-----------------------------------------------------------------------------
(* The exit's timer is set by the unhandled error that it is for, and as   *)
(* long as that error is waiting to be mailed, the time that has gone by   *)
(* since was taken up by the windows of the errors that came after it.     *)
Window == (fatals - cause + 1) * Followup
DelayInv ==
  /\ cause = None <=> exitTimeout = None
  /\ exited => exitTimeout = 0
  /\ cause # None => cause \in 1 .. fatals
  /\ cause \in collectedErrors =>
       (ExitDelay - exitTimeout) + sendErrorMailTimeout <= Window

(* One more error adds one more window. *)
LEMMA OneMoreWindow ==
  ASSUME NEW f \in Nat, NEW c \in Nat
  PROVE  ((f + 1) - c + 1) * Followup = (f - c + 1) * Followup + Followup
BY Z3

(* Steps that leave the errors and the clock alone                         *)
LEMMA DelayUnchanged ==
  ASSUME DelayInv, fatals' = fatals, collectedErrors' = collectedErrors,
         sendErrorMailTimeout' = sendErrorMailTimeout,
         UNCHANGED timeVars
  PROVE  DelayInv'
BY DEF DelayInv, Window, timeVars

(* A fatal error, of which the exit's timer is set or not. *)
LEMMA DelayOfFatal ==
  ASSUME TypeOK, EveryErrorOnce, DelayInv, Running,
         NEW done \in 0 .. 1, WriteFatal(done),
         \/ UNCHANGED <<exitTimeout, cause>>
         \/ exitTimeout = None /\ exitTimeout' = ExitDelay /\ cause' = fatals + 1
  PROVE  DelayInv'
<1>1. /\ fatals \in Nat /\ fatals' = fatals + 1
      /\ collectedErrors' = collectedErrors \cup {fatals + 1}
      /\ sendErrorMailTimeout' = Followup
      /\ ~exited' /\ ~exited
  BY DEF WriteFatal, TypeOK, Running
<1>2. CASE UNCHANGED <<exitTimeout, cause>>
  <2>1. SUFFICES ASSUME cause \in collectedErrors'
                 PROVE  (ExitDelay - exitTimeout) + Followup <= Window'
    <3>1. /\ cause = None <=> exitTimeout = None
          /\ cause # None => cause \in 1 .. fatals
      BY DEF DelayInv
    <3>2. /\ cause' = None <=> exitTimeout' = None
          /\ exited' => exitTimeout' = 0
          /\ cause' # None => cause' \in 1 .. fatals'
      BY <1>1, <1>2, <3>1
    <3>3. exitTimeout' = exitTimeout /\ cause' = cause
      BY <1>2
    <3>4. QED
      BY <1>1, <3>2, <3>3 DEF DelayInv
  <2>2. cause \in Nat /\ exitTimeout \in Nat /\ exitTimeout <= ExitDelay
    <3>1. cause \in Nat
      BY <2>1, <1>1 DEF TypeOK, Fatals
    <3>2. exitTimeout # None
      BY <3>1 DEF DelayInv
    <3>3. QED
      BY <3>1, <3>2 DEF TypeOK
  <2>3. cause # None /\ cause \in 1 .. fatals /\ cause \in collectedErrors
    BY <2>1, <1>1, <1>2, <2>2 DEF DelayInv
  <2>4. collectedErrors # {} /\ sendErrorMailTimeout # None
    BY <2>3 DEF EveryErrorOnce
  <2>5. sendErrorMailTimeout \in Nat
    BY <2>4 DEF TypeOK
  <2>6. (ExitDelay - exitTimeout) + sendErrorMailTimeout <= Window
    BY <2>3 DEF DelayInv
  <2>7. Window \in Nat /\ Window' = Window + Followup
    <3>1. cause' = cause /\ fatals' = fatals + 1
      BY <1>1, <1>2
    <3>2. fatals - cause + 1 \in Nat
      BY <2>2, <2>3, <1>1
    <3>3. QED
      BY <3>1, <3>2, <2>2, <1>1, OneMoreWindow DEF Window
  <2>8. QED
    BY <2>2, <2>5, <2>6, <2>7
<1>3. CASE /\ exitTimeout = None /\ exitTimeout' = ExitDelay
           /\ cause' = fatals + 1
  <2>1. Window' = Followup
    BY <1>1, <1>3 DEF Window
  <2>2. QED
    BY <1>1, <1>3, <2>1 DEF DelayInv
<1>4. QED
  BY <1>2, <1>3

(* An unhandled error is fatal, and the first one starts the exit.         *)
LEMMA DelayOfUnhandled ==
  ASSUME TypeOK, EveryErrorOnce, DelayInv, Running,
         NEW done \in 0 .. 1, Unhandled(done)
  PROVE  DelayInv'
<1>1. CASE exitTimeout = None
  BY <1>1, DelayOfFatal DEF Unhandled, ExitIn
<1>2. CASE exitTimeout # None
  BY <1>2, DelayOfFatal DEF Unhandled
<1>3. QED
  BY <1>1, <1>2

(* The unhandled error that ends the process is mailed before, unless      *)
(* others kept putting the mail off. (attachGlobalUncaughtExceptionHandler)*)
THEOREM Mailed == Spec => []MailedBeforeExit
<1>1. Init => DelayInv
  BY DEF Init, DelayInv
<1>2. ASSUME TypeOK, EveryErrorOnce, DelayInv, [Next]_vars
      PROVE  DelayInv'
  <2>0. USE <1>2
  <2>1. ASSUME NEW m \in Modules, GetChildLogger(m) \/ Log(m)
        PROVE  DelayInv'
    BY <2>1, DelayUnchanged DEF GetChildLogger, Log, mailVars
  <2>2. CASE Configure \/ SlackAnswers \/ DisableSlack
    BY <2>2, DelayUnchanged DEF Configure, SlackAnswers, DisableSlack, mailVars
  <2>3. ASSUME NEW m \in Modules, LogFatal(m)
        PROVE  DelayInv'
    BY <2>3, DelayOfFatal DEF LogFatal
  <2>4. CASE UncaughtException \/ SlackFails \/ BodyFails
    BY <2>4, DelayOfUnhandled DEF UncaughtException, SlackFails, BodyFails
  <2>5. CASE SendErrorMail
    <3>1. /\ collectedErrors' = {}
          /\ UNCHANGED <<fatals, exitTimeout, exited, cause>>
      BY <2>5 DEF SendErrorMail, Pending, timeVars
    <3>2. QED
      BY <3>1 DEF DelayInv
  <2>6. ASSUME NEW mail \in mails, MailSent(mail)
        PROVE  DelayInv'
    BY <2>6, DelayUnchanged DEF MailSent
  <2>7. CASE Tick
    <3>1. /\ UNCHANGED <<fatals, collectedErrors, exited, cause>>
          /\ ~exited
          /\ exitTimeout' = None <=> exitTimeout = None
      BY <2>7 DEF Tick, Running, Due, TypeOK
    <3>2. ASSUME cause \in collectedErrors
          PROVE  (ExitDelay - exitTimeout') + sendErrorMailTimeout' <= Window
      <4>1. cause # None /\ sendErrorMailTimeout # None
        BY <3>2 DEF TypeOK, Fatals, EveryErrorOnce
      <4>2. /\ exitTimeout \in Nat /\ exitTimeout' = exitTimeout - 1
            /\ sendErrorMailTimeout \in Nat
            /\ sendErrorMailTimeout' = sendErrorMailTimeout - 1
        BY <4>1, <2>7 DEF Tick, TypeOK, DelayInv
      <4>3. (ExitDelay - exitTimeout) + sendErrorMailTimeout <= Window
        BY <3>2 DEF DelayInv
      <4>4. QED
        BY <4>2, <4>3
    <3>3. Window' = Window
      BY <3>1 DEF Window
    <3>4. QED
      BY <3>1, <3>2, <3>3 DEF DelayInv
  <2>8. CASE Exit
    <3>1. /\ UNCHANGED <<fatals, collectedErrors, sendErrorMailTimeout>>
          /\ UNCHANGED <<exitTimeout, cause>> /\ exitTimeout = 0
      BY <2>8 DEF Exit, mailVars
    <3>2. QED
      BY <3>1 DEF DelayInv, Window
  <2>9. CASE UNCHANGED vars
    BY <2>9, DelayUnchanged DEF vars, mailVars
  <2>10. QED
    BY <2>1, <2>2, <2>3, <2>4, <2>5, <2>6, <2>7, <2>8, <2>9 DEF Next
<1>3. TypeOK /\ EveryErrorOnce /\ DelayInv => MailedBeforeExit
  <2> SUFFICES ASSUME TypeOK, EveryErrorOnce, DelayInv,
                      exited, cause \in collectedErrors
               PROVE  Window >= ExitDelay
    BY DEF MailedBeforeExit, Window
  <2>1. sendErrorMailTimeout \in Nat
    BY DEF EveryErrorOnce, TypeOK
  <2>2. exitTimeout = 0 /\ (ExitDelay - exitTimeout) + sendErrorMailTimeout <= Window
    BY DEF DelayInv
  <2>3. Window \in Int
    BY DEF Window, TypeOK, Fatals
  <2>4. QED
    BY <2>1, <2>2, <2>3
<1>4. QED
  BY <1>1, <1>2, <1>3, TypeCorrect, Reported, PTL DEF Spec

-----------------------------------------------------------------------------
(* Slack's stream is never turned on again, and once it is off nothing is  *)
(* posted any more, the warning about the error that turned it off         *)
(* included. (BunyanSlackStream.write: "disabling logger")                 *)
THEOREM SlackStays == Spec => SlackStaysOff
<1> DEFINE Off ==
      /\ ~slackEnabled => ~slackEnabled' /\ posts' <= posts
      /\ slackEnabled /\ ~slackEnabled' => posts' = posts
<1>1. ASSUME TypeOK, Next
      PROVE  Off
  <2>0. posts \in 0 .. MaxPosts
    BY <1>1 DEF TypeOK
  <2>1. \A n, m \in Nat : ~slackEnabled => Posted(n, m) = 0
    BY DEF Posted
  <2>2. ASSUME NEW done \in 0 .. 1, WriteFatal(done), UNCHANGED slackEnabled
        PROVE  Off
    BY <2>0, <2>1, <2>2 DEF WriteFatal, Counted
  <2>3. ASSUME NEW m \in Modules, LogFatal(m)
        PROVE  Off
    BY <2>2, <2>3 DEF LogFatal
  <2>4. CASE UncaughtException \/ SlackFails \/ BodyFails
    BY <2>2, <2>4
       DEF UncaughtException, SlackFails, BodyFails, Unhandled
  <2>5. ASSUME NEW m \in Modules, Log(m)
        PROVE  Off
    BY <2>0, <2>1, <2>5 DEF Log, Counted
  <2>6. CASE SendErrorMail \/ \E mail \in mails : MailSent(mail)
    BY <2>0, <2>1, <2>6 DEF SendErrorMail, MailSent, Warn, Counted
  <2>7. CASE SlackAnswers \/ DisableSlack
    BY <2>0, <2>7 DEF SlackAnswers, DisableSlack
  <2>8. ASSUME NEW m \in Modules, GetChildLogger(m)
        PROVE  Off
    BY <2>0, <2>8 DEF GetChildLogger, slackVars
  <2>9. CASE Configure \/ Tick \/ Exit
    BY <2>0, <2>9 DEF Configure, Tick, Exit, slackVars
  <2>10. QED
    BY <1>1, <2>3, <2>4, <2>5, <2>6, <2>7, <2>8, <2>9 DEF Next
<1>2. QED
  BY <1>1, TypeCorrect, PTL DEF Spec, SlackStaysOff
=============================================================================
