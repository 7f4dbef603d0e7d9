------------------------------- MODULE Query -------------------------------
(***************************************************************************)
(* The filter trees of searches and actions (src/query/query.cpp) with the *)
(* meaning SQL gives what they compile to, over the rows of v_frames.      *)
(*                                                                         *)
(* A truth value is 0 (false), 1 (unknown, something was NULL) or 2 (true), *)
(* so that AND is the least, OR the greatest and NOT x is 2 - x.  A node is *)
(* [op, clauses] for and, or, not; otherwise [op, field, value].  Left out: *)
(* cones (spherical trigonometry), LIKE, and comparisons of header cards    *)
(* other than equality.                                                     *)
(***************************************************************************)
EXTENDS Names

CONSTANTS Null, Fields   \* the allow-listed columns

Junctions == {"and", "or", "not"}
Memberships == {"tagged", "untagged", "in_collection"}
Comparisons == {"eq", "ne", "lt", "lte", "gt", "gte", "in", "between", "isnull", "notnull"}

False == 0
Unknown == 1
True == 2
Truth(b) == IF b THEN True ELSE False
Least(S) == CHOOSE x \in S : \A y \in S : x <= y
Greatest(S) == CHOOSE x \in S : \A y \in S : x >= y

(* compile_node throws a QueryError otherwise. *)
RECURSIVE Compiles(_)
Compiles(node) ==
    CASE node.op \in {"and", "or"} -> node.clauses # <<>> /\ \A i \in DOMAIN node.clauses : Compiles(node.clauses[i])
      [] node.op = "not" -> Len(node.clauses) = 1 /\ Compiles(node.clauses[1])
      [] node.op \in Memberships -> TRUE
      [] node.op \in {"card", "card_absent"} -> TRUE
      [] OTHER -> /\ node.op \in Comparisons /\ node.field \in Fields
                  /\ node.op = "in" => node.value # {}

(* An object is looked for under each of its designations. *)
ComparesObject(node, row) ==
    IF row.object_canonical = Null THEN Unknown ELSE Truth(row.object_canonical \in Designations(node.value))

(* compile_comparison *)
Compares(node, row) ==
    LET had == row[node.field]
    IN CASE node.op = "isnull" -> Truth(had = Null)
         [] node.op = "notnull" -> Truth(had # Null)
         [] node.field = "object" /\ node.op = "eq" -> ComparesObject(node, row)
         [] OTHER ->
              IF had = Null THEN Unknown
              ELSE Truth(CASE node.op = "eq" -> had = node.value
                           [] node.op = "ne" -> had # node.value
                           [] node.op = "lt" -> had < node.value
                           [] node.op = "lte" -> had <= node.value
                           [] node.op = "gt" -> had > node.value
                           [] node.op = "gte" -> had >= node.value
                           [] node.op = "in" -> had \in node.value
                           [] node.op = "between" -> node.value[1] <= had /\ had <= node.value[2])

(* compile_keyword *)
HasCard(node, row) ==
    /\ node.field \in DOMAIN row.cards
    /\ node.op = "card" => row.cards[node.field] = node.value

(* compile_node.  Tags, collections and cards are subqueries with EXISTS,   *)
(* which is never unknown.                                                  *)
RECURSIVE Holds(_, _)
Holds(node, row) ==
    CASE node.op = "and" -> Least({Holds(node.clauses[i], row) : i \in DOMAIN node.clauses})
      [] node.op = "or" -> Greatest({Holds(node.clauses[i], row) : i \in DOMAIN node.clauses})
      [] node.op = "not" -> True - Holds(node.clauses[1], row)
      [] node.op = "tagged" -> Truth(node.value \in row.tags)
      [] node.op = "untagged" -> Truth(node.value \notin row.tags)
      [] node.op = "in_collection" -> Truth(node.value \in row.collections)
      [] node.op = "card" -> Truth(HasCard(node, row))
      [] node.op = "card_absent" -> Truth(~HasCard(node, row))
      [] OTHER -> Compares(node, row)

(* filter_fields *)
RECURSIVE FilterFields(_)
FilterFields(node) ==
    CASE node.op \in Junctions -> UNION {FilterFields(node.clauses[i]) : i \in DOMAIN node.clauses}
      [] node.op \in Memberships \cup {"card", "card_absent"} -> {}
      [] OTHER -> {node.field}

(* compile_filter: no filter is every row. *)
Selected(filter, rows) == IF filter = Null THEN rows ELSE {r \in rows : Holds(filter, r) = True}

(* POST /query: missing files are hidden unless the filter speaks of the   *)
(* status or the request asks for them.                                    *)
HidesMissing(filter, includeMissing) ==
    ~includeMissing /\ (filter = Null \/ "file_status" \notin FilterFields(filter))

Shown(filter, includeMissing, rows) ==
    {r \in Selected(filter, rows) : HidesMissing(filter, includeMissing) => r.file_status # "missing"}

MissingHidden(filter, includeMissing, rows) ==
    Selected(filter, rows) \ Shown(filter, includeMissing, rows)

(* compile_sort: [field, dir] in turn, the date downwards by default; NULL  *)
(* is the least value, and rows that agree on all of them come in any order. *)
SortKeys(sort) == IF sort = <<>> THEN <<[field |-> "date_obs_utc", dir |-> "desc"]>> ELSE sort

Below(a, b) == b # Null /\ (a = Null \/ a < b)

Earlier(sort, r, s) ==
    \E i \in DOMAIN SortKeys(sort) :
       LET before(k) == IF k.dir = "asc" THEN Below(r[k.field], s[k.field]) ELSE Below(s[k.field], r[k.field])
       IN /\ before(SortKeys(sort)[i])
          /\ \A j \in 1 .. i - 1 : r[SortKeys(sort)[j].field] = s[SortKeys(sort)[j].field]

Listings(sort, rows) ==
    {l \in SetToSeqs(rows) : \A i \in DOMAIN l : \A j \in 1 .. i - 1 : ~Earlier(sort, l[i], l[j])}

Page(listing, offset, limit) ==
    SubSeq(listing, offset + 1, IF offset + limit < Len(listing) THEN offset + limit ELSE Len(listing))
=============================================================================
