------------------------------- MODULE ConfigDiff ------------------------------
(***************************************************************************)
(* Comparing two documents (internal/configdiff): the changes by path that   *)
(* are stored with a version.                                               *)
(***************************************************************************)
EXTENDS Integers, Sequences

-------------------------------------------------------------------------------
(* JSON values: of a collection, "at" gives the members by key or position.  *)
(* An empty document decodes to Null.                                       *)

Null == [kind |-> "null"]
Atom(v) == [kind |-> "atom", at |-> v]
Object(f) == [kind |-> "object", at |-> f]
List(s) == [kind |-> "list", at |-> s]

IsNull(v) == v.kind = "null"
BothCollections(a, b) == a.kind = b.kind /\ a.kind \in {"object", "list"}

-------------------------------------------------------------------------------
(* Diff: changes by path; the order they are stored in, by path, is left out. *)

Change(op, path, from, to) == [op |-> op, path |-> path, from |-> from, to |-> to]
Added(path, v) == {Change("add", path, Null, v)}
Removed(path, v) == {Change("remove", path, v, Null)}
Replaced(path, a, b) ==
  IF a.kind = b.kind /\ a.at = b.at THEN {} ELSE {Change("replace", path, a, b)}

(* Mutant: what only the newer collection has is not looked at. *)
KeysOfOlder(a, b) == DOMAIN a.at

Keys(a, b) == DOMAIN a.at \cup DOMAIN b.at

(* What walk does for each member, in the loops of objects and of lists. *)
Member(Deeper(_, _, _), path, k, a, b) ==
  IF k \notin DOMAIN b.at THEN Removed(path, a.at[k])
  ELSE IF k \notin DOMAIN a.at THEN Added(path, b.at[k])
  ELSE Deeper(path, a.at[k], b.at[k])

(* walk, from one path down; Deeper is its recursive call *)
Compare(Deeper(_, _, _), path, a, b) ==
  CASE IsNull(a) /\ IsNull(b) -> {}
    [] IsNull(a) /\ ~IsNull(b) -> Added(path, b)
    [] ~IsNull(a) /\ IsNull(b) -> Removed(path, a)
    [] ~IsNull(a) /\ ~IsNull(b) /\ BothCollections(a, b) ->
         UNION {Member(Deeper, Append(path, k), k, a, b) : k \in Keys(a, b)}
    [] OTHER -> Replaced(path, a, b)

(* The recursion, unrolled to the depth of a document: the parameters of a   *)
(* block in its list are scalars four levels down.                          *)
Walk0(path, a, b) == Replaced(path, a, b)
Walk1(path, a, b) == Compare(Walk0, path, a, b)
Walk2(path, a, b) == Compare(Walk1, path, a, b)
Walk3(path, a, b) == Compare(Walk2, path, a, b)
Walk4(path, a, b) == Compare(Walk3, path, a, b)

Diff(from, to) == Walk4(<<>>, from, to)

===============================================================================
