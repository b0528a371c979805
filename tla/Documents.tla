------------------------------- MODULE Documents -------------------------------
(***************************************************************************)
(* What becomes of a proposed document: it is validated and normalised       *)
(* (Catalog), compared with the current one (ConfigDiff) and stored with     *)
(* its changes, and a deployment turns it into a root module                *)
(* (runner/terraform/generate.go).  The proposals are the current document   *)
(* with a block added, replaced or removed, or its needs restated.          *)
(***************************************************************************)
EXTENDS Catalog, ConfigDiff, SequencesExt

CONSTANTS
  Blocks,       \* the blocks proposals are made of
  Needs,        \* the lists of needs no template covers
  Chars,        \* the characters of each block id
  IdOrder,      \* the block ids in string order
  Letters, Digits

ASSUME DocumentsAssumption ==
  /\ \A b \in Blocks :
       /\ b = [id |-> b.id, template_id |-> b.template_id,
               parameters |-> b.parameters, depends_on |-> b.depends_on]
       /\ b.id \in Range(IdOrder)
  /\ Len(IdOrder) \in Nat /\ DOMAIN IdOrder = 1..Len(IdOrder)

VARIABLES
  doc,       \* the current document, or Nil
  verdict,   \* its verdict
  previous,  \* the document it replaced, or Nil
  changes    \* the changes stored with it

vars == <<doc, verdict, previous, changes>>

-------------------------------------------------------------------------------
(* Documents as JSON *)

Strings(s) == List([i \in DOMAIN s |-> Atom(Text(s[i]))])
NullOr(c, json) == IF c = Nil THEN Null ELSE json

BlockJSON(b) ==
  Object([id |-> Atom(Text(b.id)),
          template_id |-> Atom(Text(b.template_id)),
          parameters |-> NullOr(b.parameters,
            Object([n \in DOMAIN b.parameters |-> Atom(b.parameters[n])])),
          depends_on |-> NullOr(b.depends_on, Strings(b.depends_on))])

JSON(d) ==
  IF d = Nil THEN Null ELSE
  Object([schema_version |-> Atom(Number(d.schema_version)),
          region |-> Atom(Text(d.region)),
          blocks |-> List([i \in DOMAIN d.blocks |-> BlockJSON(d.blocks[i])]),
          out_of_catalog |-> Strings(d.out_of_catalog),
          estimated_cost |->
            Object([k \in DOMAIN d.estimated_cost |-> Atom(Number(d.estimated_cost[k]))])])

-------------------------------------------------------------------------------
(* Proposals *)

Init ==
  /\ doc = Nil /\ verdict = "ok" /\ previous = Nil
  /\ changes = {}

(* A document that is not rejected becomes the current version.             *)
Store(d, scope) ==
  /\ Verdict(d, scope) # "rejected"
  /\ doc' = Normal(d)
  /\ verdict' = Verdict(d, scope)
  /\ previous' = doc
  /\ changes' = Diff(JSON(doc), JSON(doc'))

Propose(blocks, needs, scope) ==
  Store([schema_version |-> 0, region |-> "", blocks |-> blocks,
         out_of_catalog |-> needs, estimated_cost |-> Nil], scope)

CurrentBlocks == IF doc = Nil THEN <<>> ELSE doc.blocks
CurrentNeeds == IF doc = Nil THEN Nil ELSE doc.out_of_catalog

AddBlock(b) == Propose(Append(CurrentBlocks, b), CurrentNeeds, FALSE)
ReplaceBlock(i, b) == Propose([CurrentBlocks EXCEPT ![i] = b], CurrentNeeds, FALSE)
RemoveBlock(i) == Propose(RemoveAt(CurrentBlocks, i), CurrentNeeds, FALSE)
Restate(needs, scope) == Propose(CurrentBlocks, needs, scope)

(* The user's own document keeps what it says of schema and cost.           *)
Submit(schema, cost) ==
  /\ doc # Nil
  /\ Store([schema_version |-> schema, region |-> doc.region, blocks |-> doc.blocks,
            out_of_catalog |-> doc.out_of_catalog, estimated_cost |-> cost], FALSE)

Next ==
  \/ \E b \in Blocks : AddBlock(b)
  \/ \E i \in DOMAIN CurrentBlocks, b \in Blocks : ReplaceBlock(i, b)
  \/ \E i \in DOMAIN CurrentBlocks : RemoveBlock(i)
  \/ \E needs \in Needs, scope \in BOOLEAN : Restate(needs, scope)
  \/ \E schema \in {0, 1, 2}, cost \in {Nil, [monthly_low |-> 0, monthly_high |-> 0]} :
       Submit(schema, cost)

Spec == Init /\ [][Next]_vars

-------------------------------------------------------------------------------
(* The root module of a deployment: one module block per block              *)

Replace(s, old, new) == [i \in DOMAIN s |-> IF s[i] = old THEN new ELSE s[i]]

(* What is not part of an identifier is dropped. *)
HclIdent(s) ==
  LET fits(i) == s[i] \in Letters \cup {"_"} \/ (i > 1 /\ s[i] \in Digits \cup {"-"})
      kept == FoldLeftDomain(LAMBDA out, i : IF fits(i) THEN Append(out, s[i]) ELSE out, <<>>, s)
  IN  IF kept = <<>> THEN <<"invalid">> ELSE kept

ModuleName(id) == HclIdent(Replace(Chars[id], "-", "_"))

Rank(id) == CHOOSE i \in DOMAIN IdOrder : IdOrder[i] = id

(* Mutant: the blocks are sorted by their template. *)
ByTemplate(a, b) == a.template_id = "bucket" /\ b.template_id # "bucket"

ById(a, b) == Rank(a.id) < Rank(b.id)

(* sort.Slice, which promises no order among those that compare as equal *)
Sorted(blocks) ==
  LET places == DOMAIN blocks
      order == CHOOSE p \in Bijection(places, places) :
                 \A i, j \in places : i < j => ~ById(blocks[p[j]], blocks[p[i]])
  IN  [i \in places |-> blocks[order[i]]]

(* generateRoot, for the blocks of a document; arguments are sorted by name. *)
RootModule(blocks) ==
  LET sorted == Sorted(blocks)
  IN  [i \in DOMAIN sorted |->
         [name |-> ModuleName(sorted[i].id), source |-> sorted[i].template_id,
          args |-> sorted[i].parameters]]

-------------------------------------------------------------------------------
(* Properties *)

(* A stored document is a fixed point: validated again, by an edit that      *)
(* changes nothing or a later turn, it has no errors and stays as it is,     *)
(* defaults, collections and cost included.                                 *)
StoredIsNormal == doc # Nil => Errors(doc) = {} /\ Normal(doc) = doc

(* The changes C, applied to v at a path: of a collection, each member that  *)
(* is not removed is what Deeper makes of it with the changes below it.     *)
Touched(path, C) == {c.path[Len(path) + 1] : c \in {x \in C : Len(x.path) > Len(path)}}
Dropped(path, C) ==
  {k \in Touched(path, C) : \E c \in C : c.op = "remove" /\ c.path = Append(path, k)}
Under(path, C, k) == {c \in C : Len(c.path) > Len(path) /\ c.path[Len(path) + 1] = k}

Rebuilt(Deeper(_, _, _), path, v, C) ==
  LET old(k) == IF k \in DOMAIN v.at THEN v.at[k] ELSE Null
  IN  IF \E c \in C : c.path = path THEN (CHOOSE c \in C : c.path = path).to
      ELSE IF C = {} THEN v
      ELSE [kind |-> v.kind,
            at |-> [k \in (DOMAIN v.at \cup Touched(path, C)) \ Dropped(path, C) |->
                      Deeper(Append(path, k), old(k), Under(path, C, k))]]

Patched0(path, v, C) == IF C = {} THEN v ELSE (CHOOSE c \in C : c.path = path).to
Patched1(path, v, C) == Rebuilt(Patched0, path, v, C)
Patched2(path, v, C) == Rebuilt(Patched1, path, v, C)
Patched3(path, v, C) == Rebuilt(Patched2, path, v, C)
Patched4(path, v, C) == Rebuilt(Patched3, path, v, C)

(* The changes stored with a version tell the whole story: applied to the    *)
(* previous document, wherever blocks moved to, they give the new one.      *)
ChangesRebuild == Patched4(<<>>, JSON(previous), changes) = JSON(doc)

(* A document whose verdict is ok is within the catalog: nothing it deploys  *)
(* is outside what a template allows, lacks what it needs or costs more     *)
(* than the ceiling at the top of the estimate.                             *)
OkIsVetted ==
  (doc # Nil /\ verdict = "ok") =>
    /\ doc.blocks # <<>>
    /\ \A i, j \in DOMAIN doc.blocks : doc.blocks[i].id = doc.blocks[j].id => i = j
    /\ \A b \in Range(doc.blocks) :
         LET specs == Catalogue[b.template_id].params
         IN  /\ DOMAIN b.parameters = DOMAIN specs
             /\ \A n \in DOMAIN specs : CheckParam(specs[n], b.parameters[n])
             /\ \A t \in Catalogue[b.template_id].requires :
                  \E c \in Range(doc.blocks) : c.template_id = t
    /\ Budget # Nil =>
         ~(SumFunction([i \in DOMAIN doc.blocks |->
                          Catalogue[doc.blocks[i].template_id].high]) > Budget)

(* The root module does not depend on the order the blocks were proposed in: *)
(* a plan hash is only meaningful if what is hashed is stable.              *)
RootIsStable ==
  doc # Nil =>
    \A p \in Bijection(DOMAIN doc.blocks, DOMAIN doc.blocks) :
      RootModule([i \in DOMAIN doc.blocks |-> doc.blocks[p[i]]]) = RootModule(doc.blocks)

===============================================================================
