-------------------------------- MODULE Catalog --------------------------------
(***************************************************************************)
(* Checking a proposed architecture against the vetted templates            *)
(* (internal/catalog): every document, from the model or from the user's    *)
(* hand, is checked and normalised here before it is stored.  Amounts are   *)
(* whole; free texts are left out.                                          *)
(***************************************************************************)
EXTENDS Integers, Sequences, FiniteSets, Functions, TLC

CONSTANTS
  Catalogue,   \* the templates shipped, by id
  Region,      \* the region of the user's AWS connection
  Budget,      \* the chat's monthly ceiling, or Nil
  BlockLimit,  \* a proposal has at most this many blocks (6 in the code)
  Nil          \* a field left out, or null

-------------------------------------------------------------------------------
(* Parameter values, as JSON has them *)

Text(s) == [type |-> "string", s |-> s]
Halves(h) == [type |-> "number", halves |-> h]   \* 2n is n, 2n + 1 is n.5
Number(n) == Halves(2 * n)
Bool(b) == [type |-> "bool", b |-> b]

IsWhole(v) == v.type = "number" /\ v.halves % 2 = 0

(* fmt.Sprintf("%v", v) *)
Printed(v) ==
  CASE v.type = "string" -> v.s
    [] v.type = "bool" -> ToString(v.b)
    [] OTHER -> ToString(v.halves \div 2) \o (IF IsWhole(v) THEN "" ELSE ".5")

(* Numbers by value, anything else by how it prints: "7" passes for 7. *)
EqualJSONValue(a, b) ==
  IF a.type = "number" /\ b.type = "number" THEN a.halves = b.halves
  ELSE Printed(a) = Printed(b)

CheckParam(p, v) ==
  CASE p.type = "string" -> v.type = "string" /\ v.s \in p.matches
    [] p.type = "bool" -> v.type = "bool"
    [] p.type = "int" -> IsWhole(v) /\ v.halves \in 2 * p.min .. 2 * p.max
    [] p.type = "enum" -> \E a \in p.allowed : EqualJSONValue(a, v)
    [] OTHER -> FALSE

-------------------------------------------------------------------------------
(* What Load accepts of the shipped templates *)

Loadable ==
  /\ Catalogue # <<>>
  /\ \A t \in DOMAIN Catalogue : t # "" /\ Catalogue[t].requires \subseteq DOMAIN Catalogue

ASSUME CatalogAssumption == Loadable /\ BlockLimit \in Nat

(* Load does not look at defaults: that every optional parameter has one, and *)
(* one that fits, is a fact of the templates in internal/catalog/templates.   *)
DefaultFits(p) == p.required \/ (p.default # Nil /\ CheckParam(p, p.default))

ASSUME DefaultsAssumption ==
  \A t \in DOMAIN Catalogue : \A n \in DOMAIN Catalogue[t].params :
    DefaultFits(Catalogue[t].params[n])

-------------------------------------------------------------------------------
(* Documents.  A collection the proposal leaves out is Nil. *)

Get(t) == t \in DOMAIN Catalogue
Given(c) == IF c = Nil THEN <<>> ELSE c
BlocksOf(d) == Given(d.blocks)
IdsOf(d) == {b.id : b \in Range(BlocksOf(d))}
Present(d) == {b.template_id : b \in Range(BlocksOf(d))} \cap DOMAIN Catalogue

IdFaults(d, i) ==
  LET blocks == BlocksOf(d)
  IN  {x \in {"id"} : blocks[i].id = "" \/ \E j \in 1..(i - 1) : blocks[j].id = blocks[i].id}

ParamFaults(t, params) ==
  LET specs == Catalogue[t].params
  IN  (DOMAIN params \ DOMAIN specs)
      \cup {n \in DOMAIN specs \ DOMAIN params : specs[n].required}
      \cup {n \in DOMAIN specs \cap DOMAIN params : ~CheckParam(specs[n], params[n])}

LinkFaults(d, b) ==
  {x \in {"requires"} : ~(Catalogue[b.template_id].requires \subseteq Present(d))}
  \cup {x \in {"depends"} : ~(Range(Given(b.depends_on)) \subseteq IdsOf(d))}

BlockFaults(d, i) ==
  LET b == BlocksOf(d)[i]
  IN  IdFaults(d, i) \cup
      (IF Get(b.template_id)
       THEN ParamFaults(b.template_id, Given(b.parameters)) \cup LinkFaults(d, b)
       ELSE {"template_id"})

(* Errors, by the part of the document they are about *)
Errors(d) ==
  {x \in {"schema_version"} : d.schema_version \notin {0, 1}}
  \cup {x \in {"blocks"} : BlocksOf(d) = <<>> /\ Given(d.out_of_catalog) = <<>>}
  \cup {x \in {"limit"} : Len(BlocksOf(d)) > BlockLimit}
  \cup UNION {BlockFaults(d, i) : i \in DOMAIN BlocksOf(d)}

(* The cost is that of the templates, whatever the proposal said.          *)
Total(d, end) ==
  LET cost(b) == IF Get(b.template_id) THEN Catalogue[b.template_id][end] ELSE 0
  IN  SumFunction([i \in DOMAIN BlocksOf(d) |-> cost(BlocksOf(d)[i])])

(* Mutant: the sum starts from the estimate the document came with. *)
CostOnTop(d) ==
  LET start(k) == IF d.estimated_cost = Nil THEN 0 ELSE d.estimated_cost[k]
  IN  [monthly_low |-> start("monthly_low") + Total(d, "low"),
       monthly_high |-> start("monthly_high") + Total(d, "high")]

Cost(d) == [monthly_low |-> Total(d, "low"), monthly_high |-> Total(d, "high")]

(* Mutant: the low end of the estimate is compared with the budget. *)
BlockersAtLow(d, scope) ==
  {x \in {"blocks"} : BlocksOf(d) = <<>> /\ Given(d.out_of_catalog) # <<>>}
  \cup {x \in {"budget"} : /\ Budget # Nil /\ BlocksOf(d) # <<>>
                            /\ Cost(d).monthly_low > Budget}
  \cup {x \in {"scope"} : scope}

Blockers(d, scope) ==
  {x \in {"blocks"} : BlocksOf(d) = <<>> /\ Given(d.out_of_catalog) # <<>>}
  \cup {x \in {"budget"} : /\ Budget # Nil /\ BlocksOf(d) # <<>>
                            /\ Cost(d).monthly_high > Budget}
  \cup {x \in {"scope"} : scope}

Verdict(d, scope) ==
  IF Errors(d) # {} THEN "rejected"
  ELSE IF Blockers(d, scope) # {} THEN "not_applicable"
  ELSE "ok"

(* A default fills a parameter that is left out, unchecked.                 *)
WithDefaults(t, params) ==
  LET specs == Catalogue[t].params
      filled == {n \in DOMAIN specs \ DOMAIN params : ~specs[n].required /\ specs[n].default # Nil}
  IN  [n \in DOMAIN params \cup filled |->
         IF n \in DOMAIN params THEN params[n] ELSE specs[n].default]

NormalBlock(b) ==
  [id |-> b.id, template_id |-> b.template_id,
   parameters |-> WithDefaults(b.template_id, Given(b.parameters)),
   depends_on |-> Given(b.depends_on)]

(* What Validate makes of a document it does not reject.  The region is      *)
(* stamped on it, whatever it names.                                        *)
Normal(d) ==
  [schema_version |-> 1, region |-> Region,
   blocks |-> [i \in DOMAIN BlocksOf(d) |-> NormalBlock(BlocksOf(d)[i])],
   out_of_catalog |-> Given(d.out_of_catalog),
   estimated_cost |-> Cost(d)]

===============================================================================
