---------------------------- MODULE DocumentsProofs ----------------------------
(***************************************************************************)
(* Validation, comparison and rendering of documents, for every catalogue,  *)
(* every limit and every set of proposals.                                  *)
(***************************************************************************)
EXTENDS Documents, SequenceTheorems, FunctionTheorems, FiniteSetTheorems, TLAPS

(* A field that is left out is told from every object and list. *)
IsFcn(f) == f = [x \in DOMAIN f |-> f[x]]
NilIsApart == \A f : IsFcn(f) => f # Nil

-------------------------------------------------------------------------------
(* What it takes for a document to have no errors *)

LEMMA BlockIsClean ==
  ASSUME NEW d, NEW i
  PROVE  LET b == BlocksOf(d)[i]
         IN  BlockFaults(d, i) = {} <=>
               /\ b.id # "" /\ \A j \in 1..(i - 1) : BlocksOf(d)[j].id # b.id
               /\ Get(b.template_id)
               /\ ParamFaults(b.template_id, Given(b.parameters)) = {}
               /\ Catalogue[b.template_id].requires \subseteq Present(d)
               /\ Range(Given(b.depends_on)) \subseteq IdsOf(d)
<1> DEFINE b == BlocksOf(d)[i]
<1>1. IdFaults(d, i) = {} <=> b.id # "" /\ \A j \in 1..(i - 1) : BlocksOf(d)[j].id # b.id
      BY DEF IdFaults
<1>2. LinkFaults(d, b) = {} <=>
        /\ Catalogue[b.template_id].requires \subseteq Present(d)
        /\ Range(Given(b.depends_on)) \subseteq IdsOf(d)
      BY DEF LinkFaults
<1>3. BlockFaults(d, i) = {} <=>
        /\ IdFaults(d, i) = {} /\ Get(b.template_id)
        /\ ParamFaults(b.template_id, Given(b.parameters)) = {} /\ LinkFaults(d, b) = {}
      BY DEF BlockFaults
<1>4. QED  BY <1>1, <1>2, <1>3

LEMMA DocumentIsClean ==
  ASSUME NEW d
  PROVE  Errors(d) = {} <=>
           /\ d.schema_version \in {0, 1}
           /\ ~(BlocksOf(d) = <<>> /\ Given(d.out_of_catalog) = <<>>)
           /\ ~(Len(BlocksOf(d)) > BlockLimit)
           /\ \A i \in DOMAIN BlocksOf(d) : BlockFaults(d, i) = {}
BY DEF Errors

(* Parameters that pass have a value for everything once the defaults are in. *)
LEMMA DefaultsComplete ==
  ASSUME NEW t \in DOMAIN Catalogue, NEW p, ParamFaults(t, p) = {}
  PROVE  LET q == WithDefaults(t, p)
             specs == Catalogue[t].params
         IN  /\ IsFcn(q) /\ DOMAIN q = DOMAIN specs
             /\ \A n \in DOMAIN specs : CheckParam(specs[n], q[n])
             /\ ParamFaults(t, q) = {} /\ WithDefaults(t, q) = q
<1> DEFINE q == WithDefaults(t, p)
           specs == Catalogue[t].params
           filled == {n \in DOMAIN specs \ DOMAIN p : ~specs[n].required /\ specs[n].default # Nil}
<1>1. /\ DOMAIN p \subseteq DOMAIN specs
      /\ \A n \in DOMAIN specs \ DOMAIN p : ~specs[n].required
      /\ \A n \in DOMAIN p : CheckParam(specs[n], p[n])
      BY DEF ParamFaults
<1>2. \A n \in DOMAIN specs \ DOMAIN p :
        specs[n].default # Nil /\ CheckParam(specs[n], specs[n].default)
      BY <1>1, DefaultsAssumption DEF DefaultFits
<1>3. DOMAIN p \cup filled = DOMAIN specs  BY <1>1, <1>2
<1>4. q = [n \in DOMAIN specs |-> IF n \in DOMAIN p THEN p[n] ELSE specs[n].default]
      BY <1>3 DEF WithDefaults
<1> HIDE DEF q
<1>5. DOMAIN q = DOMAIN specs /\ IsFcn(q)  BY <1>4 DEF IsFcn
<1>6. \A n \in DOMAIN specs : CheckParam(specs[n], q[n])  BY <1>1, <1>2, <1>4
<1>7. ParamFaults(t, q) = {}  BY <1>5, <1>6 DEF ParamFaults
<1>8. WithDefaults(t, q) = q
      <2>1. WithDefaults(t, q) = [n \in DOMAIN q |-> q[n]]  BY <1>5 DEF WithDefaults
      <2>2. QED  BY <1>5, <2>1 DEF IsFcn
<1>9. QED  BY <1>5, <1>6, <1>7, <1>8 DEF q

-------------------------------------------------------------------------------
(* What a document is made of *)

BlockShape(b) ==
  /\ b = [id |-> b.id, template_id |-> b.template_id,
          parameters |-> b.parameters, depends_on |-> b.depends_on]
  /\ b.id \in Range(IdOrder)

BlockList(s) == \E S : s \in Seq(S) /\ \A b \in S : BlockShape(b)

DocShape(d) ==
  /\ d = [schema_version |-> d.schema_version, region |-> d.region, blocks |-> d.blocks,
          out_of_catalog |-> d.out_of_catalog, estimated_cost |-> d.estimated_cost]
  /\ BlockList(d.blocks)

LEMMA BlockListIs ==
  ASSUME NEW s, BlockList(s)
  PROVE  /\ Len(s) \in Nat /\ DOMAIN s = 1..Len(s) /\ IsFcn(s)
         /\ \A i \in DOMAIN s : BlockShape(s[i])
<1>1. PICK S : s \in Seq(S) /\ \A b \in S : BlockShape(b)  BY DEF BlockList
<1>2. Len(s) \in Nat /\ DOMAIN s = 1..Len(s) /\ s \in [1..Len(s) -> S]  BY <1>1
<1>3. QED  BY <1>1, <1>2 DEF IsFcn

LEMMA BlocksGiven ==
  ASSUME NilIsApart, NEW d, BlockList(d.blocks)
  PROVE  BlocksOf(d) = d.blocks
<1>1. IsFcn(d.blocks)  BY BlockListIs
<1>2. d.blocks # Nil  BY <1>1 DEF NilIsApart
<1>3. QED  BY <1>2 DEF BlocksOf, Given

LEMMA BlockKept ==
  ASSUME NEW b
  PROVE  NormalBlock(b).id = b.id /\ NormalBlock(b).template_id = b.template_id
BY DEF NormalBlock

LEMMA NormalShape ==
  ASSUME NilIsApart, NEW d, DocShape(d)
  PROVE  LET n == Normal(d)
         IN  /\ DocShape(n) /\ Len(n.blocks) = Len(d.blocks)
             /\ \A i \in DOMAIN d.blocks : n.blocks[i] = NormalBlock(d.blocks[i])
             /\ n.out_of_catalog = Given(d.out_of_catalog)
             /\ n.schema_version = 1 /\ n.estimated_cost = Cost(d) /\ n.region = Region
<1> DEFINE n == Normal(d)
           s == d.blocks
<1>1. BlocksOf(d) = s /\ Len(s) \in Nat /\ DOMAIN s = 1..Len(s) /\ \A i \in DOMAIN s : BlockShape(s[i])
      BY BlocksGiven, BlockListIs DEF DocShape
<1>2. n = [schema_version |-> 1, region |-> Region, blocks |-> [i \in 1..Len(s) |-> NormalBlock(s[i])],
           out_of_catalog |-> Given(d.out_of_catalog), estimated_cost |-> Cost(d)]
      BY <1>1 DEF Normal
<1> HIDE DEF n
<1>3. n.blocks = [i \in 1..Len(s) |-> NormalBlock(s[i])]  BY <1>2
<1>4. \A i \in 1..Len(s) : BlockShape(NormalBlock(s[i]))
      <2>1. TAKE i \in 1..Len(s)
      <2>2. BlockShape(s[i])  BY <1>1
      <2>3. QED  BY <2>2 DEF NormalBlock, BlockShape
<1>5. BlockList(n.blocks)
      <2> DEFINE S == {NormalBlock(s[i]) : i \in 1..Len(s)}
      <2>1. n.blocks \in Seq(S)  BY <1>1, <1>3
      <2>2. \A b \in S : BlockShape(b)  BY <1>4
      <2>3. QED  BY <2>1, <2>2 DEF BlockList
<1>6. Len(n.blocks) = Len(s)  BY <1>1, <1>3
<1>7. QED  BY <1>1, <1>2, <1>3, <1>5, <1>6 DEF DocShape, n

(* Normalising twice is normalising once, and makes nothing wrong. *)
LEMMA NormalBlockTwice ==
  ASSUME NilIsApart, NEW b, BlockShape(b), Get(b.template_id),
         ParamFaults(b.template_id, Given(b.parameters)) = {}
  PROVE  LET m == NormalBlock(b)
             specs == Catalogue[b.template_id].params
         IN  /\ NormalBlock(m) = m
             /\ IsFcn(m.parameters) /\ Given(m.parameters) = m.parameters
             /\ DOMAIN m.parameters = DOMAIN specs
             /\ \A n \in DOMAIN specs : CheckParam(specs[n], m.parameters[n])
             /\ ParamFaults(b.template_id, m.parameters) = {}
             /\ Given(m.depends_on) = Given(b.depends_on)
<1> DEFINE m == NormalBlock(b)
           q == WithDefaults(b.template_id, Given(b.parameters))
<1>1. /\ m.id = b.id /\ m.template_id = b.template_id /\ m.parameters = q
      /\ m.depends_on = Given(b.depends_on) /\ BlockShape(m)
      BY DEF NormalBlock, BlockShape
<1>2. /\ IsFcn(q) /\ DOMAIN q = DOMAIN Catalogue[b.template_id].params
      /\ \A n \in DOMAIN Catalogue[b.template_id].params :
           CheckParam(Catalogue[b.template_id].params[n], q[n])
      /\ ParamFaults(b.template_id, q) = {} /\ WithDefaults(b.template_id, q) = q
      BY DefaultsComplete DEF Get
<1> HIDE DEF m, q
<1>3. Given(q) = q  BY <1>2 DEF Given, NilIsApart
<1>4. Given(m.depends_on) = m.depends_on  BY <1>1 DEF Given
<1>5. NormalBlock(m) = [id |-> m.id, template_id |-> m.template_id,
                        parameters |-> m.parameters, depends_on |-> m.depends_on]
      BY <1>1, <1>2, <1>3, <1>4 DEF NormalBlock
<1>6. NormalBlock(m) = m  BY <1>1, <1>5 DEF BlockShape
<1>7. QED  BY <1>1, <1>2, <1>3, <1>4, <1>6 DEF m

LEMMA NormalIsClean ==
  ASSUME NilIsApart, NEW d, DocShape(d), Errors(d) = {}
  PROVE  Errors(Normal(d)) = {}
<1> DEFINE n == Normal(d)
           s == d.blocks
<1>1. /\ DocShape(n) /\ Len(n.blocks) = Len(s) /\ n.schema_version = 1
      /\ \A i \in DOMAIN s : n.blocks[i] = NormalBlock(s[i])
      /\ n.out_of_catalog = Given(d.out_of_catalog)
      BY NormalShape
<1> HIDE DEF n
<1>2. /\ BlocksOf(d) = s /\ Len(s) \in Nat /\ DOMAIN s = 1..Len(s) /\ IsFcn(s)
      /\ \A i \in DOMAIN s : BlockShape(s[i])
      BY BlocksGiven, BlockListIs DEF DocShape
<1>3. /\ BlocksOf(n) = n.blocks /\ DOMAIN n.blocks = DOMAIN s /\ IsFcn(n.blocks)
      BY <1>1, <1>2, BlocksGiven, BlockListIs DEF DocShape
<1>4. \A i \in DOMAIN s : /\ n.blocks[i].id = s[i].id
                          /\ n.blocks[i].template_id = s[i].template_id
      BY <1>1, BlockKept
<1>5. IdsOf(n) = IdsOf(d) /\ Present(n) = Present(d)
      BY <1>2, <1>3, <1>4 DEF IdsOf, Present, Range
<1>6. \A i \in DOMAIN s : BlockFaults(n, i) = {}
      <2> SUFFICES ASSUME NEW i \in DOMAIN s  PROVE BlockFaults(n, i) = {}
          OBVIOUS
      <2> DEFINE b == s[i]
      <2>1. /\ b.id # "" /\ \A j \in 1..(i - 1) : s[j].id # b.id
            /\ Get(b.template_id)
            /\ ParamFaults(b.template_id, Given(b.parameters)) = {}
            /\ Catalogue[b.template_id].requires \subseteq Present(d)
            /\ Range(Given(b.depends_on)) \subseteq IdsOf(d)
            BY <1>2, BlockIsClean, DocumentIsClean
      <2>2. /\ Given(n.blocks[i].parameters) = n.blocks[i].parameters
            /\ ParamFaults(b.template_id, n.blocks[i].parameters) = {}
            /\ Given(n.blocks[i].depends_on) = Given(b.depends_on)
            BY <1>1, <1>2, <2>1, NormalBlockTwice
      <2>3. \A j \in 1..(i - 1) : j \in DOMAIN s  BY <1>2
      <2>4. \A j \in 1..(i - 1) : n.blocks[j].id # b.id  BY <1>4, <2>1, <2>3
      <2>5. n.blocks[i].id = b.id /\ n.blocks[i].template_id = b.template_id  BY <1>4
      <2>6. BlocksOf(n)[i] = n.blocks[i]  BY <1>3
      <2>7. /\ n.blocks[i].id # "" /\ Get(n.blocks[i].template_id)
            /\ \A j \in 1..(i - 1) : BlocksOf(n)[j].id # n.blocks[i].id
            /\ ParamFaults(n.blocks[i].template_id, Given(n.blocks[i].parameters)) = {}
            /\ Catalogue[n.blocks[i].template_id].requires \subseteq Present(n)
            /\ Range(Given(n.blocks[i].depends_on)) \subseteq IdsOf(n)
            BY <1>3, <1>5, <2>1, <2>2, <2>4, <2>5
      <2>8. QED  BY <2>6, <2>7, BlockIsClean
<1>7. ~(BlocksOf(n) = <<>> /\ Given(n.out_of_catalog) = <<>>)
      <2>1. ~(s = <<>> /\ Given(d.out_of_catalog) = <<>>)  BY <1>2, DocumentIsClean
      <2>2. n.blocks = <<>> => s = <<>>  BY <1>2, <1>3 DEF IsFcn
      <2>3. Given(n.out_of_catalog) = Given(d.out_of_catalog)  BY <1>1 DEF Given
      <2>4. QED  BY <1>3, <2>1, <2>2, <2>3
<1>8. ~(Len(BlocksOf(n)) > BlockLimit)  BY <1>1, <1>2, <1>3, DocumentIsClean
<1>9. QED  BY <1>1, <1>3, <1>6, <1>7, <1>8, DocumentIsClean DEF n

LEMMA NormalTwice ==
  ASSUME NilIsApart, NEW d, DocShape(d), Errors(d) = {}
  PROVE  Normal(Normal(d)) = Normal(d)
<1> DEFINE n == Normal(d)
           s == d.blocks
           m == Normal(n)
<1>1. /\ DocShape(n) /\ Len(n.blocks) = Len(s) /\ n.schema_version = 1 /\ n.region = Region
      /\ \A i \in DOMAIN s : n.blocks[i] = NormalBlock(s[i])
      /\ n.out_of_catalog = Given(d.out_of_catalog) /\ n.estimated_cost = Cost(d)
      BY NormalShape
<1> HIDE DEF n
<1>2. /\ DocShape(m) /\ Len(m.blocks) = Len(n.blocks) /\ m.schema_version = 1
      /\ \A i \in DOMAIN n.blocks : m.blocks[i] = NormalBlock(n.blocks[i])
      /\ m.out_of_catalog = Given(n.out_of_catalog) /\ m.estimated_cost = Cost(n)
      /\ m.region = Region
      BY <1>1, NormalShape
<1> HIDE DEF m
<1>3. /\ BlocksOf(d) = s /\ Len(s) \in Nat /\ DOMAIN s = 1..Len(s)
      /\ \A i \in DOMAIN s : BlockShape(s[i])
      BY BlocksGiven, BlockListIs DEF DocShape
<1>4. /\ BlocksOf(n) = n.blocks /\ DOMAIN n.blocks = DOMAIN s /\ IsFcn(n.blocks)
      /\ DOMAIN m.blocks = DOMAIN s /\ IsFcn(m.blocks)
      BY <1>1, <1>2, <1>3, BlocksGiven, BlockListIs DEF DocShape
<1>5. \A i \in DOMAIN s : m.blocks[i] = n.blocks[i]
      <2> SUFFICES ASSUME NEW i \in DOMAIN s  PROVE m.blocks[i] = n.blocks[i]
          OBVIOUS
      <2>1. Get(s[i].template_id) /\ ParamFaults(s[i].template_id, Given(s[i].parameters)) = {}
            BY <1>3, BlockIsClean, DocumentIsClean
      <2>2. QED  BY <1>1, <1>2, <1>3, <1>4, <2>1, NormalBlockTwice
<1>6. m.blocks = n.blocks  BY <1>4, <1>5 DEF IsFcn
<1>7. m.out_of_catalog = n.out_of_catalog  BY <1>1, <1>2 DEF Given
<1>8. Cost(n) = Cost(d)
      <2>1. \A i \in DOMAIN s : n.blocks[i].template_id = s[i].template_id
            BY <1>1, BlockKept
      <2>2. \A end : Total(n, end) = Total(d, end)
            <3> DEFINE cost(b, end) == IF Get(b.template_id) THEN Catalogue[b.template_id][end] ELSE 0
            <3>1. TAKE end
            <3>2. [i \in DOMAIN n.blocks |-> cost(n.blocks[i], end)] = [i \in DOMAIN s |-> cost(s[i], end)]
                  BY <1>4, <2>1
            <3>3. QED  BY <1>3, <1>4, <3>2 DEF Total
      <2>3. QED  BY <2>2 DEF Cost
<1>9. QED
      BY <1>1, <1>2, <1>6, <1>7, <1>8 DEF DocShape, n, m

-------------------------------------------------------------------------------
(* What is stored *)

StoredDoc == doc # Nil => DocShape(doc) /\ Errors(doc) = {} /\ Normal(doc) = doc

(* The document that a proposal offers for storing. *)
LEMMA Proposals ==
  ASSUME NilIsApart, StoredDoc, Next
  PROVE  \E d, scope : DocShape(d) /\ Store(d, scope)
<1> DEFINE offer(schema, region, blocks, needs, cost) ==
             [schema_version |-> schema, region |-> region, blocks |-> blocks,
              out_of_catalog |-> needs, estimated_cost |-> cost]
<1>1. \A schema, region, blocks, needs, cost :
        BlockList(blocks) => DocShape(offer(schema, region, blocks, needs, cost))
      BY DEF DocShape
<1>2. BlockList(CurrentBlocks)
      <2>1. CASE doc = Nil
            <3>1. <<>> \in Seq({})  OBVIOUS
            <3>2. \A b \in {} : BlockShape(b)  OBVIOUS
            <3>3. CurrentBlocks = <<>>  BY <2>1 DEF CurrentBlocks
            <3>4. QED  BY <3>1, <3>2, <3>3 DEF BlockList
      <2>2. CASE doc # Nil  BY <2>2 DEF StoredDoc, DocShape, CurrentBlocks
      <2>3. QED  BY <2>1, <2>2
<1>3. PICK S : CurrentBlocks \in Seq(S) /\ \A b \in S : BlockShape(b)
      BY <1>2 DEF BlockList
<1>4. ASSUME NEW blocks, NEW needs, NEW scope, BlockList(blocks), Propose(blocks, needs, scope)
      PROVE  \E d, sc : DocShape(d) /\ Store(d, sc)
      BY <1>1, <1>4 DEF Propose
<1>5. ASSUME NEW b \in Blocks
      PROVE  /\ BlockList(Append(CurrentBlocks, b))
             /\ \A i \in DOMAIN CurrentBlocks : BlockList([CurrentBlocks EXCEPT ![i] = b])
      <2>1. CurrentBlocks \in Seq(S \cup {b}) /\ \A x \in S \cup {b} : BlockShape(x)
            BY <1>3, DocumentsAssumption DEF BlockShape
      <2>2. Append(CurrentBlocks, b) \in Seq(S \cup {b})  BY <2>1
      <2>3. \A i \in DOMAIN CurrentBlocks : [CurrentBlocks EXCEPT ![i] = b] \in Seq(S \cup {b})
            BY <2>1
      <2>4. QED  BY <2>1, <2>2, <2>3 DEF BlockList
<1>6. \A i \in DOMAIN CurrentBlocks : BlockList(RemoveAt(CurrentBlocks, i))
      <2>1. \A i \in DOMAIN CurrentBlocks : RemoveAt(CurrentBlocks, i) \in Seq(S)
            BY <1>3 DEF RemoveAt
      <2>2. QED  BY <1>3, <2>1 DEF BlockList
<1>7. CASE \E b \in Blocks : AddBlock(b)
      BY <1>4, <1>5, <1>7 DEF AddBlock
<1>8. CASE \E i \in DOMAIN CurrentBlocks, b \in Blocks : ReplaceBlock(i, b)
      BY <1>4, <1>5, <1>8 DEF ReplaceBlock
<1>9. CASE \E i \in DOMAIN CurrentBlocks : RemoveBlock(i)
      BY <1>4, <1>6, <1>9 DEF RemoveBlock
<1>10. CASE \E needs \in Needs, scope \in BOOLEAN : Restate(needs, scope)
      BY <1>2, <1>4, <1>10 DEF Restate
<1>11. ASSUME NEW schema, NEW cost, Submit(schema, cost)
       PROVE  \E d, scope : DocShape(d) /\ Store(d, scope)
      <2>1. doc # Nil /\ BlockList(doc.blocks)  BY <1>11 DEF Submit, StoredDoc, DocShape
      <2>2. QED  BY <1>1, <1>11, <2>1 DEF Submit
<1>12. QED  BY <1>7, <1>8, <1>9, <1>10, <1>11 DEF Next

LEMMA NextStored ==
  ASSUME NilIsApart, StoredDoc, [Next]_vars
  PROVE  StoredDoc'
<1>1. CASE UNCHANGED vars  BY <1>1 DEF vars, StoredDoc
<1>2. CASE Next
      <2>1. PICK d, scope : DocShape(d) /\ Store(d, scope)  BY <1>2, Proposals
      <2>2. Errors(d) = {} /\ doc' = Normal(d)  BY <2>1 DEF Store, Verdict
      <2>3. DocShape(Normal(d)) /\ Errors(Normal(d)) = {} /\ Normal(Normal(d)) = Normal(d)
            BY <2>1, <2>2, NormalShape, NormalIsClean, NormalTwice
      <2>4. QED  BY <2>2, <2>3 DEF StoredDoc
<1>3. QED  BY <1>1, <1>2

LEMMA StoredHolds ==
  ASSUME NilIsApart
  PROVE  Spec => []StoredDoc
<1>1. Init => StoredDoc  BY DEF Init, StoredDoc
<1>2. QED  BY <1>1, NextStored, PTL DEF Spec

(* Whatever is proposed, what Validate lets through is a fixed point of       *)
(* Validate: stored, read and validated again, a document has no errors and  *)
(* loses and gains nothing.                                                  *)
THEOREM StoredStaysNormal ==
  ASSUME NilIsApart
  PROVE  Spec => []StoredIsNormal
<1>1. StoredDoc => StoredIsNormal  BY DEF StoredDoc, StoredIsNormal
<1>2. QED  BY <1>1, StoredHolds, PTL

-------------------------------------------------------------------------------
(* What may be deployed *)

LEMMA VettedOnceStored ==
  ASSUME NilIsApart, NEW d, NEW scope, DocShape(d), Store(d, scope)
  PROVE  OkIsVetted'
<1> DEFINE s == d.blocks
           n == doc'.blocks
<1> SUFFICES ASSUME verdict' = "ok"
             PROVE
               /\ n # <<>>
               /\ \A i, j \in DOMAIN n : n[i].id = n[j].id => i = j
               /\ \A b \in Range(n) :
                    LET specs == Catalogue[b.template_id].params
                    IN  /\ DOMAIN b.parameters = DOMAIN specs
                        /\ \A x \in DOMAIN specs : CheckParam(specs[x], b.parameters[x])
                        /\ \A t \in Catalogue[b.template_id].requires :
                             \E c \in Range(n) : c.template_id = t
               /\ Budget # Nil =>
                    ~(SumFunction([i \in DOMAIN n |-> Catalogue[n[i].template_id].high]) > Budget)
    BY DEF OkIsVetted
<1>1. Errors(d) = {} /\ Blockers(d, scope) = {} /\ doc' = Normal(d)
      BY DEF Store, Verdict
<1>2. /\ DocShape(doc') /\ Len(n) = Len(s)
      /\ \A i \in DOMAIN s : n[i] = NormalBlock(s[i])
      BY <1>1, NormalShape
<1>3. /\ BlocksOf(d) = s /\ Len(s) \in Nat /\ DOMAIN s = 1..Len(s) /\ IsFcn(s)
      /\ \A i \in DOMAIN s : BlockShape(s[i])
      BY BlocksGiven, BlockListIs DEF DocShape
<1>4. DOMAIN n = DOMAIN s /\ BlocksOf(doc') = n
      BY <1>2, <1>3, BlocksGiven, BlockListIs DEF DocShape
<1>5. \A i \in DOMAIN s : n[i].id = s[i].id /\ n[i].template_id = s[i].template_id
      BY <1>2, BlockKept
<1>6. \A i \in DOMAIN s :
        /\ \A j \in 1..(i - 1) : s[j].id # s[i].id
        /\ Get(s[i].template_id)
        /\ ParamFaults(s[i].template_id, Given(s[i].parameters)) = {}
        /\ Catalogue[s[i].template_id].requires \subseteq Present(d)
      BY <1>1, <1>3, BlockIsClean, DocumentIsClean
<1>7. n # <<>>
      <2>1. s # <<>>  BY <1>1, <1>3, DocumentIsClean DEF Blockers
      <2>2. DOMAIN s # {}  BY <1>3, <2>1 DEF IsFcn
      <2>3. QED  BY <1>4, <2>2
<1>8. \A i, j \in DOMAIN n : n[i].id = n[j].id => i = j
      <2>1. \A i, j \in DOMAIN s : i < j => s[i].id # s[j].id
            <3> SUFFICES ASSUME NEW i \in DOMAIN s, NEW j \in DOMAIN s, i < j
                         PROVE  s[i].id # s[j].id
                OBVIOUS
            <3>1. i \in 1..(j - 1)  BY <1>3
            <3>2. QED  BY <1>6, <3>1
      <2>2. \A i, j \in DOMAIN s : i < j \/ j < i \/ i = j  BY <1>3
      <2>3. QED  BY <1>4, <1>5, <2>1, <2>2
<1>9. ASSUME NEW i \in DOMAIN s
      PROVE  LET b == n[i]
                 specs == Catalogue[b.template_id].params
             IN  /\ DOMAIN b.parameters = DOMAIN specs
                 /\ \A x \in DOMAIN specs : CheckParam(specs[x], b.parameters[x])
                 /\ \A t \in Catalogue[b.template_id].requires :
                      \E c \in Range(n) : c.template_id = t
      <2>1. /\ DOMAIN n[i].parameters = DOMAIN Catalogue[s[i].template_id].params
            /\ \A x \in DOMAIN Catalogue[s[i].template_id].params :
                 CheckParam(Catalogue[s[i].template_id].params[x], n[i].parameters[x])
            BY <1>2, <1>3, <1>6, NormalBlockTwice
      <2>2. ASSUME NEW t \in Catalogue[s[i].template_id].requires
            PROVE  \E c \in Range(n) : c.template_id = t
            <3>1. t \in Present(d)  BY <1>6
            <3>2. PICK k \in DOMAIN s : s[k].template_id = t
                  BY <1>3, <3>1 DEF Present, Range
            <3>3. n[k].template_id = t /\ n[k] \in Range(n)
                  BY <1>4, <1>5, <3>2 DEF Range
            <3>4. QED  BY <3>3
      <2>3. QED  BY <1>5, <2>1, <2>2
<1>10. ASSUME Budget # Nil
       PROVE  ~(SumFunction([i \in DOMAIN n |-> Catalogue[n[i].template_id].high]) > Budget)
      <2> DEFINE cost(b) == IF Get(b.template_id) THEN Catalogue[b.template_id]["high"] ELSE 0
      <2>1. BlocksOf(d) # <<>>  BY <1>1, DocumentIsClean DEF Blockers
      <2>2. ~(Cost(d).monthly_high > Budget)  BY <1>1, <1>10, <2>1 DEF Blockers
      <2>3. Cost(d).monthly_high = SumFunction([i \in DOMAIN s |-> cost(s[i])])
            BY <1>3 DEF Cost, Total
      <2>4. [i \in DOMAIN s |-> cost(s[i])] = [i \in DOMAIN n |-> Catalogue[n[i].template_id].high]
            BY <1>4, <1>5, <1>6
      <2>5. QED  BY <2>2, <2>3, <2>4
<1>11. \A b \in Range(n) : \E i \in DOMAIN s : b = n[i]  BY <1>4 DEF Range
<1>12. ASSUME NEW b \in Range(n)
       PROVE  LET specs == Catalogue[b.template_id].params
              IN  /\ DOMAIN b.parameters = DOMAIN specs
                  /\ \A x \in DOMAIN specs : CheckParam(specs[x], b.parameters[x])
                  /\ \A t \in Catalogue[b.template_id].requires :
                       \E c \in Range(n) : c.template_id = t
      <2>1. PICK i \in DOMAIN s : b = n[i]  BY <1>11
      <2>2. QED  BY <1>9, <2>1
<1>13. QED  BY <1>7, <1>8, <1>10, <1>12

(* Whatever is proposed, a document that may be deployed is within the       *)
(* catalogue: every block comes from a template, with a checked value for    *)
(* each of its parameters and with what the template requires, and the top   *)
(* of the estimate does not exceed the ceiling.                              *)
THEOREM OkStaysVetted ==
  ASSUME NilIsApart
  PROVE  Spec => []OkIsVetted
<1>1. Init => OkIsVetted  BY DEF Init, OkIsVetted
<1>2. StoredDoc /\ OkIsVetted /\ [Next]_vars => OkIsVetted'
      <2>1. CASE UNCHANGED vars  BY <2>1 DEF vars, OkIsVetted
      <2>2. ASSUME StoredDoc, Next  PROVE OkIsVetted'
            BY <2>2, Proposals, VettedOnceStored
      <2>3. QED  BY <2>1, <2>2
<1>3. QED  BY <1>1, <1>2, StoredHolds, PTL DEF Spec

-------------------------------------------------------------------------------
(* Sorting by a key that tells all places apart: the place of a member is    *)
(* the number of smaller ones, so there is one way to sort, and only one.    *)

Sorts(k, p, n) == \A i, j \in 1..n : i < j => k[p[i]] < k[p[j]]
Place(k, n, i) == Cardinality({j \in 1..n : k[j] < k[i]}) + 1

LEMMA OneToOne ==
  ASSUME NEW S, NEW T, NEW f \in [S -> T],
         \A a, b \in S : f[a] = f[b] => a = b, \A t \in T : \E s \in S : f[s] = t
  PROVE  f \in Bijection(S, T)
BY DEF Bijection, Injection, Surjection, IsInjective

LEMMA PlaceIn ==
  ASSUME NEW n \in Nat, NEW k \in [1..n -> Nat]
  PROVE  /\ \A i \in 1..n : Place(k, n, i) \in 1..n
         /\ \A i, j \in 1..n : k[i] < k[j] => Place(k, n, i) < Place(k, n, j)
<1> DEFINE D == 1..n
           less(i) == {j \in D : k[j] < k[i]}
<1>1. IsFiniteSet(D) /\ Cardinality(D) = n  BY FS_Interval
<1>2. \A i \in D : IsFiniteSet(less(i)) /\ Cardinality(less(i)) \in Nat
      <2>1. TAKE i \in D
      <2>2. less(i) \in SUBSET D  OBVIOUS
      <2> HIDE DEF less, D
      <2>3. QED  BY <1>1, <2>2, FS_Subset, FS_CardinalityType
<1>3. ASSUME NEW i \in D  PROVE Cardinality(less(i)) < n
      <2>1. less(i) \in SUBSET D /\ less(i) # D  OBVIOUS
      <2> HIDE DEF less, D
      <2>2. Cardinality(less(i)) <= n /\ Cardinality(less(i)) # n
            BY <1>1, <2>1, FS_Subset
      <2>3. QED  BY <1>2, <2>2
<1>4. ASSUME NEW i \in D, NEW j \in D, k[i] < k[j]
      PROVE  Cardinality(less(i)) < Cardinality(less(j))
      <2>1. less(i) \in SUBSET less(j)  BY <1>4
      <2>2. less(i) # less(j)  BY <1>4
      <2> HIDE DEF less, D
      <2>3. Cardinality(less(i)) <= Cardinality(less(j)) /\ Cardinality(less(i)) # Cardinality(less(j))
            BY <1>2, <2>1, <2>2, FS_Subset
      <2>4. QED  BY <1>2, <2>3
<1>5. \A i \in D : Place(k, n, i) = Cardinality(less(i)) + 1  BY DEF Place
<1> HIDE DEF less
<1>6. \A i \in D : Place(k, n, i) \in 1..n
      <2>1. TAKE i \in D
      <2>2. Cardinality(less(i)) \in Nat /\ Cardinality(less(i)) < n  BY <1>2, <1>3
      <2>3. QED  BY <1>5, <2>2
<1>7. \A i, j \in D : k[i] < k[j] => Place(k, n, i) < Place(k, n, j)
      <2>1. TAKE i, j \in D
      <2>2. HAVE k[i] < k[j]
      <2>3. Cardinality(less(i)) < Cardinality(less(j))  BY <1>4, <2>2
      <2>4. Cardinality(less(i)) \in Nat /\ Cardinality(less(j)) \in Nat  BY <1>2
      <2>5. QED  BY <1>5, <2>3, <2>4
<1>8. QED  BY <1>6, <1>7

LEMMA SortExists ==
  ASSUME NEW n \in Nat, NEW k \in [1..n -> Nat], \A i, j \in 1..n : k[i] = k[j] => i = j
  PROVE  \E p \in Bijection(1..n, 1..n) : Sorts(k, p, n)
<1> DEFINE D == 1..n
           c == [i \in D |-> Place(k, n, i)]
           p == Inverse(c, D, D)
<1>1. c \in [D -> D] /\ \A i, j \in D : k[i] < k[j] => c[i] < c[j]  BY PlaceIn
<1>2. \A i, j \in D : c[i] = c[j] => i = j
      <2>1. TAKE i, j \in D
      <2>2. c[i] \in D /\ c[j] \in D  BY <1>1
      <2>3. k[i] < k[j] \/ k[j] < k[i] \/ i = j  OBVIOUS
      <2>4. CASE k[i] < k[j]
            <3>1. c[i] < c[j]  BY <1>1, <2>4
            <3>2. QED  BY <2>2, <3>1
      <2>5. CASE k[j] < k[i]
            <3>1. c[j] < c[i]  BY <1>1, <2>5
            <3>2. QED  BY <2>2, <3>1
      <2>6. QED  BY <2>3, <2>4, <2>5
<1> HIDE DEF c
<1>3. c \in Injection(D, D)  BY <1>1, <1>2 DEF Injection, IsInjective
<1>4. IsFiniteSet(D)  BY FS_Interval
<1>5. c \in Bijection(D, D)  BY <1>3, <1>4, FS_Injection DEF Bijection
<1>6. p \in Bijection(D, D) /\ \A i \in D : p[c[i]] = i  BY <1>5, Fun_BijInverse
<1> HIDE DEF p
<1>7. p \in [D -> D] /\ \A i \in D : \E j \in D : c[j] = i  BY <1>5, <1>6 DEF Bijection, Injection, Surjection
<1>8. \A i \in D : c[p[i]] = i  BY <1>6, <1>7
<1>9. ASSUME NEW i \in D, NEW j \in D, i < j  PROVE k[p[i]] < k[p[j]]
      <2>1. p[i] \in D /\ p[j] \in D /\ c[p[i]] = i /\ c[p[j]] = j  BY <1>7, <1>8
      <2>2. ~(k[p[j]] < k[p[i]])
            <3>1. k[p[j]] < k[p[i]] => j < i  BY <1>1, <2>1
            <3>2. QED  BY <1>9, <3>1
      <2>3. p[i] # p[j]  BY <1>9, <2>1
      <2>4. k[p[i]] # k[p[j]]  BY <2>1, <2>3
      <2>5. QED  BY <2>1, <2>2, <2>4
<1>10. QED  BY <1>6, <1>9 DEF Sorts

LEMMA SortedAtPlace ==
  ASSUME NEW n \in Nat, NEW k \in [1..n -> Nat], NEW p \in Bijection(1..n, 1..n), Sorts(k, p, n),
         NEW i \in 1..n
  PROVE  Place(k, n, p[i]) = i
<1> DEFINE D == 1..n
           below == 1..(i - 1)
           less == {j \in D : k[j] < k[p[i]]}
           f == [h \in below |-> p[h]]
<1>1. /\ p \in [D -> D] /\ \A a, b \in D : p[a] = p[b] => a = b
      /\ \A a \in D : \E b \in D : p[b] = a
      BY DEF Bijection, Injection, Surjection, IsInjective
<1>2. below \subseteq D /\ \A h \in below : h < i  OBVIOUS
<1>3. f \in [below -> less]  BY <1>1, <1>2 DEF Sorts
<1>4. \A a, b \in below : f[a] = f[b] => a = b  BY <1>1, <1>2
<1>5. ASSUME NEW a \in less  PROVE \E h \in below : f[h] = a
      <2>1. PICK h \in D : p[h] = a  BY <1>1
      <2>2. k[p[h]] < k[p[i]] /\ k[p[h]] \in Nat /\ k[p[i]] \in Nat  BY <1>1, <2>1
      <2>3. ~(i < h)
            <3>1. i < h => k[p[i]] < k[p[h]]  BY DEF Sorts
            <3>2. QED  BY <2>2, <3>1
      <2>4. h # i  BY <2>2
      <2>5. h \in below  BY <2>3, <2>4
      <2>6. QED  BY <2>1, <2>5
<1> HIDE DEF f
<1>6. f \in Bijection(below, less)  BY <1>3, <1>4, <1>5, OneToOne
<1>7. ExistsBijection(below, less)  BY <1>6 DEF ExistsBijection
<1>8. IsFiniteSet(below) /\ Cardinality(below) = i - 1
      BY FS_Interval
<1>9. Cardinality(less) = i - 1  BY <1>7, <1>8, FS_Bijection
<1>10. QED  BY <1>9 DEF Place

LEMMA SortUnique ==
  ASSUME NEW n \in Nat, NEW k \in [1..n -> Nat], \A i, j \in 1..n : k[i] = k[j] => i = j,
         NEW p \in Bijection(1..n, 1..n), NEW q \in Bijection(1..n, 1..n),
         Sorts(k, p, n), Sorts(k, q, n)
  PROVE  p = q
<1>1. p \in [1..n -> 1..n] /\ q \in [1..n -> 1..n]  BY Fun_BijectionProperties
<1>2. ASSUME NEW i \in 1..n  PROVE p[i] = q[i]
      <2>1. Place(k, n, p[i]) = Place(k, n, q[i])  BY SortedAtPlace
      <2>2. p[i] \in 1..n /\ q[i] \in 1..n  BY <1>1
      <2>3. /\ k[p[i]] < k[q[i]] => Place(k, n, p[i]) < Place(k, n, q[i])
            /\ k[q[i]] < k[p[i]] => Place(k, n, q[i]) < Place(k, n, p[i])
            /\ Place(k, n, p[i]) \in 1..n
            BY <2>2, PlaceIn
      <2>4. k[p[i]] = k[q[i]]  BY <2>1, <2>2, <2>3
      <2>5. QED  BY <2>2, <2>4
<1>3. QED  BY <1>1, <1>2

LEMMA RankIs ==
  ASSUME NEW id \in Range(IdOrder)
  PROVE  Rank(id) \in 1..Len(IdOrder) /\ IdOrder[Rank(id)] = id
<1>1. \E i \in DOMAIN IdOrder : IdOrder[i] = id  BY DEF Range
<1>2. Rank(id) \in DOMAIN IdOrder /\ IdOrder[Rank(id)] = id  BY <1>1 DEF Rank
<1>3. QED  BY <1>2, DocumentsAssumption

(* Blocks whose ids are known and told apart *)
Sortable(s, n) ==
  /\ n \in Nat /\ DOMAIN s = 1..n
  /\ \A i \in 1..n : s[i].id \in Range(IdOrder)
  /\ \A i, j \in 1..n : s[i].id = s[j].id => i = j

Ranks(s) == [i \in DOMAIN s |-> Rank(s[i].id)]

LEMMA RanksAre ==
  ASSUME NEW s, NEW n, Sortable(s, n)
  PROVE  /\ Ranks(s) \in [1..n -> Nat]
         /\ \A i, j \in 1..n : Ranks(s)[i] = Ranks(s)[j] => i = j
<1>1. \A i \in 1..n : Rank(s[i].id) \in Nat /\ IdOrder[Rank(s[i].id)] = s[i].id
      <2>1. TAKE i \in 1..n
      <2>2. Rank(s[i].id) \in 1..Len(IdOrder) /\ IdOrder[Rank(s[i].id)] = s[i].id
            BY RankIs DEF Sortable
      <2>3. QED  BY <2>2, DocumentsAssumption
<1>2. DOMAIN s = 1..n  BY DEF Sortable
<1>3. QED  BY <1>1, <1>2 DEF Ranks, Sortable

(* What Sorted chooses is what sorts by rank. *)
LEMMA SortedIs ==
  ASSUME NEW s, NEW n, Sortable(s, n), NEW q \in Bijection(1..n, 1..n), Sorts(Ranks(s), q, n)
  PROVE  Sorted(s) = [i \in 1..n |-> s[q[i]]]
<1> DEFINE D == 1..n
           k == Ranks(s)
           good(p) == \A i, j \in D : i < j => ~ById(s[p[j]], s[p[i]])
<1>1. /\ n \in Nat /\ DOMAIN s = D /\ k \in [D -> Nat]
      /\ \A i, j \in D : k[i] = k[j] => i = j
      BY RanksAre DEF Sortable
<1>2. \A i, j \in D : ById(s[j], s[i]) <=> k[j] < k[i]
      BY <1>1 DEF ById, Ranks
<1> HIDE DEF k
<1>3. \A p \in Bijection(D, D) : p \in [D -> D] /\ \A i, j \in D : p[i] = p[j] => i = j
      BY DEF Bijection, Injection, IsInjective
<1>4. good(q)
      <2> SUFFICES ASSUME NEW i \in D, NEW j \in D, i < j  PROVE ~ById(s[q[j]], s[q[i]])
          OBVIOUS
      <2>1. q[i] \in D /\ q[j] \in D  BY <1>3
      <2>2. k[q[i]] < k[q[j]]  BY DEF Sorts, k
      <2>3. ~(k[q[j]] < k[q[i]])  BY <1>1, <2>1, <2>2
      <2>4. QED  BY <1>2, <2>1, <2>3
<1>5. ASSUME NEW p \in Bijection(D, D), good(p)  PROVE p = q
      <2>1. ASSUME NEW i \in D, NEW j \in D, i < j  PROVE k[p[i]] < k[p[j]]
            <3>1. p[i] \in D /\ p[j] \in D /\ p[i] # p[j]
                  <4>1. i # j  BY <2>1
                  <4>2. p \in [D -> D] /\ (p[i] = p[j] => i = j)  BY <1>3
                  <4>3. QED  BY <4>1, <4>2
            <3>2. ~(k[p[j]] < k[p[i]])
                  <4>1. ~ById(s[p[j]], s[p[i]])  BY <1>5, <2>1
                  <4>2. QED  BY <1>2, <3>1, <4>1
            <3>3. k[p[i]] # k[p[j]]  BY <1>1, <3>1
            <3>4. k[p[i]] \in Nat /\ k[p[j]] \in Nat  BY <1>1, <3>1
            <3>5. QED  BY <3>2, <3>3, <3>4
      <2>2. Sorts(k, p, n) /\ Sorts(k, q, n)  BY <2>1 DEF Sorts, k
      <2>3. QED  BY <1>1, <2>2, SortUnique
<1>6. q = CHOOSE p \in Bijection(D, D) : good(p)
      <2>1. (CHOOSE p \in Bijection(D, D) : good(p)) \in Bijection(D, D)
            /\ good(CHOOSE p \in Bijection(D, D) : good(p))
            BY <1>4
      <2>2. QED  BY <1>5, <2>1
<1>7. QED  BY <1>1, <1>6 DEF Sorted

LEMMA SortedFromAnyOrder ==
  ASSUME NEW s, NEW n, Sortable(s, n), NEW p \in Bijection(1..n, 1..n)
  PROVE  Sorted([i \in 1..n |-> s[p[i]]]) = Sorted(s)
<1> DEFINE D == 1..n
           t == [i \in D |-> s[p[i]]]
<1>1. /\ n \in Nat /\ DOMAIN s = D
      /\ \A i \in D : s[i].id \in Range(IdOrder)
      /\ \A i, j \in D : s[i].id = s[j].id => i = j
      BY DEF Sortable
<1>2. p \in [D -> D] /\ \A i, j \in D : p[i] = p[j] => i = j
      BY DEF Bijection, Injection, IsInjective
<1>3. DOMAIN t = D /\ \A i \in D : t[i] = s[p[i]] /\ p[i] \in D  BY <1>2
<1> HIDE DEF t
<1>4. Sortable(t, n)
      <2>1. \A i \in D : t[i].id \in Range(IdOrder)  BY <1>1, <1>3
      <2>2. \A i, j \in D : t[i].id = t[j].id => i = j  BY <1>1, <1>2, <1>3
      <2>3. QED  BY <1>1, <1>3, <2>1, <2>2 DEF Sortable
<1>5. PICK r \in Bijection(D, D) : Sorts(Ranks(t), r, n)
      BY <1>1, <1>4, RanksAre, SortExists
<1> DEFINE q == [i \in D |-> p[r[i]]]
<1>6. r \in [D -> D]  BY DEF Bijection, Injection
<1>7. q \in Bijection(D, D)  BY Fun_BijTransitive
<1>8. \A i \in D : q[i] = p[r[i]] /\ Ranks(s)[q[i]] = Ranks(t)[r[i]]
      BY <1>1, <1>3, <1>6 DEF Ranks
<1> HIDE DEF q
<1>9. Sorts(Ranks(s), q, n)  BY <1>5, <1>8 DEF Sorts
<1>10. Sorted(t) = [i \in D |-> t[r[i]]]  BY <1>4, <1>5, SortedIs
<1>11. Sorted(s) = [i \in D |-> s[q[i]]]  BY <1>7, <1>9, SortedIs
<1>12. \A i \in D : t[r[i]] = s[q[i]]  BY <1>3, <1>6, <1>8
<1>13. Sorted(t) = Sorted(s)  BY <1>10, <1>11, <1>12
<1>14. QED  BY <1>13 DEF t

(* Whatever is proposed and in whatever order its blocks stand, a stored     *)
(* document has one root module: its ids are told apart, so sort.Slice has   *)
(* no ties to break, and the plan hash is that of the document.             *)
THEOREM RootStaysStable ==
  ASSUME NilIsApart
  PROVE  Spec => []RootIsStable
<1>1. ASSUME StoredDoc  PROVE RootIsStable
      <2> SUFFICES ASSUME doc # Nil, NEW p \in Bijection(DOMAIN doc.blocks, DOMAIN doc.blocks)
                   PROVE  RootModule([i \in DOMAIN doc.blocks |-> doc.blocks[p[i]]])
                            = RootModule(doc.blocks)
          BY DEF RootIsStable
      <2> DEFINE s == doc.blocks
                 n == Len(s)
      <2>1. DocShape(doc) /\ Errors(doc) = {}  BY <1>1 DEF StoredDoc
      <2>2. /\ BlocksOf(doc) = s /\ n \in Nat /\ DOMAIN s = 1..n
            /\ \A i \in 1..n : BlockShape(s[i])
            BY <2>1, BlocksGiven, BlockListIs DEF DocShape
      <2>3. \A i, j \in 1..n : s[i].id = s[j].id => i = j
            <3>1. ASSUME NEW i \in 1..n, NEW j \in 1..n, i < j  PROVE s[i].id # s[j].id
                  <4>1. \A h \in 1..(j - 1) : s[h].id # s[j].id
                        BY <2>1, <2>2, BlockIsClean, DocumentIsClean
                  <4>2. i \in 1..(j - 1)  BY <3>1
                  <4>3. QED  BY <4>1, <4>2
            <3>2. \A i, j \in 1..n : i < j \/ j < i \/ i = j  OBVIOUS
            <3>3. QED  BY <3>1, <3>2
      <2>4. Sortable(s, n)  BY <2>2, <2>3 DEF Sortable, BlockShape
      <2> HIDE DEF s, n
      <2>5. Sorted([i \in 1..n |-> s[p[i]]]) = Sorted(s)
            <3>1. p \in Bijection(1..n, 1..n)  BY <2>2 DEF s
            <3>2. QED  BY <2>4, <3>1, SortedFromAnyOrder
      <2>6. QED  BY <2>2, <2>5 DEF RootModule, s
<1>2. QED  BY <1>1, StoredHolds, PTL

-------------------------------------------------------------------------------
(* One level of a comparison: the changes found for each member are kept      *)
(* apart by their paths, so each member is rebuilt from its own.             *)

IsPath(p) == \E S : p \in Seq(S)

(* A change at a path or further down *)
Extends(p, c) ==
  Len(c.path) \in Nat /\ Len(c.path) >= Len(p) /\ \A i \in 1..Len(p) : c.path[i] = p[i]

LEMMA PathIs ==
  ASSUME NEW p, IsPath(p), NEW k
  PROVE  /\ Len(p) \in Nat /\ Len(Append(p, k)) = Len(p) + 1 /\ IsPath(Append(p, k))
         /\ Append(p, k)[Len(p) + 1] = k /\ \A i \in 1..Len(p) : Append(p, k)[i] = p[i]
<1>1. PICK S : p \in Seq(S)  BY DEF IsPath
<1>2. p \in Seq(S \cup {k}) /\ k \in S \cup {k}  BY <1>1
<1>3. Append(p, k) \in Seq(S \cup {k})  BY <1>2
<1>4. QED  BY <1>2, <1>3 DEF IsPath

LEMMA FurtherDown ==
  ASSUME NEW p, IsPath(p), NEW k, NEW c, Extends(Append(p, k), c)
  PROVE  /\ Extends(p, c) /\ c.path # p /\ Len(c.path) > Len(p)
         /\ c.path[Len(p) + 1] = k
<1> DEFINE q == Append(p, k)
<1>1. /\ Len(p) \in Nat /\ Len(q) = Len(p) + 1
      /\ q[Len(p) + 1] = k /\ \A i \in 1..Len(p) : q[i] = p[i]
      BY PathIs
<1> HIDE DEF q
<1>2. Len(c.path) \in Nat /\ Len(c.path) >= Len(q) /\ \A i \in 1..Len(q) : c.path[i] = q[i]
      BY DEF Extends, q
<1>3. Len(c.path) > Len(p)  BY <1>1, <1>2
<1>4. c.path # p  BY <1>1, <1>2, <1>3
<1>5. c.path[Len(p) + 1] = k
      <2>1. Len(p) + 1 \in 1..Len(q)  BY <1>1
      <2>2. QED  BY <1>1, <1>2, <2>1
<1>6. \A i \in 1..Len(p) : c.path[i] = p[i]
      <2>1. \A i \in 1..Len(p) : i \in 1..Len(q)  BY <1>1
      <2>2. QED  BY <1>1, <1>2, <2>1
<1>7. QED  BY <1>1, <1>2, <1>3, <1>4, <1>5, <1>6 DEF Extends

LEMMA RightHere ==
  ASSUME NEW p, IsPath(p), NEW c, c.path = p
  PROVE  Extends(p, c)
<1>1. Len(p) \in Nat  BY PathIs
<1>2. QED  BY <1>1 DEF Extends

LEMMA OneChange ==
  ASSUME NEW p, NEW v
  PROVE  /\ Added(p, v) # {} /\ Removed(p, v) # {}
         /\ \A c \in Added(p, v) : c.op = "add" /\ c.path = p /\ c.to = v
         /\ \A c \in Removed(p, v) : c.op = "remove" /\ c.path = p /\ c.to = Null
BY DEF Added, Removed, Change

(* The changes C, found at a path, tell b from a and do not remove what is there. *)
Settles(path, a, b, C) ==
  /\ \A c \in C : Extends(path, c) /\ ~(c.op = "remove" /\ c.path = path)
  /\ C = {} => a = b

IsCollection(v) ==
  v.kind \in {"object", "list"} /\ v = [kind |-> v.kind, at |-> v.at] /\ IsFcn(v.at)

(* What is found for each member of two collections *)
Parts(path, a, b, sub) ==
  /\ \A k \in DOMAIN a.at \ DOMAIN b.at : sub[k] = Removed(Append(path, k), a.at[k])
  /\ \A k \in DOMAIN b.at \ DOMAIN a.at : sub[k] = Added(Append(path, k), b.at[k])
  /\ \A k \in DOMAIN a.at \cap DOMAIN b.at : Settles(Append(path, k), a.at[k], b.at[k], sub[k])

LEMMA PartsAreApart ==
  ASSUME NEW path, IsPath(path), NEW a, NEW b, NEW sub, Parts(path, a, b, sub)
  PROVE  LET C == UNION {sub[k] : k \in Keys(a, b)}
         IN  /\ \A c \in C : Extends(path, c) /\ c.path # path
             /\ C = {} => DOMAIN a.at = DOMAIN b.at /\ \A k \in DOMAIN b.at : a.at[k] = b.at[k]
             /\ (DOMAIN a.at \cup Touched(path, C)) \ Dropped(path, C) = DOMAIN b.at
             /\ \A k \in Keys(a, b) : Under(path, C, k) = sub[k]
<1> DEFINE K == Keys(a, b)
           C == UNION {sub[k] : k \in K}
<1>1. K = DOMAIN a.at \cup DOMAIN b.at  BY DEF Keys
<1>2. \A k \in K : IsPath(Append(path, k))  BY PathIs
<1>3. ASSUME NEW k \in K, NEW c \in sub[k]  PROVE Extends(Append(path, k), c)
      <2>1. CASE k \in DOMAIN b.at /\ k \in DOMAIN a.at  BY <1>3, <2>1 DEF Parts, Settles
      <2>2. CASE k \notin DOMAIN b.at
            <3>1. sub[k] = Removed(Append(path, k), a.at[k])  BY <1>1, <2>2 DEF Parts
            <3>2. c.path = Append(path, k)  BY <1>3, <3>1 DEF Removed, Change
            <3>3. QED  BY <1>2, <3>2, RightHere
      <2>3. CASE k \in DOMAIN b.at /\ k \notin DOMAIN a.at
            <3>1. sub[k] = Added(Append(path, k), b.at[k])  BY <2>3 DEF Parts
            <3>2. c.path = Append(path, k)  BY <1>3, <3>1 DEF Added, Change
            <3>3. QED  BY <1>2, <3>2, RightHere
      <2>4. QED  BY <2>1, <2>2, <2>3
<1>4. \A k \in K : \A c \in sub[k] :
        Extends(path, c) /\ c.path # path /\ Len(c.path) > Len(path) /\ c.path[Len(path) + 1] = k
      BY <1>3, FurtherDown
<1>5. \A k \in K : k \notin DOMAIN b.at =>
        \E c \in sub[k] : c.op = "remove" /\ c.path = Append(path, k)
      <2>1. TAKE k \in K
      <2>2. HAVE k \notin DOMAIN b.at
      <2>3. sub[k] = Removed(Append(path, k), a.at[k])  BY <1>1, <2>2 DEF Parts
      <2>4. Change("remove", Append(path, k), a.at[k], Null) \in sub[k]  BY <2>3 DEF Removed
      <2>5. QED  BY <2>4 DEF Change
<1>6. \A k \in K : k \in DOMAIN b.at =>
        \A c \in sub[k] : ~(c.op = "remove" /\ c.path = Append(path, k))
      BY DEF Parts, Settles, Added, Change
<1>7. \A k \in K : k \notin DOMAIN a.at => sub[k] # {}
      BY <1>1 DEF Parts, Added
<1>8. \A k \in K : Under(path, C, k) = sub[k]
      <2>1. TAKE k \in K
      <2>2. \A c \in C : c.path[Len(path) + 1] = k => c \in sub[k]  BY <1>4
      <2>3. \A c \in sub[k] : c \in C /\ Len(c.path) > Len(path) /\ c.path[Len(path) + 1] = k
            BY <1>4
      <2>4. QED  BY <2>2, <2>3 DEF Under
<1>9. Touched(path, C) = {k \in K : sub[k] # {}}
      <2>1. \A c \in C : \E k \in K : c \in sub[k]  OBVIOUS
      <2>2. Touched(path, C) \subseteq {k \in K : sub[k] # {}}
            BY <1>4, <2>1 DEF Touched
      <2>3. ASSUME NEW k \in K, sub[k] # {}  PROVE k \in Touched(path, C)
            <3>1. PICK c \in sub[k] : TRUE  BY <2>3
            <3>2. c \in C /\ Len(c.path) > Len(path) /\ c.path[Len(path) + 1] = k  BY <1>4, <3>1
            <3>3. QED  BY <3>2 DEF Touched
      <2>4. QED  BY <2>2, <2>3
<1>10. Dropped(path, C) = {k \in K : k \notin DOMAIN b.at}
      <2>1. ASSUME NEW k \in K, k \notin DOMAIN b.at  PROVE k \in Dropped(path, C)
            <3>1. PICK c \in sub[k] : c.op = "remove" /\ c.path = Append(path, k)  BY <1>5, <2>1
            <3>2. QED  BY <1>9, <3>1 DEF Dropped
      <2>2. ASSUME NEW k \in Dropped(path, C)  PROVE k \in K /\ k \notin DOMAIN b.at
            <3>1. k \in K  BY <1>9 DEF Dropped
            <3>2. PICK c \in C : c.op = "remove" /\ c.path = Append(path, k)  BY DEF Dropped
            <3>3. PICK h \in K : c \in sub[h]  OBVIOUS
            <3>4. c.path[Len(path) + 1] = h /\ c.path[Len(path) + 1] = k
                  BY <1>4, <3>2, <3>3, PathIs
            <3>5. QED  BY <1>6, <3>1, <3>2, <3>3, <3>4
      <2>3. QED  BY <2>1, <2>2
<1>11. C = {} => DOMAIN a.at = DOMAIN b.at /\ \A k \in DOMAIN b.at : a.at[k] = b.at[k]
      <2> SUFFICES ASSUME C = {}
                   PROVE  DOMAIN a.at = DOMAIN b.at /\ \A k \in DOMAIN b.at : a.at[k] = b.at[k]
          OBVIOUS
      <2>1. \A k \in K : sub[k] = {}  OBVIOUS
      <2>2. \A k \in K : k \in DOMAIN a.at /\ k \in DOMAIN b.at  BY <1>5, <1>7, <2>1
      <2>3. QED  BY <1>1, <2>1, <2>2 DEF Parts, Settles
<1>12. (DOMAIN a.at \cup Touched(path, C)) \ Dropped(path, C) = DOMAIN b.at
       BY <1>1, <1>7, <1>9, <1>10
<1>13. \A c \in C : Extends(path, c) /\ c.path # path  BY <1>4
<1>14. QED  BY <1>8, <1>11, <1>12, <1>13

LEMMA OneLevel ==
  ASSUME NEW path, IsPath(path), NEW a, NEW b, IsCollection(a), IsCollection(b), a.kind = b.kind,
         NEW sub, Parts(path, a, b, sub)
  PROVE  LET C == UNION {sub[k] : k \in Keys(a, b)}
         IN  /\ Settles(path, a, b, C)
             /\ \A c \in C : c.path # path
             /\ (DOMAIN a.at \cup Touched(path, C)) \ Dropped(path, C) = DOMAIN b.at
             /\ \A k \in DOMAIN b.at : Under(path, C, k) = sub[k]
             /\ [kind |-> a.kind, at |-> [k \in DOMAIN b.at |-> b.at[k]]] = b
<1> DEFINE C == UNION {sub[k] : k \in Keys(a, b)}
<1>1. /\ \A c \in C : Extends(path, c) /\ c.path # path
      /\ C = {} => DOMAIN a.at = DOMAIN b.at /\ \A k \in DOMAIN b.at : a.at[k] = b.at[k]
      /\ (DOMAIN a.at \cup Touched(path, C)) \ Dropped(path, C) = DOMAIN b.at
      /\ \A k \in Keys(a, b) : Under(path, C, k) = sub[k]
      BY PartsAreApart
<1> HIDE DEF C
<1>2. C = {} => a = b  BY <1>1 DEF IsCollection, IsFcn
<1>3. Settles(path, a, b, C)  BY <1>1, <1>2 DEF Settles
<1>4. [kind |-> a.kind, at |-> [k \in DOMAIN b.at |-> b.at[k]]] = b  BY DEF IsCollection, IsFcn
<1>5. QED  BY <1>1, <1>3, <1>4 DEF Keys, C

-------------------------------------------------------------------------------
(* Walk and Patched, one depth after another: the proof of a depth uses what   *)
(* is proved of the one below, and is the same for each.                    *)

(* JSON values of at most a depth, with no null inside *)
Deep0(v) == v = Atom(v.at)
Deep1(v) == Deep0(v) \/ (IsCollection(v) /\ \A k \in DOMAIN v.at : Deep0(v.at[k]))
Deep2(v) == Deep0(v) \/ (IsCollection(v) /\ \A k \in DOMAIN v.at : Deep1(v.at[k]))
Deep3(v) == Deep0(v) \/ (IsCollection(v) /\ \A k \in DOMAIN v.at : Deep2(v.at[k]))
Deep4(v) == Deep0(v) \/ (IsCollection(v) /\ \A k \in DOMAIN v.at : Deep3(v.at[k]))

LEMMA ReplacedIs ==
  ASSUME NEW path, IsPath(path), NEW a, NEW b,
         a = [kind |-> a.kind, at |-> a.at], b = [kind |-> b.kind, at |-> b.at]
  PROVE  /\ Settles(path, a, b, Replaced(path, a, b))
         /\ \A c \in Replaced(path, a, b) : c.path = path /\ c.to = b
<1>1. \/ Replaced(path, a, b) = {} /\ a = b
      \/ Replaced(path, a, b) = {Change("replace", path, a, b)}
      BY DEF Replaced
<1>2. \A c \in Replaced(path, a, b) : c.op = "replace" /\ c.path = path /\ c.to = b
      BY <1>1 DEF Change
<1>3. \A c \in Replaced(path, a, b) : Extends(path, c)  BY <1>2, RightHere
<1>4. Settles(path, a, b, Replaced(path, a, b))  BY <1>1, <1>2, <1>3 DEF Settles
<1>5. QED  BY <1>2, <1>4

LEMMA Patch0 ==
  ASSUME NEW path, NEW v, NEW C
  PROVE  /\ C = {} => Patched0(path, v, C) = v
         /\ C # {} /\ (\A c \in C : c.path = path) => \E c \in C : Patched0(path, v, C) = c.to
<1>1. C = {} => Patched0(path, v, C) = v  BY DEF Patched0
<1>2. ASSUME C # {}, \A c \in C : c.path = path
      PROVE  \E c \in C : Patched0(path, v, C) = c.to
      <2> DEFINE h == CHOOSE c \in C : c.path = path
      <2>1. h \in C /\ Patched0(path, v, C) = h.to  BY <1>2 DEF Patched0
      <2>2. QED  BY <2>1
<1>3. QED  BY <1>1, <1>2

LEMMA Level0 ==
  ASSUME NEW path, IsPath(path), NEW a, NEW b, Deep0(a), Deep0(b)
  PROVE  /\ Settles(path, a, b, Walk0(path, a, b))
         /\ Patched0(path, a, Walk0(path, a, b)) = b
<1>1. a = [kind |-> a.kind, at |-> a.at] /\ b = [kind |-> b.kind, at |-> b.at]
      BY DEF Deep0, Atom
<1>2. QED  BY <1>1, ReplacedIs, Patch0 DEF Walk0, Settles

LEMMA Patch1 ==
  ASSUME NEW path, NEW v, NEW C
  PROVE  /\ C = {} => Patched1(path, v, C) = v
         /\ C # {} /\ (\A c \in C : c.path = path) => \E c \in C : Patched1(path, v, C) = c.to
<1>1. C = {} => Patched1(path, v, C) = v  BY DEF Patched1, Rebuilt
<1>2. ASSUME C # {}, \A c \in C : c.path = path
      PROVE  \E c \in C : Patched1(path, v, C) = c.to
      <2> DEFINE h == CHOOSE c \in C : c.path = path
      <2>1. h \in C /\ Patched1(path, v, C) = h.to  BY <1>2 DEF Patched1, Rebuilt
      <2>2. QED  BY <2>1
<1>3. QED  BY <1>1, <1>2

LEMMA Level1 ==
  ASSUME NEW path, IsPath(path), NEW a, NEW b, Deep1(a), Deep1(b)
  PROVE  /\ Settles(path, a, b, Walk1(path, a, b))
         /\ Patched1(path, a, Walk1(path, a, b)) = b
<1> DEFINE sub == [k \in Keys(a, b) |-> Member(Walk0, Append(path, k), k, a, b)]
           C == UNION {sub[k] : k \in Keys(a, b)}
           old(k) == IF k \in DOMAIN a.at THEN a.at[k] ELSE Null
<1>1. /\ a = [kind |-> a.kind, at |-> a.at] /\ b = [kind |-> b.kind, at |-> b.at]
      /\ ~IsNull(a) /\ ~IsNull(b)
      BY DEF Deep1, Deep0, Atom, IsCollection, IsNull
<1>2. CASE ~BothCollections(a, b)
      <2>1. Walk1(path, a, b) = Replaced(path, a, b)  BY <1>1, <1>2 DEF Walk1, Compare
      <2>2. QED  BY <1>1, <2>1, ReplacedIs, Patch1 DEF Settles
<1>3. CASE BothCollections(a, b)
      <2>1. /\ IsCollection(a) /\ \A k \in DOMAIN a.at : Deep0(a.at[k])
            /\ IsCollection(b) /\ \A k \in DOMAIN b.at : Deep0(b.at[k])
            /\ a.kind = b.kind
            BY <1>3 DEF BothCollections, Deep1, Deep0, Atom
      <2>2. Walk1(path, a, b) = C  BY <1>1, <1>3 DEF Walk1, Compare
      <2>3. \A k \in DOMAIN a.at \ DOMAIN b.at : sub[k] = Removed(Append(path, k), a.at[k])
            BY DEF Member, Keys
      <2>4. \A k \in DOMAIN b.at \ DOMAIN a.at : sub[k] = Added(Append(path, k), b.at[k])
            BY DEF Member, Keys
      <2>5. \A k \in DOMAIN a.at \cap DOMAIN b.at :
              sub[k] = Walk0(Append(path, k), a.at[k], b.at[k])
            BY DEF Member, Keys
      <2> HIDE DEF sub
      <2>6. \A k \in DOMAIN a.at \cap DOMAIN b.at :
              /\ Settles(Append(path, k), a.at[k], b.at[k], sub[k])
              /\ Patched0(Append(path, k), a.at[k], sub[k]) = b.at[k]
            BY <2>1, <2>5, PathIs, Level0
      <2>7. /\ Settles(path, a, b, C) /\ \A c \in C : c.path # path
            /\ (DOMAIN a.at \cup Touched(path, C)) \ Dropped(path, C) = DOMAIN b.at
            /\ \A k \in DOMAIN b.at : Under(path, C, k) = sub[k]
            /\ [kind |-> a.kind, at |-> [k \in DOMAIN b.at |-> b.at[k]]] = b
            BY <2>1, <2>3, <2>4, <2>6, OneLevel DEF Parts
      <2>8. ASSUME NEW k \in DOMAIN b.at  PROVE Patched0(Append(path, k), old(k), sub[k]) = b.at[k]
            <3>1. CASE k \in DOMAIN a.at  BY <2>6, <3>1
            <3>2. CASE k \notin DOMAIN a.at
                  <4> DEFINE p == Append(path, k)
                             v == old(k)
                             x == b.at[k]
                             S == sub[k]
                  <4>1. S = Added(p, x)  BY <2>4, <3>2
                  <4> HIDE DEF p, v, x, S
                  <4>2. S # {} /\ \A c \in S : c.path = p /\ c.to = x
                        BY <4>1 DEF Added, Change
                  <4>3. Patched0(p, v, S) = x  BY <4>2, Patch0
                  <4>4. QED  BY <4>3 DEF p, v, x, S
            <3>3. QED  BY <3>1, <3>2
      <2> HIDE DEF C
      <2>9. CASE C = {}  BY <2>2, <2>7, <2>9, Patch1 DEF Settles
      <2>10. CASE C # {}
            <3>1. Patched1(path, a, C) =
                    [kind |-> a.kind,
                     at |-> [k \in DOMAIN b.at |-> Patched0(Append(path, k), old(k), Under(path, C, k))]]
                  BY <2>7, <2>10 DEF Patched1, Rebuilt
            <3>2. Patched1(path, a, C) = [kind |-> a.kind, at |-> [k \in DOMAIN b.at |-> b.at[k]]]
                  BY <2>7, <2>8, <3>1
            <3>3. QED  BY <2>2, <2>7, <3>2
      <2>11. QED  BY <2>9, <2>10
<1>4. QED  BY <1>2, <1>3

LEMMA Patch2 ==
  ASSUME NEW path, NEW v, NEW C
  PROVE  /\ C = {} => Patched2(path, v, C) = v
         /\ C # {} /\ (\A c \in C : c.path = path) => \E c \in C : Patched2(path, v, C) = c.to
<1>1. C = {} => Patched2(path, v, C) = v  BY DEF Patched2, Rebuilt
<1>2. ASSUME C # {}, \A c \in C : c.path = path
      PROVE  \E c \in C : Patched2(path, v, C) = c.to
      <2> DEFINE h == CHOOSE c \in C : c.path = path
      <2>1. h \in C /\ Patched2(path, v, C) = h.to  BY <1>2 DEF Patched2, Rebuilt
      <2>2. QED  BY <2>1
<1>3. QED  BY <1>1, <1>2

LEMMA Level2 ==
  ASSUME NEW path, IsPath(path), NEW a, NEW b, Deep2(a), Deep2(b)
  PROVE  /\ Settles(path, a, b, Walk2(path, a, b))
         /\ Patched2(path, a, Walk2(path, a, b)) = b
<1> DEFINE sub == [k \in Keys(a, b) |-> Member(Walk1, Append(path, k), k, a, b)]
           C == UNION {sub[k] : k \in Keys(a, b)}
           old(k) == IF k \in DOMAIN a.at THEN a.at[k] ELSE Null
<1>1. /\ a = [kind |-> a.kind, at |-> a.at] /\ b = [kind |-> b.kind, at |-> b.at]
      /\ ~IsNull(a) /\ ~IsNull(b)
      BY DEF Deep2, Deep0, Atom, IsCollection, IsNull
<1>2. CASE ~BothCollections(a, b)
      <2>1. Walk2(path, a, b) = Replaced(path, a, b)  BY <1>1, <1>2 DEF Walk2, Compare
      <2>2. QED  BY <1>1, <2>1, ReplacedIs, Patch2 DEF Settles
<1>3. CASE BothCollections(a, b)
      <2>1. /\ IsCollection(a) /\ \A k \in DOMAIN a.at : Deep1(a.at[k])
            /\ IsCollection(b) /\ \A k \in DOMAIN b.at : Deep1(b.at[k])
            /\ a.kind = b.kind
            BY <1>3 DEF BothCollections, Deep2, Deep0, Atom
      <2>2. Walk2(path, a, b) = C  BY <1>1, <1>3 DEF Walk2, Compare
      <2>3. \A k \in DOMAIN a.at \ DOMAIN b.at : sub[k] = Removed(Append(path, k), a.at[k])
            BY DEF Member, Keys
      <2>4. \A k \in DOMAIN b.at \ DOMAIN a.at : sub[k] = Added(Append(path, k), b.at[k])
            BY DEF Member, Keys
      <2>5. \A k \in DOMAIN a.at \cap DOMAIN b.at :
              sub[k] = Walk1(Append(path, k), a.at[k], b.at[k])
            BY DEF Member, Keys
      <2> HIDE DEF sub
      <2>6. \A k \in DOMAIN a.at \cap DOMAIN b.at :
              /\ Settles(Append(path, k), a.at[k], b.at[k], sub[k])
              /\ Patched1(Append(path, k), a.at[k], sub[k]) = b.at[k]
            BY <2>1, <2>5, PathIs, Level1
      <2>7. /\ Settles(path, a, b, C) /\ \A c \in C : c.path # path
            /\ (DOMAIN a.at \cup Touched(path, C)) \ Dropped(path, C) = DOMAIN b.at
            /\ \A k \in DOMAIN b.at : Under(path, C, k) = sub[k]
            /\ [kind |-> a.kind, at |-> [k \in DOMAIN b.at |-> b.at[k]]] = b
            BY <2>1, <2>3, <2>4, <2>6, OneLevel DEF Parts
      <2>8. ASSUME NEW k \in DOMAIN b.at  PROVE Patched1(Append(path, k), old(k), sub[k]) = b.at[k]
            <3>1. CASE k \in DOMAIN a.at  BY <2>6, <3>1
            <3>2. CASE k \notin DOMAIN a.at
                  <4> DEFINE p == Append(path, k)
                             v == old(k)
                             x == b.at[k]
                             S == sub[k]
                  <4>1. S = Added(p, x)  BY <2>4, <3>2
                  <4> HIDE DEF p, v, x, S
                  <4>2. S # {} /\ \A c \in S : c.path = p /\ c.to = x
                        BY <4>1 DEF Added, Change
                  <4>3. Patched1(p, v, S) = x  BY <4>2, Patch1
                  <4>4. QED  BY <4>3 DEF p, v, x, S
            <3>3. QED  BY <3>1, <3>2
      <2> HIDE DEF C
      <2>9. CASE C = {}  BY <2>2, <2>7, <2>9, Patch2 DEF Settles
      <2>10. CASE C # {}
            <3>1. Patched2(path, a, C) =
                    [kind |-> a.kind,
                     at |-> [k \in DOMAIN b.at |-> Patched1(Append(path, k), old(k), Under(path, C, k))]]
                  BY <2>7, <2>10 DEF Patched2, Rebuilt
            <3>2. Patched2(path, a, C) = [kind |-> a.kind, at |-> [k \in DOMAIN b.at |-> b.at[k]]]
                  BY <2>7, <2>8, <3>1
            <3>3. QED  BY <2>2, <2>7, <3>2
      <2>11. QED  BY <2>9, <2>10
<1>4. QED  BY <1>2, <1>3

LEMMA Patch3 ==
  ASSUME NEW path, NEW v, NEW C
  PROVE  /\ C = {} => Patched3(path, v, C) = v
         /\ C # {} /\ (\A c \in C : c.path = path) => \E c \in C : Patched3(path, v, C) = c.to
<1>1. C = {} => Patched3(path, v, C) = v  BY DEF Patched3, Rebuilt
<1>2. ASSUME C # {}, \A c \in C : c.path = path
      PROVE  \E c \in C : Patched3(path, v, C) = c.to
      <2> DEFINE h == CHOOSE c \in C : c.path = path
      <2>1. h \in C /\ Patched3(path, v, C) = h.to  BY <1>2 DEF Patched3, Rebuilt
      <2>2. QED  BY <2>1
<1>3. QED  BY <1>1, <1>2

LEMMA Level3 ==
  ASSUME NEW path, IsPath(path), NEW a, NEW b, Deep3(a), Deep3(b)
  PROVE  /\ Settles(path, a, b, Walk3(path, a, b))
         /\ Patched3(path, a, Walk3(path, a, b)) = b
<1> DEFINE sub == [k \in Keys(a, b) |-> Member(Walk2, Append(path, k), k, a, b)]
           C == UNION {sub[k] : k \in Keys(a, b)}
           old(k) == IF k \in DOMAIN a.at THEN a.at[k] ELSE Null
<1>1. /\ a = [kind |-> a.kind, at |-> a.at] /\ b = [kind |-> b.kind, at |-> b.at]
      /\ ~IsNull(a) /\ ~IsNull(b)
      BY DEF Deep3, Deep0, Atom, IsCollection, IsNull
<1>2. CASE ~BothCollections(a, b)
      <2>1. Walk3(path, a, b) = Replaced(path, a, b)  BY <1>1, <1>2 DEF Walk3, Compare
      <2>2. QED  BY <1>1, <2>1, ReplacedIs, Patch3 DEF Settles
<1>3. CASE BothCollections(a, b)
      <2>1. /\ IsCollection(a) /\ \A k \in DOMAIN a.at : Deep2(a.at[k])
            /\ IsCollection(b) /\ \A k \in DOMAIN b.at : Deep2(b.at[k])
            /\ a.kind = b.kind
            BY <1>3 DEF BothCollections, Deep3, Deep0, Atom
      <2>2. Walk3(path, a, b) = C  BY <1>1, <1>3 DEF Walk3, Compare
      <2>3. \A k \in DOMAIN a.at \ DOMAIN b.at : sub[k] = Removed(Append(path, k), a.at[k])
            BY DEF Member, Keys
      <2>4. \A k \in DOMAIN b.at \ DOMAIN a.at : sub[k] = Added(Append(path, k), b.at[k])
            BY DEF Member, Keys
      <2>5. \A k \in DOMAIN a.at \cap DOMAIN b.at :
              sub[k] = Walk2(Append(path, k), a.at[k], b.at[k])
            BY DEF Member, Keys
      <2> HIDE DEF sub
      <2>6. \A k \in DOMAIN a.at \cap DOMAIN b.at :
              /\ Settles(Append(path, k), a.at[k], b.at[k], sub[k])
              /\ Patched2(Append(path, k), a.at[k], sub[k]) = b.at[k]
            BY <2>1, <2>5, PathIs, Level2
      <2>7. /\ Settles(path, a, b, C) /\ \A c \in C : c.path # path
            /\ (DOMAIN a.at \cup Touched(path, C)) \ Dropped(path, C) = DOMAIN b.at
            /\ \A k \in DOMAIN b.at : Under(path, C, k) = sub[k]
            /\ [kind |-> a.kind, at |-> [k \in DOMAIN b.at |-> b.at[k]]] = b
            BY <2>1, <2>3, <2>4, <2>6, OneLevel DEF Parts
      <2>8. ASSUME NEW k \in DOMAIN b.at  PROVE Patched2(Append(path, k), old(k), sub[k]) = b.at[k]
            <3>1. CASE k \in DOMAIN a.at  BY <2>6, <3>1
            <3>2. CASE k \notin DOMAIN a.at
                  <4> DEFINE p == Append(path, k)
                             v == old(k)
                             x == b.at[k]
                             S == sub[k]
                  <4>1. S = Added(p, x)  BY <2>4, <3>2
                  <4> HIDE DEF p, v, x, S
                  <4>2. S # {} /\ \A c \in S : c.path = p /\ c.to = x
                        BY <4>1 DEF Added, Change
                  <4>3. Patched2(p, v, S) = x  BY <4>2, Patch2
                  <4>4. QED  BY <4>3 DEF p, v, x, S
            <3>3. QED  BY <3>1, <3>2
      <2> HIDE DEF C
      <2>9. CASE C = {}  BY <2>2, <2>7, <2>9, Patch3 DEF Settles
      <2>10. CASE C # {}
            <3>1. Patched3(path, a, C) =
                    [kind |-> a.kind,
                     at |-> [k \in DOMAIN b.at |-> Patched2(Append(path, k), old(k), Under(path, C, k))]]
                  BY <2>7, <2>10 DEF Patched3, Rebuilt
            <3>2. Patched3(path, a, C) = [kind |-> a.kind, at |-> [k \in DOMAIN b.at |-> b.at[k]]]
                  BY <2>7, <2>8, <3>1
            <3>3. QED  BY <2>2, <2>7, <3>2
      <2>11. QED  BY <2>9, <2>10
<1>4. QED  BY <1>2, <1>3

LEMMA Patch4 ==
  ASSUME NEW path, NEW v, NEW C
  PROVE  /\ C = {} => Patched4(path, v, C) = v
         /\ C # {} /\ (\A c \in C : c.path = path) => \E c \in C : Patched4(path, v, C) = c.to
<1>1. C = {} => Patched4(path, v, C) = v  BY DEF Patched4, Rebuilt
<1>2. ASSUME C # {}, \A c \in C : c.path = path
      PROVE  \E c \in C : Patched4(path, v, C) = c.to
      <2> DEFINE h == CHOOSE c \in C : c.path = path
      <2>1. h \in C /\ Patched4(path, v, C) = h.to  BY <1>2 DEF Patched4, Rebuilt
      <2>2. QED  BY <2>1
<1>3. QED  BY <1>1, <1>2

LEMMA Level4 ==
  ASSUME NEW path, IsPath(path), NEW a, NEW b, Deep4(a), Deep4(b)
  PROVE  /\ Settles(path, a, b, Walk4(path, a, b))
         /\ Patched4(path, a, Walk4(path, a, b)) = b
<1> DEFINE sub == [k \in Keys(a, b) |-> Member(Walk3, Append(path, k), k, a, b)]
           C == UNION {sub[k] : k \in Keys(a, b)}
           old(k) == IF k \in DOMAIN a.at THEN a.at[k] ELSE Null
<1>1. /\ a = [kind |-> a.kind, at |-> a.at] /\ b = [kind |-> b.kind, at |-> b.at]
      /\ ~IsNull(a) /\ ~IsNull(b)
      BY DEF Deep4, Deep0, Atom, IsCollection, IsNull
<1>2. CASE ~BothCollections(a, b)
      <2>1. Walk4(path, a, b) = Replaced(path, a, b)  BY <1>1, <1>2 DEF Walk4, Compare
      <2>2. QED  BY <1>1, <2>1, ReplacedIs, Patch4 DEF Settles
<1>3. CASE BothCollections(a, b)
      <2>1. /\ IsCollection(a) /\ \A k \in DOMAIN a.at : Deep3(a.at[k])
            /\ IsCollection(b) /\ \A k \in DOMAIN b.at : Deep3(b.at[k])
            /\ a.kind = b.kind
            BY <1>3 DEF BothCollections, Deep4, Deep0, Atom
      <2>2. Walk4(path, a, b) = C  BY <1>1, <1>3 DEF Walk4, Compare
      <2>3. \A k \in DOMAIN a.at \ DOMAIN b.at : sub[k] = Removed(Append(path, k), a.at[k])
            BY DEF Member, Keys
      <2>4. \A k \in DOMAIN b.at \ DOMAIN a.at : sub[k] = Added(Append(path, k), b.at[k])
            BY DEF Member, Keys
      <2>5. \A k \in DOMAIN a.at \cap DOMAIN b.at :
              sub[k] = Walk3(Append(path, k), a.at[k], b.at[k])
            BY DEF Member, Keys
      <2> HIDE DEF sub
      <2>6. \A k \in DOMAIN a.at \cap DOMAIN b.at :
              /\ Settles(Append(path, k), a.at[k], b.at[k], sub[k])
              /\ Patched3(Append(path, k), a.at[k], sub[k]) = b.at[k]
            BY <2>1, <2>5, PathIs, Level3
      <2>7. /\ Settles(path, a, b, C) /\ \A c \in C : c.path # path
            /\ (DOMAIN a.at \cup Touched(path, C)) \ Dropped(path, C) = DOMAIN b.at
            /\ \A k \in DOMAIN b.at : Under(path, C, k) = sub[k]
            /\ [kind |-> a.kind, at |-> [k \in DOMAIN b.at |-> b.at[k]]] = b
            BY <2>1, <2>3, <2>4, <2>6, OneLevel DEF Parts
      <2>8. ASSUME NEW k \in DOMAIN b.at  PROVE Patched3(Append(path, k), old(k), sub[k]) = b.at[k]
            <3>1. CASE k \in DOMAIN a.at  BY <2>6, <3>1
            <3>2. CASE k \notin DOMAIN a.at
                  <4> DEFINE p == Append(path, k)
                             v == old(k)
                             x == b.at[k]
                             S == sub[k]
                  <4>1. S = Added(p, x)  BY <2>4, <3>2
                  <4> HIDE DEF p, v, x, S
                  <4>2. S # {} /\ \A c \in S : c.path = p /\ c.to = x
                        BY <4>1 DEF Added, Change
                  <4>3. Patched3(p, v, S) = x  BY <4>2, Patch3
                  <4>4. QED  BY <4>3 DEF p, v, x, S
            <3>3. QED  BY <3>1, <3>2
      <2> HIDE DEF C
      <2>9. CASE C = {}  BY <2>2, <2>7, <2>9, Patch4 DEF Settles
      <2>10. CASE C # {}
            <3>1. Patched4(path, a, C) =
                    [kind |-> a.kind,
                     at |-> [k \in DOMAIN b.at |-> Patched3(Append(path, k), old(k), Under(path, C, k))]]
                  BY <2>7, <2>10 DEF Patched4, Rebuilt
            <3>2. Patched4(path, a, C) = [kind |-> a.kind, at |-> [k \in DOMAIN b.at |-> b.at[k]]]
                  BY <2>7, <2>8, <3>1
            <3>3. QED  BY <2>2, <2>7, <3>2
      <2>11. QED  BY <2>9, <2>10
<1>4. QED  BY <1>2, <1>3

-------------------------------------------------------------------------------
(* Documents as JSON *)

LEMMA AtomIsDeep ==
  ASSUME NEW v
  PROVE  /\ Deep0(Atom(v)) /\ Deep1(Atom(v)) /\ Deep2(Atom(v)) /\ Deep3(Atom(v))
BY DEF Deep0, Deep1, Deep2, Deep3, Atom

LEMMA FlatIsDeep ==
  ASSUME NEW f, IsFcn(f), \A k \in DOMAIN f : Deep0(f[k])
  PROVE  /\ Deep1(Object(f)) /\ Deep1(List(f)) /\ Deep3(Object(f)) /\ Deep3(List(f))
<1>1. /\ IsCollection(Object(f)) /\ Object(f).at = f
      /\ IsCollection(List(f)) /\ List(f).at = f
      BY DEF IsCollection, Object, List
<1>2. QED  BY <1>1 DEF Deep1, Deep2, Deep3

LEMMA CollectionIsDeep ==
  ASSUME NEW f, IsFcn(f)
  PROVE  /\ (\A k \in DOMAIN f : Deep1(f[k])) => Deep2(Object(f))
         /\ (\A k \in DOMAIN f : Deep2(f[k])) => Deep3(List(f))
         /\ (\A k \in DOMAIN f : Deep3(f[k])) => Deep4(Object(f))
<1>1. /\ IsCollection(Object(f)) /\ Object(f).at = f
      /\ IsCollection(List(f)) /\ List(f).at = f
      BY DEF IsCollection, Object, List
<1>2. QED  BY <1>1 DEF Deep2, Deep3, Deep4

LEMMA StringsAreDeep ==
  ASSUME NEW s
  PROVE  Deep1(Strings(s)) /\ Deep3(Strings(s))
<1> DEFINE f == [i \in DOMAIN s |-> Atom(Text(s[i]))]
<1>1. IsFcn(f)  BY DEF IsFcn
<1>2. \A k \in DOMAIN f : Deep0(f[k])  BY AtomIsDeep
<1> HIDE DEF f
<1>3. QED  BY <1>1, <1>2, FlatIsDeep DEF Strings, f

LEMMA BlockIsDeep ==
  ASSUME NEW b, b.parameters # Nil, b.depends_on # Nil
  PROVE  Deep2(BlockJSON(b))
<1> DEFINE ps == [n \in DOMAIN b.parameters |-> Atom(b.parameters[n])]
           f == [id |-> Atom(Text(b.id)), template_id |-> Atom(Text(b.template_id)),
                 parameters |-> Object(ps), depends_on |-> Strings(b.depends_on)]
<1>1. IsFcn(ps)  BY DEF IsFcn
<1>2. \A k \in DOMAIN ps : Deep0(ps[k])  BY AtomIsDeep
<1> HIDE DEF ps
<1>3. Deep1(Object(ps))  BY <1>1, <1>2, FlatIsDeep
<1>4. BlockJSON(b) = Object(f)  BY DEF BlockJSON, NullOr, ps
<1>5. IsFcn(f)  BY DEF IsFcn
<1>6. \A k \in DOMAIN f : Deep1(f[k])  BY <1>3, AtomIsDeep, StringsAreDeep
<1> HIDE DEF f
<1>7. QED  BY <1>4, <1>5, <1>6, CollectionIsDeep

LEMMA StoredIsDeep ==
  ASSUME NilIsApart, NEW d, d # Nil, DocShape(d), Errors(d) = {}, Normal(d) = d
  PROVE  Deep4(JSON(d))
<1> DEFINE s == d.blocks
           bs == [i \in DOMAIN s |-> BlockJSON(s[i])]
           cost == [k \in DOMAIN d.estimated_cost |-> Atom(Number(d.estimated_cost[k]))]
           f == [schema_version |-> Atom(Number(d.schema_version)), region |-> Atom(Text(d.region)),
                 blocks |-> List(bs), out_of_catalog |-> Strings(d.out_of_catalog),
                 estimated_cost |-> Object(cost)]
<1>1. ASSUME NEW i \in DOMAIN s  PROVE s[i].parameters # Nil /\ s[i].depends_on # Nil
      <2>1. /\ BlocksOf(d) = s /\ BlockShape(s[i]) /\ s[i] = NormalBlock(s[i])
            BY <1>1, NormalShape, BlocksGiven, BlockListIs DEF DocShape
      <2>2. Get(s[i].template_id) /\ ParamFaults(s[i].template_id, Given(s[i].parameters)) = {}
            BY <1>1, <2>1, BlockIsClean, DocumentIsClean
      <2>3. IsFcn(s[i].parameters) /\ Given(s[i].depends_on) = s[i].depends_on
            BY <2>1, <2>2, NormalBlockTwice DEF NormalBlock
      <2>4. IsFcn(<<>>)  BY DEF IsFcn
      <2>5. s[i].parameters # Nil /\ <<>> # Nil  BY <2>3, <2>4 DEF NilIsApart
      <2>6. QED  BY <2>3, <2>5 DEF Given
<1>2. IsFcn(bs) /\ \A k \in DOMAIN bs : Deep2(bs[k])  BY <1>1, BlockIsDeep DEF IsFcn
<1>3. IsFcn(cost) /\ \A k \in DOMAIN cost : Deep0(cost[k])  BY AtomIsDeep DEF IsFcn
<1>4. JSON(d) = Object(f)  BY DEF JSON
<1> HIDE DEF bs, cost
<1>5. Deep3(List(bs)) /\ Deep3(Object(cost))  BY <1>2, <1>3, CollectionIsDeep, FlatIsDeep
<1>6. IsFcn(f)  BY DEF IsFcn
<1>7. \A k \in DOMAIN f : Deep3(f[k])  BY <1>5, AtomIsDeep, StringsAreDeep
<1> HIDE DEF f
<1>8. QED  BY <1>4, <1>6, <1>7, CollectionIsDeep

(* Diff of any two documents, or of a document and none *)
LEMMA DiffRebuilds ==
  ASSUME NEW a, NEW b, Deep4(a) \/ a = Null, Deep4(b) \/ b = Null
  PROVE  Patched4(<<>>, a, Diff(a, b)) = b
<1>1. IsPath(<<>>)
      <2>1. <<>> \in Seq({})  OBVIOUS
      <2>2. QED  BY <2>1 DEF IsPath
<1>2. \A v : Deep4(v) => ~IsNull(v)  BY DEF Deep4, Deep0, Atom, IsCollection, IsNull
<1>3. IsNull(Null)  BY DEF IsNull, Null
<1>4. CASE Deep4(a) /\ Deep4(b)  BY <1>1, <1>4, Level4 DEF Diff
<1>5. CASE a = Null /\ b = Null
      <2>1. Diff(a, b) = {}  BY <1>3, <1>5 DEF Diff, Walk4, Compare
      <2>2. QED  BY <1>5, <2>1, Patch4
<1>6. CASE a = Null /\ Deep4(b)
      <2>1. Diff(a, b) = Added(<<>>, b)  BY <1>2, <1>3, <1>6 DEF Diff, Walk4, Compare
      <2>2. QED  BY <2>1, OneChange, Patch4
<1>7. CASE Deep4(a) /\ b = Null
      <2>1. Diff(a, b) = Removed(<<>>, a)  BY <1>2, <1>3, <1>7 DEF Diff, Walk4, Compare
      <2>2. QED  BY <1>7, <2>1, OneChange, Patch4
<1>8. QED  BY <1>4, <1>5, <1>6, <1>7

(* Whatever is proposed, the changes stored with a version, applied to the   *)
(* document it replaced, give its own: nothing that differs is left out of   *)
(* them, and none is told at the wrong path.                                *)
THEOREM ChangesAlwaysRebuild ==
  ASSUME NilIsApart
  PROVE  Spec => []ChangesRebuild
<1>1. StoredDoc => (Deep4(JSON(doc)) \/ JSON(doc) = Null)
      BY StoredIsDeep DEF StoredDoc, JSON
<1>2. Init => ChangesRebuild
      <2> SUFFICES ASSUME Init  PROVE ChangesRebuild
          OBVIOUS
      <2>1. JSON(previous) = Null /\ JSON(doc) = Null /\ changes = {}  BY DEF Init, JSON
      <2>2. QED  BY <2>1, Patch4 DEF ChangesRebuild
<1>3. StoredDoc /\ StoredDoc' /\ ChangesRebuild /\ [Next]_vars => ChangesRebuild'
      <2>1. CASE UNCHANGED vars  BY <2>1 DEF vars, ChangesRebuild
      <2>2. ASSUME StoredDoc, StoredDoc', Next  PROVE ChangesRebuild'
            <3>1. PICK d, scope : Store(d, scope)  BY <2>2, Proposals
            <3>2. previous' = doc /\ changes' = Diff(JSON(doc), JSON(doc'))  BY <3>1 DEF Store
            <3>3. Deep4(JSON(doc)) \/ JSON(doc) = Null  BY <1>1, <2>2
            <3>4. Deep4(JSON(doc')) \/ JSON(doc') = Null
                  BY <2>2, StoredIsDeep DEF StoredDoc, JSON
            <3>5. Patched4(<<>>, JSON(doc), Diff(JSON(doc), JSON(doc'))) = JSON(doc')
                  BY <3>3, <3>4, DiffRebuilds
            <3>6. QED  BY <3>2, <3>5 DEF ChangesRebuild
      <2>3. QED  BY <2>1, <2>2
<1>4. QED  BY <1>2, <1>3, StoredHolds, PTL DEF Spec

===============================================================================
