------------------------------ MODULE MCDocuments ------------------------------
(* A small catalog, shaped like the one shipped, and its proposals. *)
EXTENDS Documents

StringSpec(required, default, matches) ==
  [type |-> "string", required |-> required, default |-> default, matches |-> matches]
IntSpec(default, min, max) ==
  [type |-> "int", required |-> FALSE, default |-> default, min |-> min, max |-> max]
EnumSpec(default, allowed) ==
  [type |-> "enum", required |-> FALSE, default |-> default, allowed |-> allowed]

SmallCatalogue ==
  [function |-> [params |-> [name |-> StringSpec(TRUE, Nil, {"api"}),
                             days |-> EnumSpec(Number(7), {Number(1), Number(7)})],
                 requires |-> {}, low |-> 0, high |-> 3],
   bucket |-> [params |-> [size |-> IntSpec(Number(2), 1, 3)],
               requires |-> {}, low |-> 1, high |-> 2],
   alarm |-> [params |-> <<>>, requires |-> {"function"}, low |-> 0, high |-> 0]]

Name == [name |-> Text("api")]
Block(id, t, params, deps) ==
  [id |-> id, template_id |-> t, parameters |-> params, depends_on |-> deps]

SomeBlocks ==
  {Block(id, "function", Name @@ p, Nil) : id \in {"a-b", "a_b"},
     p \in {<<>>, [days |-> Text("7")], [days |-> Number(2)]}}
  \cup {Block("a_b", "function", Nil, Nil), Block("", "bucket", Nil, Nil),
        Block("c", "queue", Nil, Nil), Block("c", "bucket", [colour |-> Text("red")], Nil)}
  \cup {Block("c", "bucket", p, d) : d \in {Nil, <<"a-b">>},
          p \in {Nil, [size |-> Number(3)], [size |-> Number(4)], [size |-> Halves(3)]}}
  \cup {Block("d", "alarm", Nil, Nil), Block("a-b", "alarm", <<>>, <<"c">>)}

SomeNeeds == {<<>>, <<"dns">>, Nil}

CharsOf == [id \in {"a-b", "a_b", "c", "d", ""} |->
  CASE id = "a-b" -> <<"a", "-", "b">>
    [] id = "a_b" -> <<"a", "_", "b">>
    [] id = "" -> <<>>
    [] OTHER -> <<id>>]

IdsInOrder == <<"", "a-b", "a_b", "c", "d">>

===============================================================================
