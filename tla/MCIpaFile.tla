----------------------------- MODULE MCIpaFile -----------------------------
(* Two manifests whose files have the same size, of which one has more     *)
(* emits for a node, one with two nodes of unequal numbers of descriptions *)
(* and children, ones with a child whose id is empty or missing, and one   *)
(* that is not valid.                                                      *)
EXTENDS IpaFile

Child(id, ds, es)      ==
  [id |-> id, descriptions |-> ds, emits |-> es]
Node(id, ds, es, kids) ==
  [id |-> id, descriptions |-> ds, emits |-> es, children |-> kids]
Manifest(nodes)        == [fields |-> TRUE, nodes |-> nodes]

MCManifests ==
  {Manifest(<<Node("a", <<"d1">>, <<"e1", "e2">>, <<>>)>>),
   Manifest(<<Node("a", <<"d1">>, <<"e1", Unkeyed>>, <<>>)>>),
   Manifest(<<Node("a", <<"d1", "d2">>, <<>>, <<>>),
              Node("b", <<"d3">>, <<"e2">>,
                   <<Child("c", <<"d1">>, <<"e1">>)>>)>>),
   Manifest(<<Node("a", <<"d1">>, <<"e1">>,
                   <<Child(EmptyId, <<"d2">>, <<>>)>>)>>),
   Manifest(<<Node("a", <<"d1">>, <<>>, <<Child(NoId, <<"d2">>, <<>>)>>)>>),
   Manifest(<<Node("a", <<"d1">>, <<>>, <<Child(NoId, <<>>, <<>>)>>)>>),
   Manifest(<<Node("a", <<>>, <<"e1">>, <<>>)>>)}

=============================================================================
