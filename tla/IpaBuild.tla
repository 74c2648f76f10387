------------------------------ MODULE IpaBuild ------------------------------
(***************************************************************************)
(* kc_ipa_build of src/libipa.c up to the finished buffer: the manifest is *)
(* validated, its labels and meta rows are collected, its descriptions are *)
(* embedded one by one and the blocks of the file are put one behind the   *)
(* other, with a zeroed header that is filled in at the end.  Any step may *)
(* run out of memory; kc_emb_exec may fail on any description.             *)
(*                                                                         *)
(* The file is a sequence of blocks and an offset is a position in it.  A  *)
(* string is what its reference into the string table resolves to: strings *)
(* are only ever appended to the table.  An emit whose key is the empty    *)
(* string is Unkeyed, which is also how a row says that there is no emit.  *)
(***************************************************************************)
EXTENDS Naturals, Sequences, SequencesExt

CONSTANTS
  Manifests,   \* what kc_ipa_parse_manifest may have read
  NoId,        \* the id of a node that has none: NULL
  EmptyId,     \* ""
  Unkeyed,     \* an emit whose key is ""
  None

(* An array of the code and its length. *)
IsSequence(s) == s \in Seq(ToSet(s))

(* What the parser makes of a manifest: arrays of nodes, descriptions,     *)
(* emits and children.                                                     *)
ASSUME ManifestsAssumption ==
  /\ None \notin Manifests
  /\ \A m \in Manifests :
       /\ IsSequence(m.nodes)
       /\ \A nd \in ToSet(m.nodes) :
            /\ IsSequence(nd.descriptions) /\ IsSequence(nd.emits)
            /\ IsSequence(nd.children)
            /\ \A ch \in ToSet(nd.children) :
                 IsSequence(ch.descriptions) /\ IsSequence(ch.emits)

VARIABLES
  bpc,         \* where the build is
  manifest,    \* the manifest it compiles, or None
  nodeLabel, childLabel,   \* node_emb_label and child_emb_label
  nmeta, cmeta,            \* the meta rows
  nodeOff, childOff, nmetaOff, cmetaOff,   \* offsets of the parts
  buf,         \* the blocks
  rc           \* what the build before returned

tables    == <<nodeLabel, childLabel, nmeta, cmeta>>
offsets   == <<nodeOff, childOff, nmetaOff, cmetaOff>>
buildVars == <<bpc, manifest, tables, offsets, buf, rc>>

-----------------------------------------------------------------------------
(* kc_ipa_validate_manifest: what holds for a manifest that passes it.     *)
(* fields stands for its checks of the fields outside the nodes.           *)
Valid(m) ==
  /\ m.fields /\ m.nodes # <<>>
  /\ \A nd \in ToSet(m.nodes) :
       nd.id \notin {NoId, EmptyId} /\ nd.descriptions # <<>>

(* Loops over all nodes and over all children, in the order of the file. *)
PerNode(m, Row(_)) ==
  FlattenSeq([k \in DOMAIN m.nodes |-> Row(m.nodes[k])])

PerChild(m, Row(_, _)) ==
  PerNode(m, LAMBDA nd :
    FlattenSeq([c \in DOMAIN nd.children |-> Row(nd, nd.children[c])]))

Embedded(label, d) == [kind |-> "emb", id |-> label, data |-> d]

(* kc_ipa_node_meta_t and kc_ipa_child_meta_t: the row of a node says      *)
(* whether it has children, that of a child whose child it is.             *)
NodeRow(kids, id, e) == [kind |-> "node", id |-> id, data |-> <<kids, e>>]

ChildRow(parent, id, e) ==
  [kind |-> "child", id |-> id, data |-> <<parent, e>>]

(* One row for each emit of a node, or one row without an emit. *)
EmitsOf(nd) == IF nd.emits = <<>> THEN <<Unkeyed>> ELSE nd.emits

MutNodeLabels(m) ==
  PerNode(m, LAMBDA nd : [d \in DOMAIN nd.descriptions |-> m.nodes[1].id])

NodeLabels(m) ==
  PerNode(m, LAMBDA nd : [d \in DOMAIN nd.descriptions |-> nd.id])

ChildLabels(m) ==
  PerChild(m, LAMBDA nd, ch : [d \in DOMAIN ch.descriptions |-> ch.id])

NodeMetas(m) ==
  PerNode(m, LAMBDA nd : [e \in DOMAIN EmitsOf(nd) |->
    NodeRow(nd.children # <<>>, nd.id, EmitsOf(nd)[e])])

ChildMetas(m) ==
  PerChild(m, LAMBDA nd, ch : [e \in DOMAIN EmitsOf(ch) |->
    ChildRow(nd.id, ch.id, EmitsOf(ch)[e])])

NodeDescriptions(m)  == PerNode(m, LAMBDA nd : nd.descriptions)
ChildDescriptions(m) == PerChild(m, LAMBDA nd, ch : ch.descriptions)

(* strlen is called on the id of every child: one that has none is         *)
(* dereferenced.                                                           *)
Dereferences(m, useful(_)) ==
  \E nd \in ToSet(m.nodes) : \E ch \in ToSet(nd.children) :
    ch.id = NoId /\ useful(ch)

NoHeader == [kind |-> "header", size |-> 0]
StrTab   == [kind |-> "strtab"]

-----------------------------------------------------------------------------
BuildInit ==
  /\ bpc = "idle" /\ manifest = None /\ rc = "none"
  /\ nodeLabel = <<>> /\ childLabel = <<>> /\ nmeta = <<>> /\ cmeta = <<>>
  /\ nodeOff = 0 /\ childOff = 0 /\ nmetaOff = 0 /\ cmetaOff = 0
  /\ buf = <<>>

(* The end of a build frees everything it made. *)
Cleanup(result) ==
  /\ bpc' = "idle" /\ manifest' = None /\ rc' = result
  /\ nodeLabel' = <<>> /\ childLabel' = <<>> /\ nmeta' = <<>> /\ cmeta' = <<>>
  /\ nodeOff' = 0 /\ childOff' = 0 /\ nmetaOff' = 0 /\ cmetaOff' = 0
  /\ buf' = <<>>

(* The manifest is read and parsed. *)
BuildBegin ==
  /\ bpc = "idle" /\ bpc' = "validate" /\ manifest' \in Manifests
  /\ rc' = "none"
  /\ UNCHANGED <<tables, offsets, buf>>

Rejected ==
  /\ bpc = "validate" /\ ~Valid(manifest)
  /\ Cleanup("eformat")

Accepted ==
  /\ bpc = "validate" /\ Valid(manifest)
  /\ bpc' = "labels" /\ buf' = <<NoHeader>>
  /\ UNCHANGED <<manifest, tables, offsets, rc>>

CollectLabels ==
  /\ bpc = "labels"
  /\ ~Dereferences(manifest, LAMBDA ch : ch.descriptions # <<>>)
  /\ bpc' = "metas"
  /\ nodeLabel' = NodeLabels(manifest) /\ childLabel' = ChildLabels(manifest)
  /\ UNCHANGED <<manifest, nmeta, cmeta, offsets, buf, rc>>

(* The string table is now complete and becomes the second block. *)
CollectMetas ==
  /\ bpc = "metas" /\ ~Dereferences(manifest, LAMBDA ch : TRUE)
  /\ bpc' = "embed"
  /\ nmeta' = NodeMetas(manifest) /\ cmeta' = ChildMetas(manifest)
  /\ buf' = Append(buf, StrTab) /\ nodeOff' = Len(buf) + 1
  /\ UNCHANGED <<manifest, nodeLabel, childLabel, childOff, nmetaOff, cmetaOff,
                 rc>>

(* strlen(NULL) ends the process. *)
BuildDereferences ==
  /\ \/ bpc = "labels"
        /\ Dereferences(manifest, LAMBDA ch : ch.descriptions # <<>>)
     \/ bpc = "metas" /\ Dereferences(manifest, LAMBDA ch : TRUE)
  /\ Cleanup("fault")

EmbedNode ==
  /\ bpc = "embed"
  /\ LET ie == Len(buf) - nodeOff + 1
         ds == NodeDescriptions(manifest)
     IN  IF ie <= Len(ds)
         THEN /\ buf' = Append(buf, Embedded(nodeLabel[ie], ds[ie]))
              /\ UNCHANGED <<bpc, childOff>>
         ELSE /\ bpc' = "embedChild" /\ childOff' = Len(buf)
              /\ UNCHANGED buf
  /\ UNCHANGED <<manifest, tables, nodeOff, nmetaOff, cmetaOff, rc>>

EmbedChild ==
  /\ bpc = "embedChild"
  /\ LET ce == Len(buf) - childOff + 1
         ds == ChildDescriptions(manifest)
     IN  IF ce <= Len(ds)
         THEN /\ buf' = Append(buf, Embedded(childLabel[ce], ds[ce]))
              /\ UNCHANGED bpc
         ELSE bpc' = "rows" /\ UNCHANGED buf
  /\ UNCHANGED <<manifest, tables, offsets, rc>>

AppendMetas ==
  /\ bpc = "rows" /\ bpc' = "header"
  /\ buf' = buf \o nmeta \o cmeta
  /\ nmetaOff' = Len(buf) /\ cmetaOff' = Len(buf) + Len(nmeta)
  /\ UNCHANGED <<manifest, tables, nodeOff, childOff, rc>>

MutFillHeader ==
  /\ bpc = "header" /\ bpc' = "create"
  /\ buf' = [buf EXCEPT ![1] =
       [kind |-> "header", size |-> cmetaOff,
        nodeOff |-> nodeOff, nodes |-> Len(nodeLabel),
        childOff |-> childOff, children |-> Len(childLabel),
        nmetaOff |-> nmetaOff, nmetas |-> Len(nmeta),
        cmetaOff |-> cmetaOff, cmetas |-> Len(cmeta)]]
  /\ UNCHANGED <<manifest, tables, offsets, rc>>

FillHeader ==
  /\ bpc = "header" /\ bpc' = "create"
  /\ buf' = [buf EXCEPT ![1] =
       [kind |-> "header", size |-> Len(buf),
        nodeOff |-> nodeOff, nodes |-> Len(nodeLabel),
        childOff |-> childOff, children |-> Len(childLabel),
        nmetaOff |-> nmetaOff, nmetas |-> Len(nmeta),
        cmetaOff |-> cmetaOff, cmetas |-> Len(cmeta)]]
  /\ UNCHANGED <<manifest, tables, offsets, rc>>

(* The manifest cannot be read, there is no memory or no embedding         *)
(* context, or an embedding failed.                                        *)
BuildFails ==
  /\ bpc \in {"validate", "labels", "metas", "embed", "embedChild", "rows"}
  /\ Cleanup("error")

BuildStep ==
  \/ BuildBegin \/ Rejected \/ Accepted \/ CollectLabels \/ CollectMetas
  \/ BuildDereferences \/ EmbedNode \/ EmbedChild \/ AppendMetas \/ FillHeader
  \/ BuildFails

=============================================================================
