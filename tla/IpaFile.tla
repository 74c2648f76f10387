------------------------------ MODULE IpaFile ------------------------------
(***************************************************************************)
(* The .ipa file between the process that builds it and the process that   *)
(* uses it: the end of kc_ipa_build (src/libipa.c), which truncates the    *)
(* output and writes it in place, and kc_ipa_open, the look-up of emits    *)
(* and kc_ipa_close, which read it through a mapping (lib/libmmap.c).      *)
(*                                                                         *)
(* The builder may die at any moment and leaves what it has written; the   *)
(* disk may fill up.  The mapping shows what is in the file now, so a      *)
(* build of the same file shows through it, and a block that is no longer  *)
(* there cannot be read: harm records that, and ends the reader.  Builds   *)
(* of one file do not overlap.  A missing file is as good as an empty one. *)
(***************************************************************************)
EXTENDS IpaBuild

VARIABLES
  disk,        \* the blocks of the file
  rpc,         \* where the reader is
  fsz,         \* the size of its mapping
  nodeIndex, childIndex,   \* the labels in node_hnsw and child_hnsw
  bound,       \* where node_meta and child_meta point, and their counts
  looked,      \* what the first pass of a look-up was for, and counted
  \* history
  written,     \* the manifest in the file, or the last one begun there
  source,      \* the one that was in the file when it was mapped, or None
  disturbed,   \* whether the file was truncated while it was mapped
  harm         \* what became of a reader of such a file

fileVars   == <<disk, written>>
readerVars == <<rpc, fsz, nodeIndex, childIndex, bound, looked>>
ghosts     == <<source, disturbed, harm>>
vars       == <<buildVars, fileVars, readerVars, ghosts>>

Reading == {"header", "nodes", "children", "bind", "open", "fill"}

TypeOK ==
  /\ bpc \in {"idle", "validate", "labels", "metas", "embed", "embedChild",
              "rows", "header", "create", "write", "flush"}
  /\ manifest \in Manifests \cup {None}
  /\ rc \in {"none", "ok", "error", "eformat", "fault", "killed"}
  /\ written \in Manifests \cup {None} /\ source \in Manifests \cup {None}
  /\ bpc \in {"write", "flush"} => written = manifest /\ Len(disk) <= Len(buf)
  /\ rpc \in Reading \cup {"closed", "refused", "failed", "dead"}
  /\ fsz \in Nat /\ looked.count \in Nat
  /\ Len(nodeIndex) <= fsz /\ Len(childIndex) <= fsz
  /\ disturbed \in BOOLEAN /\ harm \in {"none", "fault", "overflow"}

Unbound  == [nmetaOff |-> 0, nmetas |-> 0, cmetaOff |-> 0, cmetas |-> 0]
NoLookUp == [kind |-> "node", id |-> NoId, parent |-> None, count |-> 0]

Init ==
  /\ BuildInit
  /\ disk = <<>> /\ written = None
  /\ rpc = "closed" /\ fsz = 0 /\ nodeIndex = <<>> /\ childIndex = <<>>
  /\ bound = Unbound /\ looked = NoLookUp
  /\ source = None /\ disturbed = FALSE /\ harm = "none"

-----------------------------------------------------------------------------
(* fopen(output_path, "wb"). *)
MutCreate ==
  /\ bpc = "create" /\ bpc' = "write"
  /\ written' = manifest
  /\ disturbed' = (disturbed \/ rpc \in Reading)
  /\ UNCHANGED <<disk, manifest, tables, offsets, buf, rc, readerVars, source,
                 harm>>

Create ==
  /\ bpc = "create" /\ bpc' = "write"
  /\ disk' = <<>> /\ written' = manifest
  /\ disturbed' = (disturbed \/ rpc \in Reading)
  /\ UNCHANGED <<manifest, tables, offsets, buf, rc, readerVars, source, harm>>

CreateFails ==
  /\ bpc = "create" /\ Cleanup("error")
  /\ UNCHANGED <<fileVars, readerVars, ghosts>>

(* fwrite writes block after block; the last ones may stay in the buffer   *)
(* of the stream until fclose writes them.                                 *)
WriteBlock ==
  /\ bpc \in {"write", "flush"} /\ Len(disk) < Len(buf)
  /\ disk' = Append(disk, buf[Len(disk) + 1])
  /\ UNCHANGED <<buildVars, written, readerVars, ghosts>>

WriteReturns ==
  /\ bpc = "write" /\ bpc' = "flush"
  /\ UNCHANGED <<manifest, tables, offsets, buf, rc, fileVars, readerVars,
                 ghosts>>

WriteFails ==
  /\ bpc = "write" /\ Len(disk) < Len(buf) /\ Cleanup("error")
  /\ UNCHANGED <<fileVars, readerVars, ghosts>>

(* The result of fclose is not looked at. *)
Flushed ==
  /\ bpc = "flush" /\ Cleanup("ok")
  /\ UNCHANGED <<fileVars, readerVars, ghosts>>

BuilderDies ==
  /\ bpc # "idle" /\ Cleanup("killed")
  /\ UNCHANGED <<fileVars, readerVars, ghosts>>

-----------------------------------------------------------------------------
MutOpenMap ==
  /\ rpc = "closed" /\ disk # <<>>
  /\ rpc' = "header" /\ fsz' = disk[1].size
  /\ source' = written
  /\ UNCHANGED <<buildVars, fileVars, nodeIndex, childIndex, bound, looked,
                 disturbed, harm>>

(* kc_ipa_open: kc_mmap_open takes the size; an empty file is not mapped.  *)
OpenMap ==
  /\ rpc = "closed" /\ disk # <<>>
  /\ rpc' = "header" /\ fsz' = Len(disk)
  /\ source' = written
  /\ UNCHANGED <<buildVars, fileVars, nodeIndex, childIndex, bound, looked,
                 disturbed, harm>>

OpenEmpty ==
  /\ rpc = "closed" /\ disk = <<>> /\ rpc' = "refused"
  /\ source' = None
  /\ UNCHANGED <<buildVars, fileVars, fsz, nodeIndex, childIndex, bound,
                 looked, disturbed, harm>>

Continue(to) ==
  rpc' = to /\ UNCHANGED <<buildVars, fileVars, fsz, ghosts>>

(* A read of a block behind the end of the file kills the reader. *)
Present(i) == i <= Len(disk)

Faults(needs) ==
  /\ \E i \in needs : ~Present(i)
  /\ harm' = "fault" /\ rpc' = "dead"
  /\ UNCHANGED <<buildVars, fileVars, fsz, nodeIndex, childIndex, bound,
                 looked, source, disturbed>>

hdr == disk[1]

HeaderOk == hdr.size = fsz

CheckHeader ==
  /\ rpc = "header" /\ Present(1)
  /\ Continue(IF HeaderOk THEN "nodes" ELSE "refused")
  /\ UNCHANGED <<nodeIndex, childIndex, bound, looked>>

(* kc_ipa_build_hnsw, one embedding at a time: kc_hnsw_add refuses an      *)
(* empty label.                                                            *)
LoadNode ==
  /\ rpc = "nodes" /\ Present(1)
  /\ LET at == hdr.nodeOff + Len(nodeIndex) + 1
     IN  IF Len(nodeIndex) = hdr.nodes
         THEN Continue(IF hdr.children > 0 THEN "children" ELSE "bind")
              /\ UNCHANGED nodeIndex
         ELSE IF at > fsz THEN Continue("refused") /\ UNCHANGED nodeIndex
         ELSE /\ Present(at)
              /\ Continue(IF disk[at].id = EmptyId THEN "refused" ELSE "nodes")
              /\ nodeIndex' = Append(nodeIndex, disk[at])
  /\ UNCHANGED <<childIndex, bound, looked>>

LoadChild ==
  /\ rpc = "children" /\ Present(1)
  /\ LET at == hdr.childOff + Len(childIndex) + 1
     IN  IF Len(childIndex) = hdr.children
         THEN Continue("bind") /\ UNCHANGED childIndex
         ELSE IF at > fsz THEN Continue("refused") /\ UNCHANGED childIndex
         ELSE /\ Present(at)
              /\ Continue(IF disk[at].id = EmptyId THEN "refused"
                                                  ELSE "children")
              /\ childIndex' = Append(childIndex, disk[at])
  /\ UNCHANGED <<nodeIndex, bound, looked>>

BindMetas ==
  /\ rpc = "bind" /\ Present(1)
  /\ IF hdr.nmetaOff + hdr.nmetas > fsz \/ hdr.cmetaOff + hdr.cmetas > fsz
     THEN Continue("refused") /\ UNCHANGED bound
     ELSE /\ Continue("open")
          /\ bound' = [nmetaOff |-> hdr.nmetaOff, nmetas |-> hdr.nmetas,
                       cmetaOff |-> hdr.cmetaOff, cmetas |-> hdr.cmetas]
  /\ UNCHANGED <<nodeIndex, childIndex, looked>>

OpenFaults ==
  /\ rpc \in {"header", "nodes", "children", "bind"}
  /\ Faults({1} \cup
       (IF ~Present(1) THEN {}
        ELSE IF rpc = "nodes" /\ Len(nodeIndex) < hdr.nodes
        THEN {hdr.nodeOff + Len(nodeIndex) + 1} \cap 1..fsz
        ELSE IF rpc = "children" /\ Len(childIndex) < hdr.children
        THEN {hdr.childOff + Len(childIndex) + 1} \cap 1..fsz ELSE {}))

(* No memory, no embedding context, or one whose vectors have another      *)
(* dimension than the ones in the file.                                    *)
OpenFails ==
  /\ rpc \in {"header", "nodes", "children"} /\ Continue("failed")
  /\ UNCHANGED <<nodeIndex, childIndex, bound, looked>>

-----------------------------------------------------------------------------
(* The rows behind node_meta or child_meta, and the emits one pass over    *)
(* them finds for a node, or for a child of a node.  There are two passes, *)
(* in kc_ipa_build_match_emits as in kc_ipa_scan_children: one counts, and *)
(* the other fills an array of that many emits.                            *)
RowsOf(kind) ==
  IF kind = "node" THEN {bound.nmetaOff + i : i \in 1..bound.nmetas}
                   ELSE {bound.cmetaOff + i : i \in 1..bound.cmetas}

EmitsFound(q) ==
  {i \in RowsOf(q.kind) :
     /\ disk[i].kind = q.kind /\ disk[i].id = q.id
     /\ disk[i].data[2] # Unkeyed
     /\ q.kind = "child" => disk[i].data[1] = q.parent}

(* Nothing is filled when nothing was counted. *)
LookUp(q) ==
  /\ rpc = "open" /\ \A i \in RowsOf(q.kind) : Present(i)
  /\ LET count == Cardinality(EmitsFound(q))
     IN  IF count = 0 THEN Continue("open") /\ UNCHANGED looked
         ELSE Continue("fill") /\ looked' = [q EXCEPT !.count = count]
  /\ UNCHANGED <<nodeIndex, childIndex, bound>>

LookUpNode ==
  \E row \in ToSet(nodeIndex) :
    LookUp([kind |-> "node", id |-> row.id, parent |-> None, count |-> 0])

LookUpChild ==
  \E nd \in ToSet(nodeIndex), ch \in ToSet(childIndex) :
    LookUp([kind |-> "child", id |-> ch.id, parent |-> nd.id, count |-> 0])

LookUpFills ==
  /\ rpc = "fill" /\ \A i \in RowsOf(looked.kind) : Present(i)
  /\ looked' = NoLookUp
  /\ IF Cardinality(EmitsFound(looked)) > looked.count
     THEN harm' = "overflow" /\ rpc' = "dead"
     ELSE UNCHANGED harm /\ rpc' = "open"
  /\ UNCHANGED <<buildVars, fileVars, fsz, nodeIndex, childIndex, bound,
                 source, disturbed>>

LookUpFaults ==
  \/ rpc = "open" /\ Faults(RowsOf("node") \cup RowsOf("child"))
  \/ rpc = "fill" /\ Faults(RowsOf(looked.kind))

(* kc_ipa_close after a success or a failure; a dead reader is replaced. *)
Close ==
  /\ rpc \in {"open", "refused", "failed", "dead"} /\ rpc' = "closed"
  /\ fsz' = 0 /\ nodeIndex' = <<>> /\ childIndex' = <<>> /\ bound' = Unbound
  /\ looked' = NoLookUp
  /\ source' = None /\ disturbed' = FALSE /\ harm' = "none"
  /\ UNCHANGED <<buildVars, fileVars>>

Writer ==
  \/ Create \/ CreateFails \/ WriteBlock \/ WriteReturns \/ WriteFails
  \/ Flushed \/ BuilderDies

Reader ==
  \/ OpenMap \/ OpenEmpty \/ CheckHeader \/ LoadNode \/ LoadChild \/ BindMetas
  \/ OpenFaults \/ OpenFails \/ LookUpNode \/ LookUpChild
  \/ LookUpFills \/ LookUpFaults \/ Close

Next ==
  \/ BuildStep /\ UNCHANGED <<fileVars, readerVars, ghosts>>
  \/ Writer \/ Reader

Spec == Init /\ [][Next]_vars

-----------------------------------------------------------------------------
(* What the manifest says, independently of the order of the file. *)
Described(nds) ==
  UNION {{<<nd.id, d>> : d \in ToSet(nd.descriptions)} : nd \in nds}
NodesOf(m)     == ToSet(m.nodes)
ChildrenOf(m)  == UNION {ToSet(nd.children) : nd \in NodesOf(m)}
Emitted(m, id) ==
  (UNION {ToSet(nd.emits) : nd \in {o \in NodesOf(m) : o.id = id}}) \ {Unkeyed}
ParentOf(m)    ==
  UNION {{<<nd.id, ch>> : ch \in ToSet(nd.children)} : nd \in NodesOf(m)}
ChildEmits(m)  ==
  UNION {{<<p[1], p[2].id, e>> : e \in ToSet(p[2].emits) \ {Unkeyed}} :
           p \in ParentOf(m)}

(* What a reader finds in the blocks, at the offsets it has. *)
Part(file, off, n) == ToSet(SubSeq(file, off + 1, off + n))
Labels(rows)       == {<<r.id, r.data>> : r \in rows}

Says(m, nodeRows, childRows, nmetas, cmetas) ==
  /\ Labels(nodeRows) = Described(NodesOf(m))
  /\ Labels(childRows) = Described(ChildrenOf(m))
  /\ \A nd \in NodesOf(m) :
       /\ {r.data[2] : r \in {q \in nmetas : q.id = nd.id}} \ {Unkeyed}
            = Emitted(m, nd.id)
       /\ (\E r \in nmetas : r.id = nd.id /\ r.data[1])
            <=> \E o \in NodesOf(m) : o.id = nd.id /\ o.children # <<>>
  /\ {<<r.data[1], r.id>> : r \in cmetas}
       = {<<p[1], p[2].id>> : p \in ParentOf(m)}
  /\ ChildEmits(m) = {<<r.data[1], r.id, r.data[2]>> :
                        r \in {q \in cmetas : q.data[2] # Unkeyed}}

(* The finished buffer says what the manifest says: read at the offsets    *)
(* and with the counts of its header, every description has the label of   *)
(* its node or child, a node and each child of it have their emits, except *)
(* the ones with an empty key, and the parts fill the file.                *)
RoundTrip ==
  bpc = "create" =>
    LET h == buf[1]
    IN  /\ Says(manifest, Part(buf, h.nodeOff, h.nodes),
                 Part(buf, h.childOff, h.children),
                 Part(buf, h.nmetaOff, h.nmetas),
                 Part(buf, h.cmetaOff, h.cmetas))
        /\ h.size = 2 + h.nodes + h.children + h.nmetas + h.cmetas

(* Whatever builds died, ran out of disk or are still writing: a schema    *)
(* that kc_ipa_open accepted is the whole of one manifest, as long as no   *)
(* build has truncated the file under its mapping.                         *)
OpenSeesBuilt ==
  rpc \in {"open", "fill"} /\ ~disturbed =>
    /\ source # None
    /\ Says(source, ToSet(nodeIndex), ToSet(childIndex),
            Part(disk, bound.nmetaOff, bound.nmetas),
            Part(disk, bound.cmetaOff, bound.cmetas))

(* kc_ipa_open refuses a file only when there is a reason: it was not      *)
(* written to the end, or a child that has descriptions has an empty id,   *)
(* which kc_ipa_validate_manifest lets through.  In particular a rebuild   *)
(* after a crash makes the file readable again.                            *)
RefusedOnlyFor ==
  rpc = "refused" /\ ~disturbed =>
    \/ source = None
    \/ fsz < 2 + Len(NodeDescriptions(source)) + Len(ChildDescriptions(source))
              + Len(NodeMetas(source)) + Len(ChildMetas(source))
    \/ \E ch \in ChildrenOf(source) :
         ch.id = EmptyId /\ ch.descriptions # <<>>

(* The reader is killed by a read behind the end of the file, or writes    *)
(* more emits than it has counted, only if a build truncated the file      *)
(* under its mapping.                                                      *)
HarmOnlyDisturbed == harm # "none" => disturbed

(* What ipa.h says kc_ipa_build returns: KC_IPA_EFORMAT on a schema error. *)
(* The code violates it for a child without an id: the manifest passes     *)
(* kc_ipa_validate_manifest, and strlen(NULL) ends the process.            *)
SchemaErrorReported == rc # "fault"

=============================================================================
