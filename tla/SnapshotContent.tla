--------------------------- MODULE SnapshotContent ---------------------------
(***************************************************************************)
(* SnapshotStore and SnapshotText together: what a snapshot in the store   *)
(* contains.  A snapshot is a tree of source files packed by the spool, as *)
(* the pipeline does; its objects are the ones the store writes, shares    *)
(* between snapshots and deletes.                                          *)
(***************************************************************************)
EXTENDS SnapshotStore, SnapshotText
LOCAL INSTANCE SequencesExt
LOCAL INSTANCE FiniteSetsExt

CONSTANTS
  TreeOf,       \* the source files of each snapshot, as the inventory has them
  StorePack,    \* the pack options of the project
  StoreLimits,  \* the read limits it is read with
  ObjectPathOf, \* the path of each content object
  Samples,      \* bound: the trees the two packers are compared on,
  PackOptions,  \* the pack options they are given
  ReadLimits    \* and the limits they are read back with

(* Pack options that validateSourceTextPackOptions accepts.                *)
PackValid(pack) ==
  /\ {pack.maxObjectCount, pack.maxObjectBytesTotal} \subseteq Nat
  /\ 0 < pack.targetObjectBytes /\ pack.targetObjectBytes <= pack.maxObjectBytes

(* The files of a tree as they are staged, and the package of a tree under *)
(* some order of the content keys.                                         *)
StagedTree(tree) ==
  [i \in DOMAIN tree |-> Staged(tree[i].path, tree[i].group, tree[i].raw)]
SomeOrder(tree) == CHOOSE order \in Orders(StagedTree(tree), 2) : TRUE
PackageOf(s) == SpoolPack(StagedTree(TreeOf[s]), SomeOrder(TreeOf[s]), 2, StorePack)
ManifestIn(s) == ManifestOf(StagedTree(TreeOf[s]), PackageOf(s), 2)

ASSUME ContentAssumption ==
  /\ \A pack \in PackOptions \cup {StorePack} : PackValid(pack)
  /\ \A tree \in Samples \cup {TreeOf[s] : s \in Snaps} :
       \A i \in DOMAIN tree : ~Binary(tree[i].raw)
  /\ \A s \in Snaps :
       /\ ~PackageOf(s).failed
       /\ ToSet(PackageOf(s).objects) = {ObjectPathOf[o] : o \in ObjectsOf[s]}

(* The object directory of a target root that holds some of the objects.   *)
DiskWith(paths) == [path \in paths |-> path[2]]

------------------------------------------------------------------------------
(* The two packers are one: for the same files and options, in whatever    *)
(* order the inventory adds the files and the content keys sort, the       *)
(* memory packer and the spool both refuse, or make the same objects and   *)
(* the same manifest; and that is one whose coverage and integrity         *)
(* createTextSnapshotManifest accepts (packing.ts, node/text-spool.ts; the *)
(* spool's offsets are counted along, the packer's come from the finished  *)
(* object).                                                                *)
Same(sources, memory, spool, version) ==
  /\ memory.failed = spool.failed
  /\ ~spool.failed =>
       LET manifest == ManifestOf(sources, spool, version)
       IN  /\ memory.objects = spool.objects
           /\ ManifestOf(sources, memory, version) = manifest
           /\ ManifestValid(spool, manifest)
           /\ ManifestAccepts(sources, memory, version)
SameInOrders(sources, version, pack) ==
  \A order \in Orders(sources, version) :
    Same(sources, MemoryPack(sources, order, version, pack),
         SpoolPack(sources, order, version, pack), version)
Agree(tree, version, pack) == SameInOrders(StagedTree(tree), version, pack)

SamplesAgree ==
  \A tree \in Samples, version \in {1, 2}, pack \in PackOptions :
    Agree(tree, version, pack)
PackersAgree == entry \in Snaps => SamplesAgree

------------------------------------------------------------------------------
(* Manifests with one number of one segment off by one.                    *)
Numbers == {"bodyOffset", "bodyLength", "sourceOffset", "index", "count",
            "startLine", "endLine"}
Off(file, k, number, by) == [file EXCEPT !.segments[k][number] = @ + by]
Altered(manifest) ==
  UNION {{[manifest EXCEPT !.files = (@ \ {file}) \cup {Off(file, k, number, by)}] :
            k \in DOMAIN file.segments, number \in Numbers, by \in {-1, 1}} :
         file \in manifest.files}

LineRanges(manifest) ==
  {<<file.path, [k \in DOMAIN file.segments |->
                   <<file.segments[k].startLine, file.segments[k].endLine>>]>> :
     file \in manifest.files}

(* A segment of the file begins with U+FEFF.                               *)
Marked(file, kept) ==
  \E k \in DOMAIN file.segments :
    LET body == TextOf(Body(file.segments[k], kept))
    IN  body # <<>> /\ Head(body) = Mark

(* What verification accepts can be read: a package of version 2 that was  *)
(* packed verifies; no locator that is off by one does, unless it still    *)
(* locates the same text; and every file of a manifest that verifies reads *)
(* as the normalised source within the limits, and is refused beyond them. *)
(* Only a file one of whose segments begins with U+FEFF verifies and is    *)
(* never read: decodeBody drops the mark that the hashes cover             *)
(* (node/text-verification.ts, text-reader.ts).  An object that is missing *)
(* is noticed by both.                                                     *)
ReadsAs(file, manifest, kept, limits) ==
  TextRead(file, manifest, kept, limits) =
    IF OverLimit(file, manifest, limits) THEN Refused("limit")
    ELSE IF Marked(file, kept) THEN Refused("integrity")
    ELSE Text(file.normalized)

Readable(manifest, kept) ==
  /\ TextVerified(manifest, kept)
  /\ \A other \in {manifest} \cup Altered(manifest) :
       TextVerified(other, kept) =>
         /\ LineRanges(other) = LineRanges(manifest)
         /\ \A file \in other.files, limits \in ReadLimits :
              ReadsAs(file, other, kept, limits)
  /\ \A lost \in DOMAIN kept :
       LET rest == [path \in DOMAIN kept \ {lost} |-> kept[path]]
       IN  /\ ~TextVerified(manifest, rest)
           /\ \A file \in manifest.files, limits \in ReadLimits :
                lost \in file.objectPaths =>
                  TextRead(file, manifest, rest, limits)[1] = "refused"

ReadableIfPacked(sources, spool) ==
  ~spool.failed =>
    Readable(ManifestOf(sources, spool, 2), DiskWith(ToSet(spool.objects)))
ReadableInOrders(sources, pack) ==
  \A order \in Orders(sources, 2) :
    ReadableIfPacked(sources, SpoolPack(sources, order, 2, pack))
PackedReadable(tree, pack) == ReadableInOrders(StagedTree(tree), pack)
SamplesReadable ==
  \A tree \in Samples, pack \in PackOptions : PackedReadable(tree, pack)
VerifiedReads == entry \in Snaps => SamplesReadable

------------------------------------------------------------------------------
(* A snapshot unpacks to the whole of its source text while these objects  *)
(* exist.                                                                  *)
Unpacks(s, here) ==
  LET manifest == ManifestIn(s)
  IN  Unpacked(manifest, DiskWith({ObjectPathOf[o] : o \in here}), StoreLimits)
        = [complete |-> TRUE,
           written |-> {<<file.path, file.normalized>> : file \in manifest.files}]
UnpackTable ==
  {<<s, here, Unpacks(s, here)>> : s \in Snaps, here \in SUBSET Objects}

(* Every snapshot whose manifest is in the store unpacks to the whole of   *)
(* its source text, whatever other snapshots are published and pruned and  *)
(* wherever an operation is cut short: the objects it shares with them are *)
(* there, and its locators find its text in them (node/read.ts).           *)
SnapshotsUnpack ==
  \A s \in Snaps : "SNAPSHOT" \in files[s] => <<s, objects, TRUE>> \in UnpackTable

==============================================================================
