--------------------------- MODULE MCSnapshotStore ---------------------------
(* SnapshotStore on a small store: snapshots share objects, so that pruning *)
(* one must spare what another still lists.  The second snapshot has the    *)
(* file of the first and another one of a later group.                      *)
EXTENDS SnapshotContent, TLC

Wide == "wide"
MCWidth ==
  "a" :> 1 @@ Wide :> 2 @@ "nl" :> 1 @@ "cr" :> 1 @@ "nul" :> 1 @@ "mark" :> 3

File(path, group, raw) == [path |-> path, group |-> group, raw |-> raw]
First == File(1, 1, <<"a", "cr", "nl", Wide, "a">>)
Second == File(2, 2, <<"nl", "a", "nl">>)
MCTreeOf == 1 :> <<First>> @@ 2 :> <<Second, First>>

Packs(aim, max, count) ==
  [targetObjectBytes |-> aim, maxObjectBytes |-> max,
   maxObjectCount |-> count, maxObjectBytesTotal |-> 60]
MCStorePack == Packs(24, 24, 9)
MCPackOptions ==
  {Packs(24, 24, 9), Packs(12, 24, 9), Packs(7, 7, 9), Packs(22, 22, 1)}

(* One object for each file of the two trees.                               *)
ObjectOf(s, group) ==
  CHOOSE path \in {PackageOf(s).objects[n] : n \in DOMAIN PackageOf(s).objects} : path[1] = group
MCObjectPathOf == 1 :> ObjectOf(1, 1) @@ 2 :> ObjectOf(2, 2)
MCObjectsOf2 == 1 :> {1} @@ 2 :> {1, 2}

(* Every text of up to three characters, and some pairs of files.           *)
Chars == {"a", Wide, "nl", "cr", "mark"}
Texts == UNION {[1..n -> Chars] : n \in 0..3}
Some == {<<>>, <<"a">>, <<"a", "cr", "nl", Wide>>, <<"nl", "mark", "a">>,
         <<Wide, Wide, "a", Wide, "nl">>, <<"mark", "mark", "mark", "a">>}
MCSamples ==
  {<<File(1, 1, raw)>> : raw \in Texts}
    \cup {<<File(2, group, raw), File(1, 1, other)>> :
            group \in {1, 2}, raw \in Some, other \in Some}

Limits(bytes) ==
  [maxObjectBytes |-> bytes, maxFileBytes |-> 9, maxTotalBytes |-> 2 * bytes]
MCStoreLimits == Limits(30)
MCReadLimits == {Limits(9), Limits(60)}

==============================================================================
