---------------------------- MODULE SnapshotText ----------------------------
(***************************************************************************)
(* The text of a snapshot in @openge/forge-source-snapshot: how a source   *)
(* file is normalised, cut into segments and packed into content objects,  *)
(* by buildSourceTextPackage in memory and by the text spool on disk; how  *)
(* a manifest locates it again; how it is verified and read back.          *)
(*                                                                         *)
(* A text is a sequence of characters and an object a sequence of bytes:   *)
(* the bytes of its characters, and bytes of metadata.  A hash is what it  *)
(* is the hash of.  The metadata of a section has a fixed length, and its  *)
(* lines are one record.                                                   *)
(***************************************************************************)
EXTENDS Integers, Sequences, FiniteSets
LOCAL INSTANCE SequencesExt
LOCAL INSTANCE FiniteSetsExt

CONSTANTS
  Width,       \* the characters, and how many bytes of UTF-8 each takes
  Newline, Return, Null,
  Mark,        \* U+FEFF, which begins a text as its byte order mark
  HeaderBytes, \* the length of the header of an object,
  PrefixBytes, \* of the metadata before the body of a section
  FenceBytes,  \* and of the fence after it
  Overhead     \* 1536, what splitSourceTextFile sets aside of an object

ASSUME TextAssumption ==
  /\ {Newline, Return, Null, Mark} \subseteq DOMAIN Width
  /\ Width \in [DOMAIN Width -> Nat \ {0}] /\ Width[Newline] = 1

------------------------------------------------------------------------------
(* The fold of a sequence from the left, as a recursive function: TLC      *)
(* evaluates the constants that are built from it once.                    *)
Fold(op(_, _), base, seq) ==
  LET f[n \in 0..Len(seq)] == IF n = 0 THEN base ELSE op(f[n - 1], seq[n])
  IN  f[Len(seq)]
Total(sizes) == Fold(+, 0, sizes)

EndsWith(text, c) == text # <<>> /\ Last(text) = c

CharBytes(c) == [k \in 1..Width[c] |-> <<"text", c, k>>]
Encoded(text) == FlattenSeq([i \in DOMAIN text |-> CharBytes(text[i])])
ByteLength(text) == Total([i \in DOMAIN text |-> Width[text[i]]])

(* TextDecoder drops a byte order mark at the start of what it is given.   *)
Decoded(text) ==
  IF text # <<>> /\ Head(text) = Mark THEN Tail(text) ELSE text

(* The characters of bytes, if they are the bytes of a text.               *)
TextOf(bytes) ==
  LET firsts == SelectSeq(bytes, LAMBDA b : b[1] = "text" /\ b[3] = 1)
  IN  [i \in DOMAIN firsts |-> firsts[i][2]]
ValidUtf8(bytes) == Encoded(TextOf(bytes)) = bytes

(* decodeSourceText: a mark, of UTF-8 or UTF-16, is cut off, and the       *)
(* decoder drops another; without one, a null character makes the source   *)
(* binary, which is no text.                                               *)
Binary(raw) ==
  raw # <<>> /\ Head(raw) # Mark /\ \E i \in DOMAIN raw : raw[i] = Null
DecodedSource(raw) ==
  IF raw # <<>> /\ Head(raw) = Mark THEN Decoded(Tail(raw)) ELSE raw

Positions(text, At(_)) == SelectSeq([i \in DOMAIN text |-> i], At)

(* \r\n and a single \r become \n.                                         *)
Normalized(text) ==
  LET used == Positions(text, LAMBDA i :
                          text[i] = Newline => i = 1 \/ text[i - 1] # Return)
  IN  [i \in DOMAIN used |-> IF text[used[i]] = Return THEN Newline
                             ELSE text[used[i]]]

Newlines(text) == Cardinality({i \in DOMAIN text : text[i] = Newline})
LineCount(text) ==
  IF text = <<>> THEN 0
  ELSE Newlines(text) + (IF EndsWith(text, Newline) THEN 0 ELSE 1)

(* stageSourceTextFile.                                                    *)
Staged(path, group, raw) ==
  LET text == Normalized(DecodedSource(raw))
  IN  [path |-> path, group |-> group, raw |-> raw, text |-> text,
       lineCount |-> LineCount(text), byteLength |-> ByteLength(text),
       finalNewline |-> EndsWith(text, Newline)]

------------------------------------------------------------------------------
(* splitLines: every line with its newline.                                *)
Lines(text) ==
  LET ends == Positions(text, LAMBDA i : text[i] = Newline \/ i = Len(text))
  IN  [n \in DOMAIN ends |->
         SubSeq(text, IF n = 1 THEN 1 ELSE ends[n - 1] + 1, ends[n])]

(* Puts x into the last of several sequences, or, if it does not fit there *)
(* any more, into a new one.                                               *)
PutInto(parts, x, fits) ==
  IF parts # <<>> /\ fits THEN ReplaceAt(parts, Len(parts),
                                         Append(Last(parts), x))
  ELSE Append(parts, <<x>>)

(* splitUtf8: a line that is too long, in chunks of whole characters.      *)
Chunks(line, max) ==
  Fold(LAMBDA chunks, c :
         PutInto(chunks, c, /\ chunks # <<>>
                            /\ ByteLength(Last(chunks)) + Width[c] <= max),
       <<>>, line)

MaxTextBytes(max) == IF max - Overhead > 1 THEN max - Overhead ELSE 1

(* PACK_OBJECT_TOO_LARGE: a character of a line that must be cut does not  *)
(* fit into a chunk.                                                       *)
CannotSplit(text, max) ==
  \E line \in ToSet(Lines(text)) :
    /\ ByteLength(line) > MaxTextBytes(max)
    /\ \E i \in DOMAIN line : Width[line[i]] > MaxTextBytes(max)

(* The body of splitSourceTextFile: whole lines as long as they fit; a     *)
(* line that is too long for one piece has pieces of its own.  A piece is  *)
(* its first and last line and its text, open if more lines may follow.    *)
Piece(first, last, text, open) ==
  [startLine |-> first, endLine |-> last, text |-> text, open |-> open]

ChunkPieces(chunks, n) ==
  [k \in DOMAIN chunks |-> Piece(n, n, chunks[k], FALSE)]
PutLine(pieces, n, line, max) ==
  LET joins == /\ pieces # <<>> /\ Last(pieces).open
               /\ ByteLength(Last(pieces).text) + ByteLength(line) <= max
  IN  IF ByteLength(line) > max
      THEN pieces \o ChunkPieces(Chunks(line, max), n)
      ELSE IF joins
      THEN ReplaceAt(pieces, Len(pieces),
                     Piece(Last(pieces).startLine, n,
                           Last(pieces).text \o line, TRUE))
      ELSE Append(pieces, Piece(n, n, line, TRUE))

PutLines(lines, max) ==
  IF lines = <<>> THEN <<Piece(0, 0, <<>>, FALSE)>>
  ELSE Fold(LAMBDA pieces, n : PutLine(pieces, n, lines[n], max),
            <<>>, [n \in DOMAIN lines |-> n])
Pieces(text, max) == PutLines(Lines(text), MaxTextBytes(max))

BytesBefore(pieces, k) ==
  Total([i \in 1..(k - 1) |-> ByteLength(pieces[i].text)])
SegmentsOf(file, pieces) ==
  [k \in DOMAIN pieces |->
     [file |-> file, startLine |-> pieces[k].startLine,
      endLine |-> pieces[k].endLine, text |-> pieces[k].text,
      index |-> k, count |-> Len(pieces),
      sourceOffset |-> BytesBefore(pieces, k)]]
Segments(file, max) == SegmentsOf(file, Pieces(file.text, max))

------------------------------------------------------------------------------
(* The key under which equal contents are packed once: in version 2 files  *)
(* of a group with the same bytes share it, in version 1 none do.          *)
ContentKey(file, version) ==
  IF version = 2 THEN <<file.group, file.raw>> ELSE <<file.group, file.path>>

(* The metadata of a section: the path, or in version 2 only what          *)
(* identifies the content.                                                 *)
Metadata(segment, version) ==
  <<ContentKey(segment.file, version), segment.file.raw,
    segment.startLine, segment.endLine, segment.index, segment.count>>

(* renderSourceTextObjectSection.                                          *)
Closing(text) ==
  IF text = <<>> \/ EndsWith(text, Newline) THEN <<>> ELSE CharBytes(Newline)
MetaBytes(part, metadata, n) == [k \in 1..n |-> <<part, metadata, k>>]
Section(segment, version) ==
  LET metadata == Metadata(segment, version)
  IN  MetaBytes("prefix", metadata, PrefixBytes) \o Encoded(segment.text)
        \o Closing(segment.text) \o MetaBytes("fence", metadata, FenceBytes)
SectionBytes(segment) ==
  PrefixBytes + ByteLength(segment.text) + Len(Closing(segment.text))
    + FenceBytes

Header(group) == MetaBytes("header", group, HeaderBytes)

(* renderSourceTextObject, and how long it is.                             *)
Separator == CharBytes(Newline)
ObjectContent(segments, version) ==
  FlattenSeq([k \in DOMAIN segments |->
    (IF k = 1 THEN Header(segments[1].file.group) ELSE Separator)
      \o Section(segments[k], version)])
ObjectBytes(segments) ==
  HeaderBytes + Len(segments) - 1
    + Total([k \in DOMAIN segments |-> SectionBytes(segments[k])])

------------------------------------------------------------------------------
(* The files of a package are a sequence, in the order of the inventory;   *)
(* the keys of their contents are sorted by group, and within one by path  *)
(* or, in version 2, by hash: in any order.                                *)
Keys(sources, version) == {ContentKey(sources[i], version) : i \in DOMAIN sources}
Orders(sources, version) ==
  {order \in SetToSeqs(Keys(sources, version)) :
     \A i, j \in DOMAIN order : i < j =>
       \/ order[i][1] < order[j][1]
       \/ order[i][1] = order[j][1] /\ (version = 1 => order[i][2] < order[j][2])}

ByPath(sources) == SortSeq(sources, LAMBDA a, b : a.path < b.path)

(* The first file with a content stands for all of them.                   *)
BlockFile(sources, key, version) ==
  Head(SelectSeq(sources, LAMBDA f : ContentKey(f, version) = key))
AllSegments(sources, order, version, max) ==
  FlattenSeq([n \in DOMAIN order |->
                Segments(BlockFile(sources, order[n], version), max)])

ObjectPath(segments, version) ==
  <<segments[1].file.group, ObjectContent(segments, version)>>
Locator(object, segment, bodyOffset) ==
  [object |-> object, bodyOffset |-> bodyOffset,
   bodyLength |-> ByteLength(segment.text),
   sourceOffset |-> segment.sourceOffset, index |-> segment.index,
   count |-> segment.count, startLine |-> segment.startLine,
   endLine |-> segment.endLine]

OverBudget(sizes, pack) ==
  Len(sizes) > pack.maxObjectCount \/ Total(sizes) > pack.maxObjectBytesTotal

------------------------------------------------------------------------------
(* buildSourceTextPackage: the segments of each group, put into an object  *)
(* until it would outgrow its target.                                      *)
PackGroup(segments, aim) ==
  Fold(LAMBDA built, segment :
         PutInto(built, segment,
                 /\ built # <<>>
                 /\ ObjectBytes(Append(Last(built), segment)) <= aim),
       <<>>, segments)

MemoryObjects(segments, aim) ==
  LET groups == SetToSortSeq({segments[i].file.group : i \in DOMAIN segments}, <)
  IN  FlattenSeq([g \in DOMAIN groups |->
        PackGroup(SelectSeq(segments,
                            LAMBDA s : s.file.group = groups[g]), aim)])

(* The offsets come from the finished object.                              *)
MemoryOffset(object, k) ==
  ObjectBytes(SubSeq(object, 1, k - 1)) + 1 + PrefixBytes

LocatedSegment(segment, path, bodyOffset, version) ==
  [key |-> ContentKey(segment.file, version), text |-> segment.text,
   locator |-> Locator(path, segment, bodyOffset)]
MemoryLocated(object, path, version) ==
  [k \in DOMAIN object |->
     LocatedSegment(object[k], path, MemoryOffset(object, k), version)]

Unsplittable(sources, pack) ==
  \E i \in DOMAIN sources : CannotSplit(sources[i].text, pack.maxObjectBytes)

MemoryPackage(sources, built, paths, version, pack) ==
  LET sizes == [n \in DOMAIN built |-> ObjectBytes(built[n])]
  IN  [failed |-> \/ Unsplittable(sources, pack)
                  \/ \E n \in DOMAIN sizes : sizes[n] > pack.maxObjectBytes
                  \/ OverBudget(sizes, pack),
       objects |-> paths,
       located |-> FlattenSeq([n \in DOMAIN built |->
                     MemoryLocated(built[n], paths[n], version)])]
ObjectPaths(built, version) ==
  [n \in DOMAIN built |-> ObjectPath(built[n], version)]
MemoryBuilt(sources, built, version, pack) ==
  MemoryPackage(sources, built, ObjectPaths(built, version), version, pack)
MemoryPack(sources, order, version, pack) ==
  MemoryBuilt(sources,
              MemoryObjects(AllSegments(ByPath(sources), order, version,
                                        pack.maxObjectBytes),
                            pack.targetObjectBytes), version, pack)

------------------------------------------------------------------------------
(* The text spool: one object is open at a time; byteLength and the        *)
(* offsets of its segments are counted along.                              *)
Opened == [segments |-> <<>>, bytes |-> HeaderBytes, offsets |-> <<>>]
Written(spool, path, version) ==
  [spool EXCEPT
     !.current = Opened,
     !.objects = Append(@, path),
     !.sizes = Append(@, Len(path[2])),
     !.located = @ \o
       [k \in DOMAIN spool.current.segments |->
          LocatedSegment(spool.current.segments[k], path,
                         spool.current.offsets[k], version)]]
Flushed(spool, version) ==
  IF spool.current.segments = <<>> THEN spool
  ELSE Written(spool, ObjectPath(spool.current.segments, version), version)

(* Mutant: sections are counted as if nothing stood between them.          *)
NoSeparatorBytes(object) == 0

SeparatorBytes(object) == IF object.segments = <<>> THEN 0 ELSE 1

PutSection(room, segment, base, bytes) ==
  [room EXCEPT
     !.current = [segments |-> Append(@.segments, segment),
                  bytes |-> base + bytes,
                  offsets |-> Append(@.offsets, base + PrefixBytes)],
     !.largest = IF base + bytes > @ THEN base + bytes ELSE @]
PutSegment(room, segment) ==
  PutSection(room, segment, room.current.bytes + SeparatorBytes(room.current),
             SectionBytes(segment))

AppendSegment(spool, segment, version, aim) ==
  LET open == spool.current
      other == /\ open.segments # <<>>
               /\ Last(open.segments).file.group # segment.file.group
      full == /\ open.segments # <<>>
              /\ open.bytes + 1 + SectionBytes(segment) > aim
  IN  PutSegment(IF other \/ full THEN Flushed(spool, version) ELSE spool, segment)

Spooled(segments, version, aim) ==
  Flushed(Fold(LAMBDA spool, segment : AppendSegment(spool, segment, version, aim),
               [current |-> Opened, objects |-> <<>>, sizes |-> <<>>,
                located |-> <<>>, largest |-> 0], segments), version)

SpoolPackage(sources, spool, pack) ==
  [failed |-> \/ Unsplittable(sources, pack)
              \/ spool.largest > pack.maxObjectBytes
              \/ \E n \in DOMAIN spool.sizes :
                    OverBudget(SubSeq(spool.sizes, 1, n), pack),
   objects |-> spool.objects, located |-> spool.located]
SpoolPack(sources, order, version, pack) ==
  SpoolPackage(sources,
               Spooled(AllSegments(sources, order, version, pack.maxObjectBytes),
                       version, pack.targetObjectBytes), pack)

------------------------------------------------------------------------------
(* The manifest of a package: the objects with their sizes, the files with *)
(* their locators.  Version 1 locates no body within an object.            *)
LocatorsOf(packed, key) ==
  SortSeq(SelectSeq(packed.located, LAMBDA l : l.key = key),
          LAMBDA a, b : a.locator.index < b.locator.index)

WithoutOffsets(locator) ==
  [object |-> locator.object, index |-> locator.index, count |-> locator.count,
   startLine |-> locator.startLine, endLine |-> locator.endLine]

FileEntry(file, locators, version) ==
  [path |-> file.path, version |-> version, raw |-> file.raw,
   lineCount |-> file.lineCount, normalized |-> file.text,
   byteLength |-> file.byteLength, finalNewline |-> file.finalNewline,
   objectPaths |-> {locators[k].object : k \in DOMAIN locators},
   segments |-> IF version = 2 THEN locators
                ELSE [k \in DOMAIN locators |-> WithoutOffsets(locators[k])]]
OnlyLocators(located) == [k \in DOMAIN located |-> located[k].locator]
ManifestFile(file, packed, version) ==
  FileEntry(file, OnlyLocators(LocatorsOf(packed, ContentKey(file, version))),
            version)

ManifestOf(sources, packed, version) ==
  [objects |-> {[path |-> o, bytes |-> Len(o[2])] : o \in ToSet(packed.objects)},
   files |-> {ManifestFile(sources[i], packed, version) : i \in DOMAIN sources}]

(* createSnapshotManifest refuses two objects of one path, and a file      *)
(* without an object.                                                      *)
ManifestValid(packed, manifest) ==
  /\ Len(packed.objects) = Cardinality(ToSet(packed.objects))
  /\ \A file \in manifest.files :
       file.objectPaths # {} /\ file.objectPaths \subseteq ToSet(packed.objects)

(* Mutant: a segment may follow on either line.                            *)
FollowsEither(startLine, endLine, ended) == startLine \in {endLine, endLine + 1}

(* A segment begins on the line after the one before it, if that one ended *)
(* its line, and otherwise on the same.                                    *)
Follows(startLine, endLine, ended) ==
  startLine = IF ended THEN endLine + 1 ELSE endLine

(* assertCoverage and reconstructPackedSourceText.                         *)
Covered(file, packed, version) ==
  LET located == LocatorsOf(packed, ContentKey(file, version))
      at(k) == located[k].locator
  IN  /\ located # <<>>
      /\ \A k \in DOMAIN located :
           /\ at(k).index = k /\ at(k).startLine <= at(k).endLine
           /\ at(k).object \in ToSet(packed.objects)
           /\ k > 1 => Follows(at(k).startLine, at(k - 1).endLine,
                                EndsWith(located[k - 1].text, Newline))
      /\ Len(located) = at(1).count
      /\ IF file.lineCount = 0
         THEN at(1).startLine = 0 /\ at(1).endLine = 0 /\ located[1].text = <<>>
         ELSE at(1).startLine = 1 /\ at(Len(located)).endLine = file.lineCount

Reconstructed(file, packed, version) ==
  LET located == LocatorsOf(packed, ContentKey(file, version))
  IN  FlattenSeq([k \in DOMAIN located |-> located[k].text])

(* createTextSnapshotManifest accepts the package.                         *)
ManifestAccepts(sources, packed, version) ==
  \A i \in DOMAIN sources :
    LET text == Reconstructed(sources[i], packed, version)
    IN  /\ Covered(sources[i], packed, version)
        /\ LineCount(text) = sources[i].lineCount
        /\ version = 2 => text = sources[i].text

------------------------------------------------------------------------------
(* parseSourceTextDetails: what a manifest must say of the segments of a   *)
(* file, in version 2.                                                     *)
Parsed(file) ==
  /\ file.segments # <<>>
  /\ \A k \in DOMAIN file.segments :
       LET s == file.segments[k]
       IN  /\ {s.bodyOffset, s.bodyLength, s.sourceOffset, s.startLine, s.endLine}
                \subseteq Nat
           /\ 1 <= s.index /\ s.index <= s.count /\ s.startLine <= s.endLine

InOrder(file) == SortSeq(file.segments, LAMBDA a, b : a.index < b.index)

(* The checks of the locators that verification and reading share.         *)
Located(file, manifest) ==
  LET segments == InOrder(file)
      lengths == [k \in DOMAIN segments |-> segments[k].bodyLength]
  IN  \A k \in DOMAIN segments :
        /\ segments[k].index = k /\ segments[k].count = Len(segments)
        /\ segments[k].sourceOffset = Total(SubSeq(lengths, 1, k - 1))
        /\ \E object \in manifest.objects : object.path = segments[k].object

BodySum(file) ==
  Total([k \in DOMAIN file.segments |-> file.segments[k].bodyLength])

(* kept: what is stored at the paths of objects.  An object is sound if it *)
(* is the one whose hash its path and the manifest name.                   *)
Sound(object, kept) ==
  /\ object.path \in DOMAIN kept
  /\ kept[object.path] = object.path[2] /\ Len(kept[object.path]) = object.bytes

InObject(locator, kept) ==
  locator.bodyOffset + locator.bodyLength <= Len(kept[locator.object])
Body(locator, kept) ==
  SubSeq(kept[locator.object], locator.bodyOffset + 1,
         locator.bodyOffset + locator.bodyLength)

(* planFile and verifyFileBodies.                                          *)
Planned(file, manifest) ==
  /\ file.version = 2 /\ Parsed(file) /\ Located(file, manifest)
  /\ BodySum(file) = file.byteLength
  /\ {file.segments[k].object : k \in DOMAIN file.segments} = file.objectPaths

BodiesVerified(file, kept) ==
  LET segments == InOrder(file)
      body(k) == Body(segments[k], kept)
      all == FlattenSeq([k \in DOMAIN segments |-> body(k)])
      text == TextOf(all)
  IN  /\ \A k \in DOMAIN segments :
           /\ InObject(segments[k], kept) /\ ValidUtf8(body(k))
           /\ k > 1 => Follows(segments[k].startLine, segments[k - 1].endLine,
                                EndsWith(TextOf(body(k - 1)), Newline))
      /\ IF file.lineCount = 0
         THEN segments[1].startLine = 0 /\ segments[1].endLine = 0 /\ body(1) = <<>>
         ELSE segments[1].startLine = 1 /\ Last(segments).endLine = file.lineCount
      /\ all = Encoded(file.normalized) /\ Len(all) = file.byteLength
      /\ LineCount(text) = file.lineCount
      /\ EndsWith(text, Newline) = file.finalNewline

(* verifyPublishedSnapshotText.                                            *)
TextVerified(manifest, kept) ==
  /\ \A file \in manifest.files : Planned(file, manifest)
  /\ \A object \in manifest.objects : Sound(object, kept)
  /\ \A file \in manifest.files : BodiesVerified(file, kept)

------------------------------------------------------------------------------
(* readPublishedSourceSnapshotText, with readSnapshotText, which repeats   *)
(* its checks: a text, or what refuses it.  An object that is missing, too *)
(* long or not the one the manifest names is one refusal.                  *)
Text(text) == <<"text", text>>
Refused(by) == <<"refused", by>>

Needed(file, manifest) ==
  {object \in manifest.objects : object.path \in file.objectPaths}
OverLimit(file, manifest, limits) ==
  LET needed == SetToSeq(Needed(file, manifest))
      sizes == [n \in DOMAIN needed |-> needed[n].bytes]
  IN  \/ file.byteLength > limits.maxFileBytes
      \/ \E n \in DOMAIN sizes : sizes[n] > limits.maxObjectBytes
      \/ Total(sizes) > limits.maxTotalBytes

(* decodeBody gives every body to the decoder by itself.                   *)
Joined(file, kept) ==
  LET segments == InOrder(file)
  IN  FlattenSeq([k \in DOMAIN segments |->
                    Decoded(TextOf(Body(segments[k], kept)))])

Intact(file, kept) ==
  LET text == Joined(file, kept)
  IN  /\ \A k \in DOMAIN file.segments : ValidUtf8(Body(file.segments[k], kept))
      /\ BodySum(file) = file.byteLength
      /\ ByteLength(text) = file.byteLength /\ text = file.normalized
      /\ EndsWith(text, Newline) = file.finalNewline
      /\ LineCount(text) = file.lineCount

TextRead(file, manifest, kept, limits) ==
  IF file.version # 2 THEN Refused("version")
  ELSE IF ~Parsed(file) THEN Refused("details")
  ELSE IF OverLimit(file, manifest, limits) THEN Refused("limit")
  ELSE IF \E object \in Needed(file, manifest) : ~Sound(object, kept)
  THEN Refused("object")
  ELSE IF \/ ~Located(file, manifest)
          \/ \E k \in DOMAIN file.segments :
               \/ file.segments[k].object \notin file.objectPaths
               \/ ~InObject(file.segments[k], kept)
  THEN Refused("details")
  ELSE IF ~Intact(file, kept) THEN Refused("integrity")
  ELSE Text(Joined(file, kept))

(* unpackPublishedSourceSnapshot writes the files in the order of their    *)
(* paths until one cannot be read.                                         *)
Unpacked(manifest, kept, limits) ==
  LET read(file) == TextRead(file, manifest, kept, limits)
      unread == {file \in manifest.files : read(file)[1] = "refused"}
      written == {file \in manifest.files :
                    \A other \in unread : file.path < other.path}
  IN  [complete |-> unread = {},
       written |-> {<<file.path, read(file)[2]>> : file \in written}]

==============================================================================
