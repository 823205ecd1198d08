-------------------------- MODULE PolicyRepository --------------------------
(***************************************************************************)
(* The Node half of @openge/forge-repository-policy: a call resolves a     *)
(* request and is handed the sources of the selected policies, which it    *)
(* reads itself (resolvePolicyBundle), or through a prepared session that  *)
(* shares its reads and keeps what it read; another kind of call checks    *)
(* the whole repository. Somebody edits the files meanwhile.               *)
(*                                                                         *)
(* A file's content is the versions of its two halves. An editor writes    *)
(* one after the other and never returns to a version, and a read sees one *)
(* after the other too. A file that is gone stands for one that cannot be  *)
(* read, is no text, or lies outside the root.                             *)
(***************************************************************************)
EXTENDS PolicyResolution

CONSTANTS
  Facts,       \* ids of facts
  PathEvidence, \* items of path evidence
  Callers,     \* calls of the API
  Sources,     \* paths of policy sources, as ranks in their order
  Places,      \* files they may resolve to
  Requests,    \* sets of requests a call may ask one of, by name
  Cases,       \* repositories to look at: manifest, files, place, edits, and
               \* the calls and the preload that are made
  HalfSize,    \* bytes of a half, by version
  SourceBytes, \* limits.sourceBytes
  TotalBytes   \* limits.totalSourceBytes

Versions == DOMAIN HalfSize
Contents == Versions \X Versions
Gone == <<>>
Size(content) ==
  IF content = Gone THEN 0 ELSE HalfSize[content[1]] + HalfSize[content[2]]
SumOf(sizes) == MapThenSumSet(LAMBDA s : sizes[s], DOMAIN sizes)

ASSUME RanksAssumption ==
  /\ Sources \cap Callers = {} /\ IsFiniteSet(Sources)
  /\ \A some \in SUBSET Sources : some # {} => Min(some) \in some
ASSUME RequestsAssumption ==
  \A asks \in DOMAIN Requests : \A r \in Requests[asks] :
    DOMAIN r = {"context", "paths", "complete", "facts", "evidence"}
ASSUME SizesAssumption ==
  /\ Versions \subseteq Nat
  /\ HalfSize \in [Versions -> Nat]
ASSUME LimitsAssumption == SourceBytes \in Nat /\ TotalBytes \in Nat
(* Policies are ranks, and nobody is in the middle of writing a file when  *)
(* it all begins.                                                          *)
ManifestFields ==
  {"policies", "facts", "source", "when", "requires", "conflicts", "documents"}

ASSUME CasesAssumption ==
  \A repository \in Cases :
    /\ repository.manifest = [k \in ManifestFields |-> repository.manifest[k]]
    /\ repository.manifest.policies \subseteq Nat
    /\ IsFiniteSet(repository.manifest.policies)
    /\ \A id \in repository.manifest.policies :
         repository.manifest.source[id] \in Sources
    /\ repository.manifest.documents \subseteq Sources
    /\ \A c \in Callers : repository.calls[c].asks \in DOMAIN Requests
    /\ repository.files \in [Places -> {Gone} \cup {<<v, v>> : v \in Versions}]
    /\ repository.place \in [Sources -> Places]

(* A session has one read of a source under way, a call one of its own.    *)
Readers == Sources \cup Callers

VARIABLES
  manifest,   \* the manifest on disk
  calls,      \* what kind of call each is, and what it may ask
  preload,    \* how a session is prepared, if one is
  files,      \* [Places -> Contents or Gone]
  place,      \* [Sources -> Places]
  edits,      \* changes that may still come
  held,       \* history: the contents each source ever had
  session,    \* the prepared session
  cache,      \* what it keeps of each source
  reads,      \* reads under way; those of sources are its pending
  request,    \* what each call asks
  resolution, \* how that was resolved
  call        \* how far the call is

disk == <<files, place, edits, held>>
asked == <<request, resolution>>
fixed == <<manifest, calls, preload>>
vars == <<fixed, disk, session, cache, reads, asked, call>>

Mode(c) == calls[c].mode
SourcesOf(ids) == {manifest.source[id] : id \in ids}

(* A check reads every source and every document it is to check, the others*)
(* the sources of the selected policies.                                   *)
SelectedBy(c, res) ==
  IF Mode(c) = "check" THEN SourcesOf(manifest.policies) \cup manifest.documents
  ELSE SourcesOf(res.required \cup res.candidate)
Selected(c) == SelectedBy(c, resolution[c])

Unseen == [place |-> "none", size |-> 0]
NoRead == [stage |-> "none", place |-> "none", size |-> 0,
           first |-> Gone, same |-> TRUE]
NoRequest == [context |-> "none"]
Unresolvable == [invalidResolution EXCEPT !.state = "none"]

Init ==
  /\ \E repository \in Cases :
       /\ manifest = repository.manifest
       /\ calls = repository.calls /\ preload = repository.preload
       /\ files = repository.files /\ place = repository.place
       /\ edits = repository.edits
  /\ held = [s \in Sources |-> {files[place[s]]}]
  /\ session = [pc |-> "unprepared", todo |-> {}, failed |-> FALSE,
                looked |-> [s \in Sources |-> Unseen]]
  /\ cache = [s \in Sources |-> Gone]
  /\ reads = [x \in Readers |-> NoRead]
  /\ request = [c \in Callers |-> NoRequest]
  /\ resolution = [c \in Callers |-> Unresolvable]
  /\ call = [c \in Callers |->
       [pc |-> "idle", todo |-> {}, total |-> 0, failed |-> FALSE,
        looked |-> [s \in Sources |-> Unseen],
        docs |-> [s \in Sources |-> Gone]]]

(***************************************************************************)
(* Reading: inspectRepositoryFile and readPolicySource.                    *)
(***************************************************************************)
Inspected(s) ==
  /\ files[place[s]] # Gone
  /\ Size(files[place[s]]) <= SourceBytes

Look(s) == [place |-> place[s], size |-> Size(files[place[s]])]

Begun(look) == [NoRead EXCEPT !.stage = "head", !.place = look.place,
                              !.size = look.size]

SourceOf(x) == IF x \in Sources THEN x ELSE Min(call[x].todo)

Awaits(c, s) ==
  /\ Mode(c) = "session" /\ call[c].pc = "await"
  /\ Min(call[c].todo) = s

(* Mutant: what was counted before the reads is not counted again.         *)
HandedUncounted(c, s, content) ==
  LET rest == call[c].todo \ {s}
      failed == call[c].failed \/ content = Gone
  IN [call[c] EXCEPT
        !.docs[s] = content, !.todo = rest, !.failed = failed,
        !.pc = IF rest # {} THEN "load"
               ELSE IF failed THEN "failed" ELSE "complete"]

(* A call is handed a source, or told that it cannot be read, and goes on. *)
(* Only a session counts again what it hands out.                          *)
Handed(c, s, content) ==
  LET rest == call[c].todo \ {s}
      total == call[c].total + Size(content)
      failed == call[c].failed \/ content = Gone
      over == Mode(c) = "session" /\ total > TotalBytes
  IN [call[c] EXCEPT
        !.docs[s] = content, !.todo = rest, !.total = total,
        !.failed = failed,
        !.pc = IF over THEN "failed"
               ELSE IF rest # {} THEN "load"
               ELSE IF failed THEN "failed" ELSE "complete"]

(* The last awaited source of a preload opens the session, or refuses it.  *)
Preloaded(s, content) ==
  LET rest == session.todo \ {s}
      failed == session.failed \/ content = Gone
  IN [session EXCEPT
        !.todo = rest, !.failed = failed,
        !.pc = IF rest # {} THEN @ ELSE IF failed THEN "refused" ELSE "open"]

(* Mutant: the source is handed out but not kept.                          *)
EndReadUnkept(x, content) ==
  /\ reads' = [reads EXCEPT ![x] = NoRead]
  /\ UNCHANGED cache
  /\ \/ /\ x \in Sources
        /\ session' = IF session.pc = "reading" THEN Preloaded(x, content)
                      ELSE session
        /\ call' = [c \in Callers |->
             IF Awaits(c, x) THEN Handed(c, x, content) ELSE call[c]]
     \/ /\ x \in Callers
        /\ call' = [call EXCEPT ![x] = Handed(x, SourceOf(x), content)]
        /\ UNCHANGED session

(* A session's read ends for everybody who awaits it, and is kept if it    *)
(* succeeded.                                                              *)
EndRead(x, content) ==
  /\ reads' = [reads EXCEPT ![x] = NoRead]
  /\ \/ /\ x \in Sources
        /\ cache' = [cache EXCEPT ![x] = IF content = Gone THEN @ ELSE content]
        /\ session' = IF session.pc = "reading" THEN Preloaded(x, content)
                      ELSE session
        /\ call' = [c \in Callers |->
             IF Awaits(c, x) THEN Handed(c, x, content) ELSE call[c]]
     \/ /\ x \in Callers
        /\ call' = [call EXCEPT ![x] = Handed(x, SourceOf(x), content)]
        /\ UNCHANGED <<session, cache>>

Advance(x, stage, first, same) ==
  /\ reads' = [reads EXCEPT ![x] = [@ EXCEPT !.stage = stage, !.first = first,
                                             !.same = same]]
  /\ UNCHANGED <<session, cache, call>>

ReadHead(x) ==
  LET file == files[reads[x].place] IN
  /\ reads[x].stage = "head"
  /\ IF file = Gone THEN EndRead(x, Gone)
     ELSE Advance(x, "tail", <<file[1]>>, TRUE)

ReadTail(x) ==
  LET file == files[reads[x].place]
      first == Append(reads[x].first, file[2])
  IN
  /\ reads[x].stage = "tail"
  /\ IF file # Gone /\ Size(first) = reads[x].size /\ Size(first) <= SourceBytes
     THEN Advance(x, "recheck", first, TRUE)
     ELSE EndRead(x, Gone)

Recheck(x) ==
  LET s == SourceOf(x) IN
  /\ reads[x].stage = "recheck"
  /\ IF files[place[s]] # Gone /\ place[s] = reads[x].place
     THEN Advance(x, "headAgain", reads[x].first, TRUE)
     ELSE EndRead(x, Gone)

ReadHeadAgain(x) ==
  LET file == files[reads[x].place] IN
  /\ reads[x].stage = "headAgain"
  /\ IF file = Gone THEN EndRead(x, Gone)
     ELSE Advance(x, "tailAgain", reads[x].first, file[1] = reads[x].first[1])

ReadTailAgain(x) ==
  LET file == files[reads[x].place] IN
  /\ reads[x].stage = "tailAgain"
  /\ IF file # Gone /\ reads[x].same /\ file[2] = reads[x].first[2]
     THEN EndRead(x, reads[x].first)
     ELSE EndRead(x, Gone)

Read(x) ==
  /\ \/ ReadHead(x) \/ ReadTail(x) \/ Recheck(x)
     \/ ReadHeadAgain(x) \/ ReadTailAgain(x)
  /\ UNCHANGED <<fixed, disk, asked>>

(***************************************************************************)
(* preparePolicyRepository.                                                *)
(***************************************************************************)
Prepare ==
  /\ session.pc = "unprepared" /\ preload # "no"
  /\ session' = [session EXCEPT
       !.todo = IF preload = "sources"
                THEN SourcesOf(manifest.policies) ELSE {},
       !.pc = IF ~validatePolicyManifest(manifest) THEN "refused"
              ELSE IF preload = "sources" THEN "inspecting"
              ELSE "open"]
  /\ UNCHANGED <<fixed, disk, cache, reads, asked, call>>

(* The sources are inspected side by side, then read side by side.         *)
PreloadInspect(s) ==
  LET rest == session.todo \ {s}
      failed == session.failed \/ ~Inspected(s)
      looked == [session.looked EXCEPT ![s] = IF Inspected(s) THEN Look(s) ELSE @]
      all == SourcesOf(manifest.policies)
      over == SumOf([t \in all |-> looked[t].size]) > TotalBytes
  IN
  /\ session.pc = "inspecting" /\ s \in session.todo
  /\ session' = [pc |-> IF rest # {} THEN "inspecting"
                         ELSE IF failed \/ over THEN "refused"
                         ELSE "reading",
                  todo |-> IF rest # {} THEN rest ELSE all,
                  failed |-> failed, looked |-> looked]
  /\ reads' = IF session'.pc = "reading"
              THEN [x \in Readers |-> IF x \in all THEN Begun(looked[x]) ELSE reads[x]]
              ELSE reads
  /\ UNCHANGED <<fixed, disk, cache, asked, call>>

(***************************************************************************)
(* Calls: resolvePolicyBundle, the session's resolve, and                  *)
(* checkPolicyRepository.                                                  *)
(***************************************************************************)
Entered(c, refused, sources) ==
  call' = [call EXCEPT ![c] = [@ EXCEPT
             !.todo = sources,
             !.pc = IF refused THEN "failed"
                    ELSE IF sources = {} THEN "complete"
                    ELSE "inspect"]]

Resolve(c) ==
  /\ call[c].pc = "idle" /\ Mode(c) \in {"bundle", "session"}
  /\ Mode(c) = "session" => session.pc = "open"
  /\ \E r \in Requests[calls[c].asks] :
       LET res == resolvePolicies(manifest, r) IN
       /\ request' = [request EXCEPT ![c] = r]
       /\ resolution' = [resolution EXCEPT ![c] = res]
       /\ Entered(c, res.state = "invalid", SelectedBy(c, res))
  /\ UNCHANGED <<fixed, disk, session, cache, reads>>

(* The half of a check that looks at sources: it is complete when it finds *)
(* nothing to complain of. The other, which looks for scripts in           *)
(* package.json files that it alone reads, is left out.                    *)
Check(c) ==
  /\ call[c].pc = "idle" /\ Mode(c) = "check"
  /\ Entered(c, ~validatePolicyManifest(manifest), Selected(c))
  /\ UNCHANGED <<fixed, disk, session, cache, reads, asked>>

(* The sources are counted before any is read; what the session has is     *)
(* counted as it is there. A check looks at all of them first.             *)
Inspect(c) ==
  LET s == Min(call[c].todo)
      rest == call[c].todo \ {s}
      cached == Mode(c) = "session" /\ cache[s] # Gone
      ok == cached \/ Inspected(s)
      look == IF cached \/ ~ok THEN Unseen ELSE Look(s)
      total == call[c].total + IF cached THEN Size(cache[s]) ELSE look.size
      failed == call[c].failed \/ ~ok
      over == total > TotalBytes \/ (~ok /\ Mode(c) # "check")
  IN
  /\ call[c].pc = "inspect"
  /\ call' = [call EXCEPT ![c] = [@ EXCEPT
       !.looked[s] = look, !.failed = failed,
       !.todo = IF rest # {} THEN rest ELSE Selected(c),
       !.total = IF rest # {} THEN total ELSE 0,
       !.pc = IF over THEN "failed"
              ELSE IF rest # {} THEN "inspect"
              ELSE IF failed THEN "failed" ELSE "load"]]
  /\ UNCHANGED <<fixed, disk, session, cache, reads, asked>>

(* loadCachedSource, and the plain read of the other calls.                *)
Load(c) ==
  LET s == Min(call[c].todo)
      x == IF Mode(c) = "session" THEN s ELSE c
  IN
  /\ call[c].pc = "load"
  /\ \/ /\ Mode(c) = "session" /\ cache[s] # Gone
        /\ call' = [call EXCEPT ![c] = Handed(c, s, cache[s])]
        /\ UNCHANGED reads
     \/ /\ Mode(c) = "session" => cache[s] = Gone
        /\ call' = [call EXCEPT ![c] = [@ EXCEPT !.pc = "await"]]
        /\ reads' = IF reads[x].stage # "none" THEN reads
                    ELSE [reads EXCEPT ![x] = Begun(call[c].looked[s])]
  /\ UNCHANGED <<fixed, disk, session, cache, asked>>

(***************************************************************************)
(* The editor of the files.                                                *)
(***************************************************************************)
Changed ==
  /\ held' = [s \in Sources |-> held[s] \cup {files'[place'[s]]}]
  /\ UNCHANGED <<fixed, session, cache, reads, asked, call>>

WriteHead(f) ==
  /\ edits > 0 /\ edits' = edits - 1
  /\ files[f] # Gone /\ files[f][1] = files[f][2] /\ files[f][1] + 1 \in Versions
  /\ files' = [files EXCEPT ![f][1] = @ + 1]
  /\ UNCHANGED place
  /\ Changed

WriteTail(f) ==
  /\ files[f] # Gone /\ files[f][1] # files[f][2]
  /\ files' = [files EXCEPT ![f][2] = files[f][1]]
  /\ UNCHANGED <<place, edits>>
  /\ Changed

Unlink(f) ==
  /\ edits > 0 /\ edits' = edits - 1
  /\ files[f] # Gone
  /\ files' = [files EXCEPT ![f] = Gone]
  /\ UNCHANGED place
  /\ Changed

Relink(s, f) ==
  /\ edits > 0 /\ edits' = edits - 1
  /\ place[s] # f
  /\ place' = [place EXCEPT ![s] = f]
  /\ UNCHANGED files
  /\ Changed

Next ==
  \/ Prepare
  \/ \E s \in Sources : PreloadInspect(s)
  \/ \E c \in Callers : Resolve(c) \/ Check(c) \/ Inspect(c) \/ Load(c)
  \/ \E x \in Readers : Read(x)
  \/ \E f \in Places : WriteHead(f) \/ WriteTail(f) \/ Unlink(f)
  \/ \E s \in Sources, f \in Places : Relink(s, f)

Spec == Init /\ [][Next]_vars

-----------------------------------------------------------------------------
Stages == {"none", "head", "tail", "recheck", "headAgain", "tailAgain"}

TypeOK ==
  /\ files \in [Places -> Contents \cup {Gone}]
  /\ place \in [Sources -> Places]
  /\ edits \in Nat
  /\ held \in [Sources -> SUBSET (Contents \cup {Gone})]
  /\ session.pc \in {"unprepared", "inspecting", "reading", "open", "refused"}
  /\ session.todo \subseteq Sources
  /\ cache \in [Sources -> Contents \cup {Gone}]
  /\ \A x \in Readers : reads[x].stage \in Stages
  /\ \A c \in Callers :
       /\ call[c].pc \in {"idle", "inspect", "load", "await", "complete", "failed"}
       /\ call[c].todo \subseteq Sources
       /\ call[c].docs \in [Sources -> Contents \cup {Gone}]

(***************************************************************************)
(* What a resolution means. A world is what there is to find out: the      *)
(* whole scope and the value of every fact. A request is true to the       *)
(* worlds that have its paths, and the values of the facts that are        *)
(* verified by evidence of its own context.                                *)
(***************************************************************************)
Worlds == [paths : SUBSET PathEvidence, facts : [Facts -> BOOLEAN]]

Holds(condition, world) ==
  \/ condition.always
  \/ \E clause \in condition.anyOf :
       /\ \A selector \in clause.path : world.paths \cap selector # {}
       /\ \A p \in clause.facts : world.facts[p.id] = p.equals

Applying(world) ==
  addClosure(manifest,
    {id \in manifest.policies : Holds(manifest.when[id], world)})

Backed(r, id) ==
  /\ r.facts[id].basis = "verified" /\ r.facts[id].evidence # {}
  /\ \A e \in r.facts[id].evidence :
       e \in DOMAIN r.evidence /\ r.evidence[e] = r.context

TrueTo(r, world) ==
  /\ r.paths \subseteq world.paths
  /\ r.complete => r.paths = world.paths
  /\ \A id \in DOMAIN r.facts :
       Backed(r, id) => world.facts[id] = (r.facts[id].state = "true")

Resolved(c) == resolution[c].state \in {"ready", "needs-context", "conflict"}

(* Whatever is still unknown turns out to be, the required policies apply, *)
(* nothing but them and the candidates does, the rest is excluded, and a   *)
(* conflict is reported exactly when it is certain, and possible ones are  *)
(* never passed over as ready (resolve.ts:206-345).                        *)
Sound(res, world) ==
  /\ res.required \subseteq Applying(world)
  /\ Applying(world) \subseteq res.required \cup res.candidate
  /\ res.excluded = manifest.policies \ (res.required \cup res.candidate)
  /\ res.state = "ready" => ~ConflictsIn(manifest, Applying(world))
  /\ res.state = "conflict" => ConflictsIn(manifest, Applying(world))

ResolutionSound ==
  \A c \in Callers : Resolved(c) =>
    \A world \in Worlds :
      TrueTo(request[c], world) => Sound(resolution[c], world)

(* Finding out exactly what a resolution says is unresolved, with evidence *)
(* of the request's context, is enough to be done: the next resolution     *)
(* asks for nothing more (resolve.ts:264-282).                             *)
Answered(r, res, world) ==
  [r EXCEPT
     !.paths = IF res.scope THEN world.paths ELSE @,
     !.complete = @ \/ res.scope,
     !.evidence = [e \in DOMAIN @ \cup {"answer"} |->
                     IF e = "answer" THEN r.context ELSE @[e]],
     !.facts = [id \in DOMAIN @ \cup res.facts |->
                  IF id \in res.facts
                  THEN [state |-> IF world.facts[id] THEN "true" ELSE "false",
                        basis |-> "verified", context |-> r.context,
                        evidence |-> {"answer"}]
                  ELSE @[id]]]

AskedIsEnough ==
  \A c \in Callers : Resolved(c) =>
    \A world \in Worlds :
      TrueTo(request[c], world) =>
        LET answered == Answered(request[c], resolution[c], world) IN
        /\ validateResolveRequest(answered)
        /\ ResolutionState(manifest, answered) \in {"ready", "conflict"}

(* Required and candidate policies are given in full, each after those of  *)
(* them it requires (relations.ts:7-56).                                   *)
RequirementsFirst ==
  \A c \in Callers : Resolved(c) =>
    \A ids \in {resolution[c].required, resolution[c].candidate} :
      LET order == Ordered(manifest, ids) IN
      /\ ToSet(order) = ids
      /\ \A i, j \in DOMAIN order :
           order[j] \in manifest.requires[order[i]] => j < i

(* What a resolution answers is all the caller needs to go on.             *)
ResolutionUsable == AskedIsEnough /\ RequirementsFirst

(* A complete bundle, and a check that found nothing, had every source     *)
(* selected and no other, each with a content the source really had; a     *)
(* preloaded session has them all.                                         *)
SourcesDelivered ==
  /\ \A c \in Callers : call[c].pc = "complete" =>
       \A s \in Sources : call[c].docs[s] \in
         IF s \in Selected(c) THEN held[s] \ {Gone} ELSE {Gone}
  /\ session.pc = "open" /\ preload = "sources" =>
       \A s \in SourcesOf(manifest.policies) : cache[s] \in held[s] \ {Gone}

Bytes(contents) == SumOf([s \in DOMAIN contents |-> Size(contents[s])])

WithinLimits ==
  /\ \A c \in Callers : call[c].pc = "complete" =>
       Bytes(call[c].docs) <= TotalBytes
  /\ session.pc = "open" /\ preload = "sources" => Bytes(cache) <= TotalBytes

(* What is delivered is what was asked for, as it was on disk, within the  *)
(* limits (prepared.ts:113-246, bundle.ts:120-219, check.ts:59-115).       *)
DeliveryHonest == SourcesDelivered /\ WithinLimits

(* However its calls and reads interleave, a session hands out one version *)
(* of every source (README.md:43 "A prepared session does not ... refresh  *)
(* cached content").                                                       *)
OneVersion ==
  \A c, d \in Callers, s \in Sources :
    /\ Mode(c) = "session" /\ Mode(d) = "session"
    /\ call[c].docs[s] # Gone /\ call[d].docs[s] # Gone
    => call[c].docs[s] = call[d].docs[s]
=============================================================================
