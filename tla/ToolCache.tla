----------------------------- MODULE ToolCache -----------------------------
(* The cache directory from which builds take their tools and distros: the   *)
(* archives of winpe/fetch_*.go, the payloads of unattend/download.go, the   *)
(* distro images and docker recipes of package wsl, and the WSL engine that  *)
(* is unpacked from its MSI. Processes share the directory; each may fail or *)
(* be killed at any step, and what is found the next time is what they left. *)
EXTENDS Naturals, FiniteSets

CONSTANTS
  Procs,        \* the builds
  Tools,        \* keys: an archive at a pinned URL
  Payloads,     \* keys: a pinned file for the answer volume
  Urls,         \* keys: a distro image at a URL
  Recipes,      \* keys: a distro built by docker, keyed by its content
  Engines,      \* keys: an MSI at a pinned URL, unpacked beside it
  Slug,         \* the image name of each recipe, which is its docker tag
  Apart,        \* do builds at the same time use different keys and tags?
  Size,         \* blocks of a file
  MaxVersion,   \* bound: what a URL or a recipe's base is published as
  MaxKeys,      \* bound: keys that are asked for; no step of one key reads another's
  MaxRequests,  \* bound: requests in all
  MaxFaults     \* bound: failures and kills

Marked == Payloads \cup Urls \cup Recipes
Keys == Tools \cup Marked \cup Engines
Tags == {Slug[r] : r \in Recipes}
None == 0

ASSUME CacheAssumption ==
  /\ IsFiniteSet(Procs)
  /\ Tools \cap (Marked \cup Engines) = {} /\ Engines \cap Marked = {}
  /\ Payloads \cap (Urls \cup Recipes) = {} /\ Urls \cap Recipes = {}
  /\ Slug \in [Recipes -> Tags]
  /\ Apart \in BOOLEAN
  /\ Size \in Nat \ {0} /\ MaxVersion \in Nat \ {0}
  /\ {MaxKeys, MaxRequests, MaxFaults} \subseteq Nat
  /\ None \notin Keys

VARIABLES
  pc, req,      \* of each process: where it is, and what it was asked for
  fd, off,      \* of each process: the file it writes, and how far it is
  src,          \* of each process: what it copies, or what docker created
  got,          \* of each process: what its build has read
  content,      \* the blocks of each file
  part, dest,   \* of each key: the file at its .part and at its cache path
  done,         \* the keys with a .done marker
  xpart, xdir,  \* of each engine: the unpacked tree, in the making and made
  tag,          \* what each docker tag names
  layers,       \* of each recipe: the version in docker's layer cache, or 0
  upstream,     \* the version that is published of each key
  asked,        \* the keys that were asked for
  requests, faults

procVars == <<pc, req, fd, off, src, got>>
paths == <<part, dest, done, xpart, xdir>>
cache == <<content, paths>>
docker == <<tag, layers>>
asks == <<asked, requests>>
vars == <<procVars, cache, docker, upstream, asks, faults>>

(* The files of a key: those at its two paths, and any that a process still  *)
(* writes though its name is gone. A process that creates one takes a free   *)
(* one; a file that nobody holds has no content.                             *)
Files == Keys \X (1..Cardinality(Procs) + 1)
NoFile == <<None, 0>>
Block(k, v) == [key |-> k, version |-> v]
Hole == Block(None, 0)
NoTree == [of |-> Hole, all |-> FALSE]
Blocks == {Block(k, v) : k \in Keys, v \in 1..MaxVersion}

Empty == [i \in 1..Size |-> Hole]
NoReq == [key |-> None, noCache |-> FALSE, since |-> 0]
Free(k) == {f \in {k} \X (1..Cardinality(Procs) + 1) : content[f] = Empty /\ part[k] # f
                                                        /\ \A p \in Procs : fd[p] # f}
(* The contents once the names and the writers are as in the next state.     *)
Collect(c) ==
  content' = [f \in Files |-> IF \/ f \in {part'[f[1]], dest'[f[1]]}
                                 \/ \E p \in Procs : fd'[p] = f
                              THEN c[f] ELSE Empty]
Reset(p) == /\ pc' = [pc EXCEPT ![p] = "idle"] /\ fd' = [fd EXCEPT ![p] = NoFile]
            /\ off' = [off EXCEPT ![p] = 0] /\ src' = [src EXCEPT ![p] = Hole]
            /\ req' = [req EXCEPT ![p] = NoReq] /\ got' = [got EXCEPT ![p] = Hole]
Goto(p, at) == pc' = [pc EXCEPT ![p] = at]
(* What should be there is not, for another build has taken it: an error.    *)
GiveUp(p) == Reset(p) /\ UNCHANGED <<paths, docker, upstream, asks, faults>> /\ Collect(content)
Key(p) == req[p].key

(* A file that was written to its end, from one source.                      *)
WholeOf(f, b) == \A i \in 1..Size : content[f][i] = b
Whole(f) == \E b \in Blocks : WholeOf(f, b)
Good(f, k) == \E b \in Blocks : b.key = k /\ WholeOf(f, b)

Stages == {"idle", "look", "docker", "create", "open", "write", "rename", "mark",
           "clear", "extract", "extracting", "replace", "install", "read", "got"}

TypeOK ==
  /\ pc \in [Procs -> Stages]
  /\ req \in [Procs -> [key : Keys \cup {None}, noCache : BOOLEAN, since : 0..MaxVersion]]
  /\ fd \in [Procs -> Files \cup {NoFile}] /\ off \in [Procs -> 0..Size]
  /\ src \in [Procs -> Blocks \cup {Hole}] /\ got \in [Procs -> Blocks \cup {Hole}]
  /\ content \in [Files -> [1..Size -> Blocks \cup {Hole}]]
  /\ part \in [Keys -> Files \cup {NoFile}] /\ dest \in [Keys -> Files \cup {NoFile}]
  /\ done \subseteq Marked
  /\ {xpart, xdir} \subseteq [Engines -> [of : Blocks \cup {Hole}, all : BOOLEAN]]
  /\ tag \in [Tags -> Blocks \cup {Hole}] /\ layers \in [Recipes -> 0..MaxVersion]
  /\ upstream \in [Keys -> 1..MaxVersion]
  /\ asked \subseteq Keys /\ requests \in 0..MaxRequests /\ faults \in 0..MaxFaults

Init ==
  /\ pc = [p \in Procs |-> "idle"]
  /\ req = [p \in Procs |-> NoReq]
  /\ fd = [p \in Procs |-> NoFile] /\ off = [p \in Procs |-> 0]
  /\ src = [p \in Procs |-> Hole] /\ got = [p \in Procs |-> Hole]
  /\ content = [f \in Files |-> Empty]
  /\ part = [k \in Keys |-> NoFile] /\ dest = [k \in Keys |-> NoFile] /\ done = {}
  /\ xpart = [e \in Engines |-> NoTree] /\ xdir = [e \in Engines |-> NoTree]
  /\ tag = [t \in Tags |-> Hole] /\ layers = [r \in Recipes |-> 0]
  /\ upstream = [k \in Keys |-> 1]
  /\ asked = {} /\ requests = 0 /\ faults = 0

-----------------------------------------------------------------------------
(* A build asks for a key. The archives do not know --no-cache.              *)

(* Payloads have a temporary file of each process; the other files at .part  *)
(* and docker's tags are shared.                                             *)
Conflict(j, k) == (j = k /\ k \notin Payloads) \/ (j \in Recipes /\ k \in Recipes /\ Slug[j] = Slug[k])

Request(p) ==
  /\ pc[p] = "idle" /\ requests < MaxRequests
  /\ \E k \in Keys, nc \in BOOLEAN :
       /\ Apart => \A q \in Procs \ {p} : pc[q] = "idle" \/ ~Conflict(Key(q), k)
       /\ nc => k \notin Tools
       /\ asked' = asked \cup {k} /\ Cardinality(asked') <= MaxKeys
       /\ req' = [req EXCEPT ![p] = [key |-> k, noCache |-> nc, since |-> upstream[k]]]
  /\ Goto(p, "look") /\ got' = [got EXCEPT ![p] = Hole] /\ requests' = requests + 1
  /\ UNCHANGED <<fd, off, src, cache, docker, upstream, faults>>

(* FetchPwshFiles and its kin: a file at the path is the archive.            *)
LookTool(p) ==
  /\ pc[p] = "look" /\ Key(p) \in Tools
  /\ Goto(p, IF dest[Key(p)] = NoFile THEN "open" ELSE "read")
  /\ UNCHANGED <<req, fd, off, src, got, cache, docker, upstream, asks, faults>>

\* Mutant of LookMarked: --no-cache is not passed on.
LookMarkedAlways(p) ==
  LET k == Key(p)
      hit == k \in done /\ dest[k] # NoFile
  IN  /\ pc[p] = "look" /\ k \in Marked
      /\ done' = IF hit THEN done ELSE done \ {k}
      /\ Goto(p, IF hit THEN "read" ELSE IF k \in Recipes THEN "docker" ELSE "open")
      /\ UNCHANGED <<req, fd, off, src, got, content, part, dest, xpart, xdir, docker, upstream,
                     asks, faults>>

(* BuildTarball, fetchTarball, downloadCached: a file counts with its marker *)
(* only, and a marker without its file is dropped.                           *)
LookMarked(p) ==
  LET k == Key(p)
      hit == ~req[p].noCache /\ k \in done /\ dest[k] # NoFile
  IN  /\ pc[p] = "look" /\ k \in Marked
      /\ done' = IF hit THEN done ELSE done \ {k}
      /\ Goto(p, IF hit THEN "read" ELSE IF k \in Recipes THEN "docker" ELSE "open")
      /\ UNCHANGED <<req, fd, off, src, got, content, part, dest, xpart, xdir, docker, upstream,
                     asks, faults>>

(* FetchWSL1Engine: a tree with all its files is reused, else the MSI is.    *)
LookEngine(p) ==
  LET k == Key(p)
      hit == ~req[p].noCache /\ xdir[k].all
  IN  /\ pc[p] = "look" /\ k \in Engines
      /\ dest' = [dest EXCEPT ![k] = IF req[p].noCache THEN NoFile ELSE @]
      /\ Goto(p, IF hit THEN "read" ELSE IF dest'[k] = NoFile THEN "open" ELSE "clear")
      /\ UNCHANGED <<req, fd, off, src, got, part, done, xpart, xdir, docker, upstream,
                     asks, faults>>
      /\ Collect(content)

-----------------------------------------------------------------------------
(* A recipe: docker builds the image under its tag and creates a container   *)
(* from whatever the tag names then. The build passes neither --no-cache nor *)
(* --pull: unless they were pruned, docker takes the layers it has.          *)

DockerBuild(p) ==
  LET k == Key(p) IN
  /\ pc[p] = "docker"
  /\ \E v \in {upstream[k]} \cup ({layers[k]} \ {0}) :
       tag' = [tag EXCEPT ![Slug[k]] = Block(k, v)] /\ layers' = [layers EXCEPT ![k] = v]
  /\ Goto(p, "create")
  /\ UNCHANGED <<req, fd, off, src, got, cache, upstream, asks, faults>>

DockerCreate(p) ==
  /\ pc[p] = "create" /\ src' = [src EXCEPT ![p] = tag[Slug[Key(p)]]]
  /\ Goto(p, "open")
  /\ UNCHANGED <<req, fd, off, got, cache, docker, upstream, asks, faults>>

\* Mutant of Open: the temporary file has one name for all.
OpenShared(p) ==
  LET k == Key(p)
      f == IF part[k] # NoFile THEN part[k] ELSE CHOOSE g \in Free(k) : TRUE
  IN  /\ pc[p] = "open"
      /\ part' = [part EXCEPT ![k] = f] /\ fd' = [fd EXCEPT ![p] = f]
      /\ content' = [content EXCEPT ![f] = Empty]
      /\ src' = [src EXCEPT ![p] = IF k \in Recipes THEN @ ELSE Block(k, upstream[k])]
      /\ Goto(p, "write")
      /\ UNCHANGED <<req, off, got, dest, done, xpart, xdir, docker, upstream, asks, faults>>

(* os.Create empties the file at .part, whoever else is writing it; for a    *)
(* payload, os.CreateTemp makes one.                                         *)
Open(p) ==
  LET k == Key(p)
      own == k \in Payloads
      f == IF ~own /\ part[k] # NoFile THEN part[k] ELSE CHOOSE g \in Free(k) : TRUE
  IN  /\ pc[p] = "open"
      /\ part' = IF own THEN part ELSE [part EXCEPT ![k] = f]
      /\ fd' = [fd EXCEPT ![p] = f]
      /\ content' = [content EXCEPT ![f] = Empty]
      /\ src' = [src EXCEPT ![p] = IF k \in Recipes THEN @ ELSE Block(k, upstream[k])]
      /\ Goto(p, "write")
      /\ UNCHANGED <<req, off, got, dest, done, xpart, xdir, docker, upstream, asks, faults>>

\* Mutant of Write: the loop ends one block late.
WritePastEnd(p) ==
  /\ pc[p] = "write"
  /\ content' = [content EXCEPT ![fd[p]] = [i \in 1..Size |-> IF i = off[p] + 1 THEN src[p] ELSE @[i]]]
  /\ off' = [off EXCEPT ![p] = @ + 1]
  /\ Goto(p, IF off[p] = Size THEN "rename" ELSE "write")
  /\ UNCHANGED <<req, fd, src, got, part, dest, done, xpart, xdir, docker, upstream, asks, faults>>

Write(p) ==
  /\ pc[p] = "write"
  /\ content' = [content EXCEPT ![fd[p]][off[p] + 1] = src[p]]
  /\ off' = [off EXCEPT ![p] = @ + 1]
  /\ Goto(p, IF off[p] + 1 = Size THEN "rename" ELSE "write")
  /\ UNCHANGED <<req, fd, src, got, part, dest, done, xpart, xdir, docker, upstream, asks, faults>>

\* Mutant of CopyFails: the error of the copy is not looked at.
CopyFailsUnseen(p) ==
  /\ pc[p] = "write" /\ faults < MaxFaults /\ faults' = faults + 1 /\ Goto(p, "rename")
  /\ UNCHANGED <<req, fd, off, src, got, cache, docker, upstream, asks>>

(* A copy that fails removes the .part, whoever's it is by then.             *)
CopyFails(p) ==
  /\ pc[p] = "write" /\ faults < MaxFaults /\ faults' = faults + 1
  /\ part' = [part EXCEPT ![Key(p)] = NoFile]
  /\ Reset(p) /\ UNCHANGED <<dest, done, xpart, xdir, docker, upstream, asks>>
  /\ Collect(content)

(* The rename moves the file that has the temporary name now.                *)
Rename(p) ==
  LET k == Key(p)
      f == IF k \in Payloads THEN fd[p] ELSE part[k]
  IN
  /\ pc[p] = "rename"
  /\ IF f = NoFile THEN GiveUp(p) ELSE
       /\ dest' = [dest EXCEPT ![k] = f] /\ part' = [part EXCEPT ![k] = NoFile]
       /\ fd' = [fd EXCEPT ![p] = NoFile] /\ off' = [off EXCEPT ![p] = 0]
       /\ Goto(p, IF k \in Tools THEN "read" ELSE IF k \in Engines THEN "clear" ELSE "mark")
       /\ UNCHANGED <<req, src, got, done, xpart, xdir, docker, upstream, asks, faults>>
       /\ Collect(content)

Mark(p) ==
  /\ pc[p] = "mark" /\ done' = done \cup {Key(p)} /\ Goto(p, "read")
  /\ UNCHANGED <<req, fd, off, src, got, content, part, dest, xpart, xdir, docker, upstream,
                 asks, faults>>

-----------------------------------------------------------------------------
(* The engine: unpacked beside its place, checked, and moved in.             *)

Tree(p, of, all) == xpart' = [xpart EXCEPT ![Key(p)] = [of |-> of, all |-> all]]

ClearExtract(p) ==
  /\ pc[p] = "clear" /\ xpart' = [xpart EXCEPT ![Key(p)] = NoTree] /\ Goto(p, "extract")
  /\ UNCHANGED <<req, fd, off, src, got, content, part, dest, done, xdir, docker, upstream,
                 asks, faults>>

(* msiextract reads the MSI while it writes the tree; if the MSI is gone or  *)
(* torn it fails, and the tree is removed.                                   *)
ExtractStarts(p) ==
  LET f == dest[Key(p)] IN
  /\ pc[p] = "extract" /\ Tree(p, IF f = NoFile THEN Hole ELSE content[f][1], FALSE)
  /\ Goto(p, "extracting")
  /\ UNCHANGED <<req, fd, off, src, got, content, part, dest, done, xdir, docker, upstream,
                 asks, faults>>

Extracted(p) ==
  LET k == Key(p)
      whole == dest[k] # NoFile /\ Whole(dest[k])
  IN  /\ pc[p] = "extracting"
      /\ xpart' = [xpart EXCEPT ![k] = IF whole THEN [@ EXCEPT !.all = TRUE] ELSE NoTree]
      /\ IF whole THEN Goto(p, "replace") /\ UNCHANGED <<req, fd, off, src, got>> ELSE Reset(p)
      /\ UNCHANGED <<content, part, dest, done, xdir, docker, upstream, asks, faults>>

\* Mutant of RemoveOldTree: the old tree stays.
RemoveOldTreeNot(p) ==
  /\ pc[p] = "replace" /\ Goto(p, "install")
  /\ UNCHANGED <<req, fd, off, src, got, cache, docker, upstream, asks, faults>>

RemoveOldTree(p) ==
  /\ pc[p] = "replace" /\ xdir' = [xdir EXCEPT ![Key(p)] = NoTree] /\ Goto(p, "install")
  /\ UNCHANGED <<req, fd, off, src, got, content, part, dest, done, xpart, docker, upstream,
                 asks, faults>>

(* A directory is not renamed over one that is there.                        *)
Install(p) ==
  LET k == Key(p)
      free == xdir[k] = NoTree /\ xpart[k] # NoTree
  IN  /\ pc[p] = "install"
      /\ xdir' = [xdir EXCEPT ![k] = IF free THEN xpart[k] ELSE @]
      /\ xpart' = [xpart EXCEPT ![k] = NoTree]
      /\ IF free THEN Goto(p, "read") /\ UNCHANGED <<req, fd, off, src, got>> ELSE Reset(p)
      /\ UNCHANGED <<content, part, dest, done, docker, upstream, asks, faults>>

-----------------------------------------------------------------------------
(* The build reads the file, or the tree, at the path it was given.          *)

Read(p) ==
  LET k == Key(p)
      there == IF k \in Engines THEN xdir[k].all ELSE dest[k] # NoFile
      found == IF k \in Engines THEN xdir[k].of
               ELSE IF Whole(dest[k]) THEN content[dest[k]][1] ELSE Hole
  IN  /\ pc[p] = "read"
      /\ IF ~there THEN GiveUp(p) ELSE
           /\ got' = [got EXCEPT ![p] = found] /\ Goto(p, "got")
           /\ UNCHANGED <<req, fd, off, src, cache, docker, upstream, asks, faults>>

Finish(p) ==
  /\ pc[p] = "got" /\ Reset(p)
  /\ UNCHANGED <<cache, docker, upstream, asks, faults>>

(* The process is killed: nothing is cleaned up.                             *)
Crash(p) ==
  /\ pc[p] # "idle" /\ faults < MaxFaults /\ faults' = faults + 1
  /\ Reset(p) /\ UNCHANGED <<paths, docker, upstream, asks>> /\ Collect(content)

Publish(k) ==
  /\ k \in Urls \cup Recipes /\ upstream[k] < MaxVersion
  /\ upstream' = [upstream EXCEPT ![k] = @ + 1]
  /\ UNCHANGED <<procVars, cache, docker, asks, faults>>

Step(p) ==
  \/ LookTool(p) \/ LookMarked(p) \/ LookEngine(p) \/ DockerBuild(p) \/ DockerCreate(p)
  \/ Open(p) \/ Write(p) \/ Rename(p) \/ Mark(p)
  \/ ClearExtract(p) \/ ExtractStarts(p) \/ Extracted(p) \/ RemoveOldTree(p) \/ Install(p)
  \/ Read(p) \/ Finish(p)

Next ==
  \/ \E p \in Procs : Request(p) \/ Step(p) \/ CopyFails(p) \/ Crash(p)
  \/ \E k \in Keys : Publish(k)

Spec == Init /\ [][Next]_vars

(* A process that runs goes on; nothing makes users ask, or versions appear. *)
FairSpec == Spec /\ \A p \in Procs : WF_vars(Step(p))

-----------------------------------------------------------------------------
(* A marker vouches for the file beside it: whole, and of its own key. So    *)
(* does a complete engine tree, which has no marker.                         *)
MarkerVouches ==
  /\ \A k \in done : dest[k] # NoFile => Good(dest[k], k)
  /\ \A e \in Engines : xdir[e].all => xdir[e].of.key = e

(* What a build has read is whole and is what it asked for.                  *)
GotIsRight == \A p \in Procs : pc[p] = "got" => got[p].key = Key(p)

(* With --no-cache a build never reads an image that was at its URL only     *)
(* before it asked.                                                          *)
FreshDownload ==
  \A p \in Procs : pc[p] = "got" /\ req[p].noCache /\ Key(p) \in Urls
                   => got[p].version >= req[p].since

(* Whatever the failures have left in the cache, a request that meets no     *)
(* further one is served.                                                    *)
Recovers == \A p \in Procs : (pc[p] = "look" /\ faults = MaxFaults) ~> (pc[p] = "got")

=============================================================================
