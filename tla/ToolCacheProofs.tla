-------------------------- MODULE ToolCacheProofs --------------------------
(* Proofs about ToolCache, for any number of builds, keys of each kind,      *)
(* blocks, versions, failures and kills. TypeOK holds whoever shares what;   *)
(* the rest holds when builds at the same time use keys and docker tags of   *)
(* their own, payloads excepted, whose temporary files have their own names. *)
EXTENDS ToolCache, FiniteSetTheorems, TLAPS

-----------------------------------------------------------------------------
(* A free file for whoever opens one.                                        *)

Held(f) == f \in {part[f[1]], dest[f[1]]} \/ \E p \in Procs : fd[p] = f

\* Files that nobody holds have no content.
Collected == \A f \in Files : content[f] # Empty => Held(f)

LEMMA FileShape ==
  \A f : f \in Files <=> \E k \in Keys, i \in 1..Cardinality(Procs) + 1 : f = <<k, i>>
BY DEF Files

\* Of |Procs| + 1 files of a key one is free: the builds other than the one
\* that opens it hold at most one each, and the cache path names one.
LEMMA FreeExists ==
  ASSUME NEW k \in Keys, NEW p \in Procs, fd[p] = NoFile, part[k] = NoFile, Collected
  PROVE  Free(k) # {}
<1> DEFINE N == Cardinality(Procs)
           holders(i) == {q \in Procs \ {p} : fd[q] = <<k, i>>}
           holder == [i \in 1..N + 1 |-> IF holders(i) = {} THEN p ELSE CHOOSE q \in holders(i) : TRUE]
<1> SUFFICES ASSUME Free(k) = {} PROVE FALSE
  OBVIOUS
<1>1. IsFiniteSet(Procs) /\ N \in Nat /\ k # None
  BY CacheAssumption, FS_CardinalityType
<1>2. IsFiniteSet(1..N + 1) /\ Cardinality(1..N + 1) = N + 1
  BY <1>1, FS_Interval
<1>3. ASSUME NEW i \in 1..N + 1 PROVE holders(i) # {} \/ dest[k] = <<k, i>>
  <2>1. <<k, i>> \in Files /\ <<k, i>> \in {k} \X (1..N + 1)
    BY FileShape
  <2>2. part[k] # <<k, i>> /\ fd[p] # <<k, i>>
    BY <1>1 DEF NoFile
  <2>3. content[<<k, i>>] # Empty \/ \E q \in Procs : fd[q] = <<k, i>>
    BY <2>1, <2>2 DEF Free
  <2>4. dest[k] = <<k, i>> \/ \E q \in Procs : fd[q] = <<k, i>>
    BY <2>1, <2>2, <2>3 DEF Collected, Held
  <2> QED
    BY <2>2, <2>4
<1>4. holder \in [1..N + 1 -> Procs]
  OBVIOUS
<1>5. PICK i \in 1..N + 1, j \in 1..N + 1 : i # j /\ holder[i] = holder[j]
  <2> HIDE DEF holder
  <2> QED
    BY <1>1, <1>2, <1>4, FS_PigeonHole
<1>6. ASSUME NEW h \in 1..N + 1, holders(h) # {} PROVE holder[h] # p /\ fd[holder[h]] = <<k, h>>
  <2>1. holder[h] \in holders(h)
    BY <1>6
  <2> QED
    BY <2>1
<1>7. holders(i) = {} /\ holders(j) = {}
  BY <1>5, <1>6
<1> QED
  BY <1>3, <1>5, <1>7

-----------------------------------------------------------------------------
(* Types, with what each place of a build says of its key and its file.      *)

Places == \A p \in Procs :
  /\ pc[p] # "idle" => Key(p) \in Keys
  /\ pc[p] \in {"docker", "create"} => Key(p) \in Recipes
  /\ pc[p] = "mark" => Key(p) \in Marked
  /\ pc[p] \in {"clear", "extract", "extracting", "replace", "install"} => Key(p) \in Engines
  /\ pc[p] \in {"write", "rename"} => fd[p] \in Files /\ fd[p][1] = Key(p)
  /\ pc[p] \notin {"write", "rename"} => fd[p] = NoFile /\ off[p] = 0
  /\ pc[p] = "write" => off[p] < Size

Names == \A k \in Keys :
  /\ part[k] # NoFile => part[k] \in Files /\ part[k][1] = k
  /\ dest[k] # NoFile => dest[k] \in Files /\ dest[k][1] = k
  /\ k \in Payloads => part[k] = NoFile

BaseInv == TypeOK /\ Places /\ Names /\ Collected

\* SMT does not know that the truth values are Booleans.
LEMMA Truth == TRUE \in BOOLEAN /\ FALSE \in BOOLEAN
BY Zenon

LEMMA Collects == ASSUME Collect(content) PROVE Collected'
BY DEF Collect, Collected, Held

LEMMA CollectTyped ==
  ASSUME TypeOK, Collect(content) PROVE content' \in [Files -> [1..Size -> Blocks \cup {Hole}]]
BY DEF TypeOK, Collect, Empty

LEMMA ResetKeeps ==
  ASSUME NEW p \in Procs, TypeOK, Places, Reset(p), None \notin Keys
  PROVE  /\ Places'
         /\ pc' \in [Procs -> Stages]
         /\ req' \in [Procs -> [key : Keys \cup {None}, noCache : BOOLEAN, since : 0..MaxVersion]]
         /\ fd' \in [Procs -> Files \cup {NoFile}] /\ off' \in [Procs -> 0..Size]
         /\ src' \in [Procs -> Blocks \cup {Hole}] /\ got' \in [Procs -> Blocks \cup {Hole}]
<1>1. NoReq \in [key : Keys \cup {None}, noCache : BOOLEAN, since : 0..MaxVersion]
  BY CacheAssumption, Truth DEF NoReq
<1>2. 0 \in 0..Size /\ "idle" \in Stages
  BY CacheAssumption DEF Stages
<1> QED
  BY <1>1, <1>2 DEF TypeOK, Reset, Places, Key

LEMMA BaseInit == Init => BaseInv
<1> SUFFICES ASSUME Init PROVE BaseInv
  OBVIOUS
<1>1. NoReq \in [key : Keys \cup {None}, noCache : BOOLEAN, since : 0..MaxVersion]
  BY CacheAssumption, Truth DEF NoReq
<1>2. NoTree \in [of : Blocks \cup {Hole}, all : BOOLEAN]
  BY Truth DEF NoTree
<1>3. 0 \in 0..Size /\ 0 \in 0..MaxVersion /\ 1 \in 1..MaxVersion
      /\ 0 \in 0..MaxRequests /\ 0 \in 0..MaxFaults /\ "idle" \in Stages
  BY CacheAssumption DEF Stages
<1>4. Empty \in [1..Size -> Blocks \cup {Hole}]
  BY DEF Empty
<1>5. TypeOK
  BY <1>1, <1>2, <1>3, <1>4 DEF Init, TypeOK
<1>6. Places /\ Names /\ Collected
  BY DEF Init, Places, Names, Collected, Held, Key, NoReq
<1> QED
  BY <1>5, <1>6 DEF BaseInv

\* The steps that leave files and their names alone.
LEMMA BaseQuiet ==
  ASSUME BaseInv, NEW p \in Procs,
         \/ LookTool(p) \/ LookMarked(p) \/ DockerBuild(p) \/ DockerCreate(p) \/ Mark(p)
         \/ ClearExtract(p) \/ ExtractStarts(p) \/ RemoveOldTree(p)
  PROVE  BaseInv'
<1> USE DEF BaseInv, Goto
<1>1. NoTree \in [of : Blocks \cup {Hole}, all : BOOLEAN]
  BY Truth DEF NoTree
<1>2. UNCHANGED <<fd, off, content, part, dest>>
  BY DEF LookTool, LookMarked, DockerBuild, DockerCreate, Mark, ClearExtract, ExtractStarts,
    RemoveOldTree, docker, cache, paths, Tree
<1>3. Names' /\ Collected'
  BY <1>2 DEF Names, Collected, Held
<1>4. CASE LookTool(p)
  <2>1. TypeOK'
    BY <1>4 DEF LookTool, TypeOK, Stages, cache, paths, docker, asks
  <2> QED
    BY <1>3, <1>4, <2>1 DEF LookTool, TypeOK, Places, Key
<1>5. CASE LookMarked(p)
  <2>1. TypeOK'
    BY <1>5 DEF LookMarked, TypeOK, Stages, docker, asks
  <2> QED
    BY <1>3, <1>5, <2>1 DEF LookMarked, TypeOK, Places, Key
<1>6. CASE DockerBuild(p)
  <2>1. Key(p) \in Recipes /\ Key(p) \in Keys
    BY <1>6 DEF DockerBuild, Places
  <2>2. TypeOK'
    <3>1. PICK v \in {upstream[Key(p)]} \cup ({layers[Key(p)]} \ {0}) :
            /\ tag' = [tag EXCEPT ![Slug[Key(p)]] = Block(Key(p), v)]
            /\ layers' = [layers EXCEPT ![Key(p)] = v]
      BY <1>6 DEF DockerBuild
    <3>2. v \in 1..MaxVersion
      BY <2>1, CacheAssumption DEF TypeOK
    <3>3. Block(Key(p), v) \in Blocks
      BY <2>1, <3>2 DEF Blocks
    <3>4. tag' \in [Tags -> Blocks \cup {Hole}]
      BY <3>1, <3>3 DEF TypeOK
    <3>5. layers' \in [Recipes -> 0..MaxVersion]
      <4>1. v \in 0..MaxVersion
        BY <3>2
      <4> QED
        BY <3>1, <4>1 DEF TypeOK
    <3> QED
      BY <1>6, <3>4, <3>5 DEF DockerBuild, TypeOK, Stages, cache, paths, asks
  <2> QED
    BY <1>3, <1>6, <2>1, <2>2 DEF DockerBuild, TypeOK, Places, Key
<1>7. CASE DockerCreate(p)
  <2>1. Key(p) \in Recipes /\ Slug[Key(p)] \in Tags
    BY <1>7 DEF DockerCreate, Places, Tags
  <2>2. TypeOK'
    BY <1>7, <2>1 DEF DockerCreate, TypeOK, Stages, cache, paths, docker, asks
  <2> QED
    BY <1>3, <1>7, <2>1, <2>2 DEF DockerCreate, TypeOK, Places, Key
<1>8. CASE Mark(p)
  <2>1. TypeOK'
    BY <1>8 DEF Mark, Places, TypeOK, Stages, docker, asks
  <2> QED
    BY <1>3, <1>8, <2>1 DEF Mark, TypeOK, Places, Key
<1>9. CASE ClearExtract(p)
  <2>1. TypeOK'
    <3>1. xpart' \in [Engines -> [of : Blocks \cup {Hole}, all : BOOLEAN]]
      BY <1>1, <1>9 DEF ClearExtract, TypeOK
    <3> QED
      BY <1>9, <3>1 DEF ClearExtract, TypeOK, Stages, docker, asks
  <2> QED
    BY <1>3, <1>9, <2>1 DEF ClearExtract, TypeOK, Places, Key
<1>10. CASE ExtractStarts(p)
  <2> DEFINE f == dest[Key(p)]
             of == IF f = NoFile THEN Hole ELSE content[f][1]
  <2>1. Key(p) \in Keys /\ 1 \in 1..Size
    BY <1>10, CacheAssumption DEF ExtractStarts, Places
  <2>2. of \in Blocks \cup {Hole}
    <3>1. f # NoFile => f \in Files
      BY <2>1 DEF Names
    <3>2. f # NoFile => content[f] \in [1..Size -> Blocks \cup {Hole}]
      BY <3>1 DEF TypeOK
    <3> QED
      BY <2>1, <3>2
  <2>3. [of |-> of, all |-> FALSE] \in [of : Blocks \cup {Hole}, all : BOOLEAN]
    BY <2>2, Truth
  <2>4. xpart' = [xpart EXCEPT ![Key(p)] = [of |-> of, all |-> FALSE]]
    BY <1>10 DEF ExtractStarts, Tree
  <2>5. TypeOK'
    <3> HIDE DEF of
    <3>1. xpart' \in [Engines -> [of : Blocks \cup {Hole}, all : BOOLEAN]]
      <4>1. xpart \in [Engines -> [of : Blocks \cup {Hole}, all : BOOLEAN]]
        BY DEF TypeOK
      <4> QED
        BY <2>3, <2>4, <4>1
    <3> QED
      BY <1>10, <3>1 DEF ExtractStarts, TypeOK, Stages, docker, asks
  <2> QED
    BY <1>3, <1>10, <2>5 DEF ExtractStarts, TypeOK, Places, Key
<1>11. CASE RemoveOldTree(p)
  <2>1. TypeOK'
    <3>1. xdir' \in [Engines -> [of : Blocks \cup {Hole}, all : BOOLEAN]]
      BY <1>1, <1>11 DEF RemoveOldTree, TypeOK
    <3> QED
      BY <1>11, <3>1 DEF RemoveOldTree, TypeOK, Stages, docker, asks
  <2> QED
    BY <1>3, <1>11, <2>1 DEF RemoveOldTree, TypeOK, Places, Key
<1> QED
  BY <1>4, <1>5, <1>6, <1>7, <1>8, <1>9, <1>10, <1>11

\* A build that ends, well or badly.
LEMMA BaseGivesUp ==
  ASSUME BaseInv, NEW p \in Procs, Reset(p), Collect(content),
         UNCHANGED <<part, dest, done, xpart, xdir, tag, layers, upstream, asked, requests>>,
         faults' \in 0..MaxFaults
  PROVE  BaseInv'
<1>1. Collected'
  BY Collects
<1>2. content' \in [Files -> [1..Size -> Blocks \cup {Hole}]]
  BY CollectTyped DEF BaseInv
<1>3. TypeOK' /\ Places'
  BY <1>2, ResetKeeps, CacheAssumption DEF BaseInv, TypeOK
<1> QED
  BY <1>1, <1>3 DEF BaseInv, Names

LEMMA BaseEnds ==
  ASSUME BaseInv, NEW p \in Procs, CopyFails(p) \/ Finish(p) \/ Crash(p)
  PROVE  BaseInv'
<1>1. ASSUME faults < MaxFaults PROVE faults + 1 \in 0..MaxFaults
  BY <1>1, CacheAssumption DEF BaseInv, TypeOK
<1>2. CASE Crash(p)
  BY <1>1, <1>2, BaseGivesUp DEF Crash, paths, docker, asks
<1>3. CASE CopyFails(p)
  <2>1. Collected'
    BY <1>3, Collects DEF CopyFails
  <2>2. content' \in [Files -> [1..Size -> Blocks \cup {Hole}]]
    BY <1>3, CollectTyped DEF BaseInv, CopyFails
  <2>3. part' = [part EXCEPT ![Key(p)] = NoFile] /\ Reset(p)
    BY <1>3 DEF CopyFails
  <2>4. TypeOK' /\ Places'
    BY <1>1, <1>3, <2>2, <2>3, ResetKeeps, CacheAssumption DEF CopyFails, BaseInv, TypeOK, docker, asks
  <2>5. Names'
    BY <1>3, <2>3 DEF CopyFails, BaseInv, TypeOK, Names
  <2> QED
    BY <2>1, <2>4, <2>5 DEF BaseInv
<1>4. CASE Finish(p)
  <2>1. Reset(p) /\ pc[p] = "got"
    BY <1>4 DEF Finish
  <2>2. TypeOK' /\ Places'
    BY <1>4, <2>1, ResetKeeps, CacheAssumption DEF Finish, BaseInv, TypeOK, cache, paths, docker, asks
  <2>3. fd' = fd
    BY <2>1 DEF Reset, BaseInv, Places, TypeOK
  <2>4. Collected' /\ Names'
    BY <1>4, <2>3 DEF Finish, cache, paths, BaseInv, Collected, Held, Names
  <2> QED
    BY <2>2, <2>4 DEF BaseInv
<1> QED
  BY <1>2, <1>3, <1>4

LEMMA BaseLooks == ASSUME BaseInv, NEW p \in Procs, LookEngine(p) PROVE BaseInv'
<1>1. Collected'
  BY Collects DEF LookEngine
<1>2. content' \in [Files -> [1..Size -> Blocks \cup {Hole}]]
  BY CollectTyped DEF BaseInv, LookEngine
<1>3. pc' \in [Procs -> Stages]
  BY DEF LookEngine, Goto, BaseInv, TypeOK, Stages
<1>4. dest' \in [Keys -> Files \cup {NoFile}] /\ \A k \in Keys : dest'[k] \in {dest[k], NoFile}
  BY DEF LookEngine, BaseInv, TypeOK
<1>5. TypeOK'
  BY <1>2, <1>3, <1>4 DEF LookEngine, BaseInv, TypeOK, docker, asks
<1>6. Places'
  BY DEF LookEngine, Goto, BaseInv, TypeOK, Places, Key
<1>7. Names'
  BY <1>4 DEF LookEngine, BaseInv, Names
<1> QED
  BY <1>1, <1>5, <1>6, <1>7 DEF BaseInv

\* Extracted, Install and Read end a build or go on.
LEMMA BaseExtracted == ASSUME BaseInv, NEW p \in Procs, Extracted(p) PROVE BaseInv'
<1> USE DEF BaseInv
<1> DEFINE whole == dest[Key(p)] # NoFile /\ Whole(dest[Key(p)])
<1>1. Key(p) \in Engines /\ Key(p) \in Keys
  BY DEF Places, Extracted
<1>2. NoTree \in [of : Blocks \cup {Hole}, all : BOOLEAN]
  BY Truth DEF NoTree
<1>3. [xpart[Key(p)] EXCEPT !.all = TRUE] \in [of : Blocks \cup {Hole}, all : BOOLEAN]
  <2>1. xpart[Key(p)] \in [of : Blocks \cup {Hole}, all : BOOLEAN]
    BY <1>1 DEF TypeOK
  <2> QED
    BY <2>1, Truth
<1>4. xpart' \in [Engines -> [of : Blocks \cup {Hole}, all : BOOLEAN]]
  BY <1>2, <1>3 DEF Extracted, TypeOK
<1>5. CASE whole
  <2>1. Goto(p, "replace") /\ UNCHANGED <<req, fd, off, src, got>>
    BY <1>5 DEF Extracted
  <2>2. Places'
    BY <1>1, <2>1 DEF Extracted, Goto, TypeOK, Places, Key
  <2>3. TypeOK'
    BY <1>4, <2>1 DEF Extracted, Goto, TypeOK, Stages, docker, asks
  <2> QED
    BY <2>1, <2>2, <2>3 DEF Extracted, Names, Collected, Held
<1>6. CASE ~whole
  <2>1. Reset(p) /\ pc[p] = "extracting"
    BY <1>6 DEF Extracted
  <2>2. Places' /\ TypeOK'
    <3>1. {xpart', xdir'} \subseteq [Engines -> [of : Blocks \cup {Hole}, all : BOOLEAN]]
      BY <1>4 DEF Extracted, TypeOK
    <3> QED
      BY <2>1, <3>1, ResetKeeps, CacheAssumption DEF Extracted, TypeOK, docker, asks
  <2>3. fd' = fd
    BY <2>1 DEF Reset, Places, TypeOK
  <2> QED
    BY <2>2, <2>3 DEF Extracted, Names, Collected, Held
<1> QED
  BY <1>5, <1>6

LEMMA BaseInstall == ASSUME BaseInv, NEW p \in Procs, Install(p) PROVE BaseInv'
<1> USE DEF BaseInv
<1> DEFINE free == xdir[Key(p)] = NoTree /\ xpart[Key(p)] # NoTree
<1>1. Key(p) \in Engines /\ Key(p) \in Keys
  BY DEF Places, Install
<1>2. NoTree \in [of : Blocks \cup {Hole}, all : BOOLEAN]
  BY Truth DEF NoTree
<1>3. {xpart', xdir'} \subseteq [Engines -> [of : Blocks \cup {Hole}, all : BOOLEAN]]
  BY <1>1, <1>2 DEF Install, TypeOK
<1>4. CASE free
  <2>1. Goto(p, "read") /\ UNCHANGED <<req, fd, off, src, got>>
    BY <1>4 DEF Install
  <2>2. Places'
    BY <1>1, <2>1 DEF Install, Goto, TypeOK, Places, Key
  <2>3. TypeOK'
    BY <1>3, <2>1 DEF Install, Goto, TypeOK, Stages, docker, asks
  <2> QED
    BY <2>1, <2>2, <2>3 DEF Install, Names, Collected, Held
<1>5. CASE ~free
  <2>1. Reset(p) /\ pc[p] = "install"
    BY <1>5 DEF Install
  <2>2. Places' /\ TypeOK'
    BY <1>3, <2>1, ResetKeeps, CacheAssumption DEF Install, TypeOK, docker, asks
  <2>3. fd' = fd
    BY <2>1 DEF Reset, Places, TypeOK
  <2> QED
    BY <2>2, <2>3 DEF Install, Names, Collected, Held
<1> QED
  BY <1>4, <1>5

LEMMA BaseGaveUp == ASSUME BaseInv, NEW p \in Procs, GiveUp(p) PROVE BaseInv'
BY BaseGivesUp DEF GiveUp, paths, docker, asks, BaseInv, TypeOK

LEMMA BaseRead == ASSUME BaseInv, NEW p \in Procs, Read(p) PROVE BaseInv'
<1> USE DEF BaseInv
<1> DEFINE k == Key(p)
           there == IF k \in Engines THEN xdir[k].all ELSE dest[k] # NoFile
           found == IF k \in Engines THEN xdir[k].of
                    ELSE IF Whole(dest[k]) THEN content[dest[k]][1] ELSE Hole
<1>1. k \in Keys /\ 1 \in 1..Size
  BY CacheAssumption DEF Places, Read
<1>2. CASE ~there
  BY <1>2, BaseGaveUp DEF Read
<1>3. CASE there
  <2>1. found \in Blocks \cup {Hole}
    <3>1. CASE k \in Engines
      BY <3>1 DEF TypeOK
    <3>2. CASE k \notin Engines
      <4>1. dest[k] \in Files
        BY <1>1, <1>3, <3>2 DEF Names
      <4>2. content[dest[k]] \in [1..Size -> Blocks \cup {Hole}]
        BY <4>1 DEF TypeOK
      <4> QED
        BY <1>1, <3>2, <4>2
    <3> QED
      BY <3>1, <3>2
  <2>2. /\ got' = [got EXCEPT ![p] = found] /\ Goto(p, "got") /\ pc[p] = "read"
        /\ UNCHANGED <<req, fd, off, src, cache, docker, upstream, asks, faults>>
    BY <1>3 DEF Read
  <2> HIDE DEF found
  <2>3. TypeOK'
    BY <2>1, <2>2 DEF Goto, TypeOK, Stages, cache, paths, docker, asks
  <2>4. Places'
    BY <2>2 DEF Goto, TypeOK, Places, Key
  <2> QED
    BY <2>2, <2>3, <2>4 DEF cache, paths, Names, Collected, Held
<1> QED
  BY <1>2, <1>3

\* A download: the file that is opened, its blocks, and the rename.
LEMMA BaseOpen == ASSUME BaseInv, NEW p \in Procs, Open(p) PROVE BaseInv'
<1> USE DEF BaseInv
<1> DEFINE k == Key(p)
           own == k \in Payloads
           f == IF ~own /\ part[k] # NoFile THEN part[k] ELSE CHOOSE g \in Free(k) : TRUE
<1>1. k \in Keys /\ fd[p] = NoFile /\ off[p] = 0 /\ pc[p] = "open" /\ Size > 0
  BY CacheAssumption DEF Places, Open
<1>2. f \in Files /\ f[1] = k
  <2>1. CASE ~own /\ part[k] # NoFile
    BY <1>1, <2>1 DEF Names
  <2>2. CASE own \/ part[k] = NoFile
    <3>1. part[k] = NoFile
      BY <1>1, <2>2 DEF Names
    <3>2. f \in Free(k)
      BY <1>1, <2>2, <3>1, FreeExists
    <3> QED
      BY <1>1, <3>2, FileShape DEF Free
  <2> QED
    BY <2>1, <2>2
<1>3. /\ part' = IF own THEN part ELSE [part EXCEPT ![k] = f]
      /\ fd' = [fd EXCEPT ![p] = f]
      /\ content' = [content EXCEPT ![f] = Empty]
      /\ src' = [src EXCEPT ![p] = IF k \in Recipes THEN @ ELSE Block(k, upstream[k])]
      /\ pc' = [pc EXCEPT ![p] = "write"]
      /\ UNCHANGED <<req, off, got, dest, done, xpart, xdir, docker, upstream, asks, faults>>
  BY DEF Open, Goto
<1>4. Empty \in [1..Size -> Blocks \cup {Hole}] /\ Block(k, upstream[k]) \in Blocks
  BY <1>1 DEF Empty, Blocks, TypeOK
<1>5. ~own => part[k] = NoFile \/ part[k] = f
  OBVIOUS
<1> HIDE DEF f
<1>6. TypeOK'
  BY <1>2, <1>3, <1>4 DEF TypeOK, Stages, docker, asks
<1>7. Places'
  BY <1>1, <1>2, <1>3 DEF Places, TypeOK, Key
<1>8. Names'
  BY <1>1, <1>2, <1>3 DEF Names, TypeOK
<1>9. Collected'
  <2> SUFFICES ASSUME NEW g \in Files, content'[g] # Empty PROVE Held(g)'
    BY DEF Collected
  <2>1. CASE g = f
    BY <1>3, <2>1 DEF Held, TypeOK
  <2>2. CASE g # f
    <3>1. Held(g)
      BY <1>3, <2>2 DEF Collected, TypeOK
    <3>2. g # NoFile /\ g[1] \in Keys
      BY FileShape, CacheAssumption DEF NoFile
    <3>3. CASE g = part[g[1]]
      BY <1>3, <1>5, <2>2, <3>2, <3>3 DEF Held, TypeOK
    <3>4. CASE g = dest[g[1]]
      BY <1>3, <3>4 DEF Held
    <3>5. CASE \E q \in Procs : fd[q] = g
      BY <1>1, <1>3, <3>2, <3>5 DEF Held, TypeOK
    <3> QED
      BY <3>1, <3>3, <3>4, <3>5 DEF Held
  <2> QED
    BY <2>1, <2>2
<1> QED
  BY <1>6, <1>7, <1>8, <1>9

LEMMA BaseWrite == ASSUME BaseInv, NEW p \in Procs, Write(p) PROVE BaseInv'
<1> USE DEF BaseInv
<1>1. Key(p) \in Keys /\ fd[p] \in Files /\ off[p] \in Nat /\ off[p] < Size /\ pc[p] = "write"
      /\ off[p] + 1 \in 1..Size
  BY CacheAssumption DEF Places, Write, TypeOK
<1>2. /\ content' = [content EXCEPT ![fd[p]][off[p] + 1] = src[p]]
      /\ off' = [off EXCEPT ![p] = @ + 1]
      /\ pc' = [pc EXCEPT ![p] = IF off[p] + 1 = Size THEN "rename" ELSE "write"]
      /\ UNCHANGED <<req, fd, src, got, part, dest, done, xpart, xdir, docker, upstream, asks, faults>>
  BY DEF Write, Goto
<1>3. TypeOK'
  BY <1>1, <1>2, CacheAssumption DEF TypeOK, Stages, docker, asks
<1>4. Places'
  BY <1>1, <1>2, CacheAssumption DEF Places, TypeOK, Key
<1>5. Names' /\ Collected'
  BY <1>1, <1>2 DEF Names, Collected, Held, TypeOK
<1> QED
  BY <1>3, <1>4, <1>5

LEMMA BaseRename == ASSUME BaseInv, NEW p \in Procs, Rename(p) PROVE BaseInv'
<1> USE DEF BaseInv
<1> DEFINE k == Key(p)
           f == IF k \in Payloads THEN fd[p] ELSE part[k]
<1>1. CASE f = NoFile
  BY <1>1, BaseGaveUp DEF Rename
<1>2. CASE f # NoFile
  <2>1. k \in Keys /\ pc[p] = "rename" /\ fd[p] \in Files /\ fd[p][1] = k
    BY DEF Places, Rename
  <2>2. f \in Files /\ f[1] = k
    BY <1>2, <2>1 DEF Names
  <2>3. /\ dest' = [dest EXCEPT ![k] = f] /\ part' = [part EXCEPT ![k] = NoFile]
        /\ fd' = [fd EXCEPT ![p] = NoFile] /\ off' = [off EXCEPT ![p] = 0]
        /\ pc' = [pc EXCEPT ![p] = IF k \in Tools THEN "read" ELSE IF k \in Engines THEN "clear" ELSE "mark"]
        /\ UNCHANGED <<req, src, got, done, xpart, xdir, docker, upstream, asks, faults>>
        /\ Collect(content)
    BY <1>2 DEF Rename, Goto
  <2>4. content' \in [Files -> [1..Size -> Blocks \cup {Hole}]]
    BY <2>3, CollectTyped
  <2> HIDE DEF f
  <2>5. TypeOK'
    <3>1. pc' \in [Procs -> Stages]
      BY <2>3 DEF TypeOK, Stages
    <3>2. off' \in [Procs -> 0..Size] /\ fd' \in [Procs -> Files \cup {NoFile}]
      BY <2>3, CacheAssumption DEF TypeOK
    <3>3. part' \in [Keys -> Files \cup {NoFile}] /\ dest' \in [Keys -> Files \cup {NoFile}]
      BY <2>2, <2>3 DEF TypeOK
    <3> QED
      BY <2>3, <2>4, <3>1, <3>2, <3>3 DEF TypeOK, docker, asks
  <2>6. Places'
    BY <2>1, <2>3 DEF Places, TypeOK, Key, Keys, Marked
  <2>7. Names'
    BY <2>1, <2>2, <2>3 DEF Names, TypeOK
  <2>8. Collected'
    BY <2>3, Collects
  <2> QED
    BY <2>5, <2>6, <2>7, <2>8
<1> QED
  BY <1>1, <1>2

\* The users and the upstream.
LEMMA BaseRequest == ASSUME BaseInv, NEW p \in Procs, Request(p) PROVE BaseInv'
<1> USE DEF BaseInv
<1>1. PICK k \in Keys, nc \in BOOLEAN :
        /\ asked' = asked \cup {k}
        /\ req' = [req EXCEPT ![p] = [key |-> k, noCache |-> nc, since |-> upstream[k]]]
  BY DEF Request
<1>2. /\ pc[p] = "idle" /\ pc' = [pc EXCEPT ![p] = "look"]
      /\ got' = [got EXCEPT ![p] = Hole] /\ requests' = requests + 1 /\ requests < MaxRequests
      /\ UNCHANGED <<fd, off, src, content, part, dest, done, xpart, xdir, tag, layers, upstream, faults>>
  BY DEF Request, Goto, cache, paths, docker
<1>3. [key |-> k, noCache |-> nc, since |-> upstream[k]]
        \in [key : Keys \cup {None}, noCache : BOOLEAN, since : 0..MaxVersion]
  BY CacheAssumption DEF TypeOK
<1>4. requests' \in 0..MaxRequests
  BY <1>2, CacheAssumption DEF TypeOK
<1>5. TypeOK'
  BY <1>1, <1>2, <1>3, <1>4 DEF TypeOK, Stages
<1>6. Places'
  BY <1>1, <1>2, <1>3 DEF Places, TypeOK, Key
<1> QED
  BY <1>2, <1>5, <1>6 DEF Names, Collected, Held

LEMMA BasePublish == ASSUME BaseInv, NEW k \in Keys, Publish(k) PROVE BaseInv'
<1> USE DEF BaseInv
<1>1. upstream' \in [Keys -> 1..MaxVersion]
  BY CacheAssumption DEF Publish, TypeOK
<1>2. TypeOK'
  BY <1>1 DEF Publish, TypeOK, procVars, cache, paths, docker, asks
<1> QED
  BY <1>2 DEF Publish, procVars, cache, paths, Places, Key, Names, Collected, Held

LEMMA BaseStep == BaseInv /\ [Next]_vars => BaseInv'
<1> SUFFICES ASSUME BaseInv, [Next]_vars PROVE BaseInv'
  OBVIOUS
<1>1. ASSUME NEW p \in Procs, Step(p) PROVE BaseInv'
  BY <1>1, BaseQuiet, BaseEnds, BaseLooks, BaseExtracted, BaseInstall, BaseRead, BaseOpen, BaseWrite,
    BaseRename DEF Step
<1>2. ASSUME NEW p \in Procs, Request(p) \/ CopyFails(p) \/ Crash(p) PROVE BaseInv'
  BY <1>2, BaseRequest, BaseEnds
<1>3. CASE UNCHANGED vars
  <2>1. UNCHANGED <<pc, req, fd, off, src, got, content, part, dest, done, xpart, xdir, tag, layers,
                    upstream, asked, requests, faults>>
    BY <1>3 DEF vars, procVars, cache, paths, docker, asks
  <2> QED
    BY <2>1 DEF BaseInv, TypeOK, Places, Key, Names, Collected, Held
<1> QED
  BY <1>1, <1>2, <1>3, BasePublish DEF Next

LEMMA BaseCorrect == Spec => []BaseInv
BY BaseInit, BaseStep, PTL DEF Spec

(* Every variable of the caches keeps its type, whatever keys builds share,  *)
(* and there is always a free file to open.                                  *)
THEOREM TypeCorrect == Spec => []TypeOK
<1>1. BaseInv => TypeOK
  BY DEF BaseInv
<1> QED
  BY <1>1, BaseCorrect, PTL

-----------------------------------------------------------------------------
(* Builds that use keys and tags of their own. What one of them has learnt   *)
(* of its key, its file and its tag stays so until it uses it.               *)

\* Two builds at work use different keys, or payloads, and different tags.
Excl == \A p, q \in Procs :
  p # q /\ pc[p] # "idle" /\ pc[q] # "idle" =>
    /\ Key(p) = Key(q) => Key(p) \in Payloads
    /\ Key(p) \in Recipes /\ Key(q) \in Recipes => Slug[Key(p)] # Slug[Key(q)]

\* A file that is being written is one build's, and no cache path names it.
Own ==
  /\ \A p, q \in Procs : p # q /\ fd[p] # NoFile => fd[p] # fd[q]
  /\ \A p \in Procs, k \in Keys : fd[p] # NoFile => fd[p] # dest[k]
  /\ \A k \in Keys : part[k] # NoFile => part[k] # dest[k]
  /\ \A p \in Procs :
       pc[p] \in {"write", "rename"} /\ Key(p) \notin Payloads => part[Key(p)] = fd[p]

\* What a build copies is of its key, and so far it has copied all of it.
SourcedOf(p) ==
  /\ pc[p] = "create" => tag[Slug[Key(p)]] \in Blocks /\ tag[Slug[Key(p)]].key = Key(p)
  /\ pc[p] \in {"write", "rename"} \/ (pc[p] = "open" /\ Key(p) \in Recipes) =>
       src[p] \in Blocks /\ src[p].key = Key(p)
  /\ pc[p] = "write" => \A i \in 1..off[p] : content[fd[p]][i] = src[p]
  /\ pc[p] = "rename" => WholeOf(fd[p], src[p])
Sourced == \A p \in Procs : SourcedOf(p)

\* Whatever a cache path names is whole and its own; so are the engine trees.
Stored ==
  /\ \A k \in Keys : dest[k] # NoFile => Good(dest[k], k)
  /\ \A p \in Procs : pc[p] = "extracting" /\ dest[Key(p)] # NoFile => xpart[Key(p)].of.key = Key(p)
  /\ \A e \in Engines : xpart[e].all => xpart[e].of.key = e
  /\ \A e \in Engines : xdir[e].all => xdir[e].of.key = e

\* An image that was asked for anew is no older than the request.
FreshOf(p) ==
  pc[p] # "idle" /\ req[p].noCache /\ Key(p) \in Urls =>
    /\ req[p].since <= upstream[Key(p)]
    /\ pc[p] \in {"write", "rename"} => src[p].version >= req[p].since
    /\ pc[p] \in {"mark", "read"} /\ dest[Key(p)] # NoFile =>
         content[dest[Key(p)]][1].version >= req[p].since
Fresh == \A p \in Procs : FreshOf(p)

\* What a build that has its tool has read.
GotOf(p) == pc[p] = "got" =>
  /\ got[p].key = Key(p)
  /\ req[p].noCache /\ Key(p) \in Urls => got[p].version >= req[p].since

ApartInv == Excl /\ Own /\ Sourced /\ Stored /\ Fresh /\ GotIsRight /\ FreshDownload

LEMMA ApartInit == Init => ApartInv
BY DEF Init, ApartInv, Excl, Own, Sourced, SourcedOf, Stored, Fresh, FreshOf, GotIsRight, FreshDownload, NoTree

\* A block is no hole, so that a file that is whole is not empty.
LEMMA GoodContent ==
  ASSUME NEW k \in Keys, NEW f \in Files, Good(f, k)
  PROVE  content[f] # Empty /\ content[f][1].key = k /\ Whole(f)
<1>1. 1 \in 1..Size
  BY CacheAssumption
<1>2. PICK b \in Blocks : b.key = k /\ \A i \in 1..Size : content[f][i] = b
  BY DEF Good, WholeOf
<1>3. b # Hole
  BY <1>2, CacheAssumption DEF Hole, Block
<1>4. Empty[1] = Hole
  BY <1>1 DEF Empty
<1> QED
  BY <1>1, <1>2, <1>3, <1>4 DEF Whole, WholeOf

\* A step that begins no work and moves no build to another key.
LEMMA ExclKept ==
  ASSUME Excl, \A q \in Procs : pc'[q] = "idle" \/ (pc[q] # "idle" /\ req'[q] = req[q])
  PROVE  Excl'
BY DEF Excl, Key

\* Collecting leaves the files that have a name.
LEMMA CollectKeeps ==
  ASSUME Collect(content), NEW f \in Files, Held(f)' PROVE content'[f] = content[f]
BY DEF Collect, Held

\* The steps that leave files, their names and the requests alone.
LEMMA ApartQuiet ==
  ASSUME BaseInv, ApartInv, NEW p \in Procs,
         \/ LookTool(p) \/ LookMarked(p) \/ DockerBuild(p) \/ DockerCreate(p) \/ Mark(p)
         \/ ClearExtract(p) \/ ExtractStarts(p) \/ RemoveOldTree(p)
  PROVE  ApartInv'
<1> USE DEF BaseInv, ApartInv, Goto
<1>1. /\ UNCHANGED <<req, fd, off, got, content, part, dest, upstream>>
      /\ pc[p] \notin {"idle", "write", "rename", "got"}
  BY DEF LookTool, LookMarked, DockerBuild, DockerCreate, Mark, ClearExtract, ExtractStarts,
    RemoveOldTree, docker, cache, paths, Tree, asks
<1>2. PICK x \in Stages \ {"idle", "write", "rename", "got"} : pc' = [pc EXCEPT ![p] = x]
  BY DEF LookTool, LookMarked, DockerBuild, DockerCreate, Mark, ClearExtract, ExtractStarts,
    RemoveOldTree, Stages
<1>3. Excl' /\ Own' /\ GotIsRight' /\ FreshDownload'
  <2>1. Excl'
    BY <1>1, <1>2, ExclKept DEF TypeOK
  <2>2. Own'
    BY <1>1, <1>2 DEF TypeOK, Own, Key
  <2>3. GotIsRight' /\ FreshDownload'
    BY <1>1, <1>2 DEF TypeOK, GotIsRight, FreshDownload, Key
  <2> QED
    BY <2>1, <2>2, <2>3
<1>4. Key(p) \in Keys /\ (\A f, k : Good(f, k)' = Good(f, k)) /\ (\A f, b : WholeOf(f, b)' = WholeOf(f, b))
  BY <1>1 DEF Places, Good, WholeOf
<1>5. CASE LookTool(p)
  <2>1. UNCHANGED <<src, xpart, xdir, tag>> /\ x \in {"open", "read"} /\ Key(p) \in Tools
    BY <1>2, <1>5 DEF LookTool, cache, paths, docker, TypeOK
  <2>2. Key(p) \notin Recipes /\ Key(p) \notin Urls
    BY <2>1, CacheAssumption DEF Marked
  <2>3. Sourced'
    BY <1>1, <1>2, <1>4, <2>1, <2>2 DEF Sourced, SourcedOf, TypeOK, Key
  <2>4. Stored'
    BY <1>1, <1>2, <1>4, <2>1 DEF Stored, TypeOK, Key
  <2>5. Fresh'
    BY <1>1, <1>2, <2>1, <2>2 DEF Fresh, FreshOf, TypeOK, Key
  <2> QED
    BY <1>3, <2>3, <2>4, <2>5
<1>6. CASE LookMarked(p)
  <2>1. /\ UNCHANGED <<src, xpart, xdir, tag>> /\ x \in {"open", "read", "docker"}
        /\ x = "open" => Key(p) \notin Recipes
        /\ x = "read" => ~req[p].noCache
    BY <1>2, <1>6 DEF LookMarked, docker, TypeOK
  <2> QED
    BY <1>1, <1>2, <1>3, <1>4, <2>1 DEF Sourced, SourcedOf, Stored, Fresh, FreshOf, TypeOK, Key
<1>7. CASE DockerBuild(p)
  <2>1. /\ UNCHANGED <<src, xpart, xdir>> /\ x = "create" /\ pc[p] = "docker"
        /\ Key(p) \in Recipes /\ Slug[Key(p)] \in Tags
    BY <1>2, <1>7 DEF DockerBuild, cache, paths, TypeOK, Places, Tags
  <2>2. PICK v \in {upstream[Key(p)]} \cup ({layers[Key(p)]} \ {0}) :
          tag' = [tag EXCEPT ![Slug[Key(p)]] = Block(Key(p), v)]
    BY <1>7 DEF DockerBuild
  <2>3. Block(Key(p), v) \in Blocks /\ Block(Key(p), v).key = Key(p)
    <3>1. v \in 1..MaxVersion
      BY <1>4, <2>1, CacheAssumption DEF TypeOK
    <3> QED
      BY <1>4, <3>1 DEF Blocks, Block
  <2>4. \A q \in Procs : pc[q] = "create" => Slug[Key(q)] # Slug[Key(p)]
    BY <1>1, <2>1 DEF Excl, Places
  <2>5. ASSUME NEW q \in Procs, pc'[q] = "create"
        PROVE  tag'[Slug[Key(q)]] \in Blocks /\ tag'[Slug[Key(q)]].key = Key(q)
    <3>1. CASE q = p
      BY <2>1, <2>2, <2>3, <3>1 DEF TypeOK
    <3>2. CASE q # p
      <4>1. pc[q] = "create"
        BY <1>2, <2>5, <3>2 DEF TypeOK
      <4>2. tag'[Slug[Key(q)]] = tag[Slug[Key(q)]]
        BY <2>2, <2>4, <4>1, CacheAssumption DEF TypeOK, Places, Tags
      <4> QED
        BY <4>1, <4>2 DEF Sourced, SourcedOf
    <3> QED
      BY <3>1, <3>2
  <2>6. Sourced'
    BY <1>1, <1>2, <1>4, <2>1, <2>5 DEF Sourced, SourcedOf, TypeOK, Key
  <2> QED
    BY <1>1, <1>2, <1>3, <1>4, <2>1, <2>6 DEF Stored, Fresh, FreshOf, TypeOK, Key
<1>8. CASE DockerCreate(p)
  <2>1. /\ UNCHANGED <<tag, xpart, xdir>> /\ x = "open" /\ pc[p] = "create"
        /\ src' = [src EXCEPT ![p] = tag[Slug[Key(p)]]]
    BY <1>2, <1>8 DEF DockerCreate, cache, paths, docker, TypeOK
  <2> QED
    BY <1>1, <1>2, <1>3, <1>4, <2>1 DEF Sourced, SourcedOf, Stored, Fresh, FreshOf, TypeOK, Key
<1>9. CASE Mark(p)
  <2>1. UNCHANGED <<src, xpart, xdir, tag>> /\ x = "read" /\ pc[p] = "mark"
    BY <1>2, <1>9 DEF Mark, docker, TypeOK
  <2> QED
    BY <1>1, <1>2, <1>3, <1>4, <2>1 DEF Sourced, SourcedOf, Stored, Fresh, FreshOf, TypeOK, Key
<1>10. CASE ClearExtract(p) \/ RemoveOldTree(p)
  <2>1. /\ UNCHANGED <<src, tag>> /\ x \in {"extract", "install"} /\ Key(p) \in Engines
        /\ \/ xpart' = [xpart EXCEPT ![Key(p)] = NoTree] /\ UNCHANGED xdir
           \/ xdir' = [xdir EXCEPT ![Key(p)] = NoTree] /\ UNCHANGED xpart
    BY <1>2, <1>10 DEF ClearExtract, RemoveOldTree, docker, TypeOK, Places
  <2>2. \A q \in Procs : q # p /\ pc[q] = "extracting" => Key(q) # Key(p)
    BY <1>1, <2>1, CacheAssumption DEF Excl, Marked
  <2>3. ~NoTree.all
    BY DEF NoTree
  <2>4. Stored'
    <3>1. ASSUME NEW q \in Procs, pc'[q] = "extracting", dest[Key(q)] # NoFile
          PROVE  xpart'[Key(q)].of.key = Key(q)
      BY <1>1, <1>2, <1>4, <2>1, <2>2, <2>3, <3>1 DEF Stored, TypeOK, Places
    <3>2. \A e \in Engines : xpart'[e].all => xpart'[e].of.key = e
      BY <2>1, <2>3 DEF Stored, TypeOK
    <3>3. \A e \in Engines : xdir'[e].all => xdir'[e].of.key = e
      BY <2>1, <2>3 DEF Stored, TypeOK
    <3> QED
      BY <1>1, <1>4, <3>1, <3>2, <3>3 DEF Stored, Key
  <2>5. Sourced'
    BY <1>1, <1>2, <1>4, <2>1 DEF Sourced, SourcedOf, TypeOK, Key
  <2>6. Fresh'
    BY <1>1, <1>2, <1>4, <2>1 DEF Fresh, FreshOf, TypeOK, Key
  <2> QED
    BY <1>3, <2>4, <2>5, <2>6
<1>11. CASE ExtractStarts(p)
  <2>1. /\ UNCHANGED <<src, tag, xdir>> /\ x = "extracting" /\ Key(p) \in Engines
        /\ xpart' = [xpart EXCEPT ![Key(p)] =
             [of |-> IF dest[Key(p)] = NoFile THEN Hole ELSE content[dest[Key(p)]][1], all |-> FALSE]]
    BY <1>2, <1>11 DEF ExtractStarts, Tree, docker, TypeOK, Places
  <2>2. \A q \in Procs : q # p /\ pc[q] = "extracting" => Key(q) # Key(p)
    BY <1>1, <2>1, CacheAssumption DEF Excl, Marked
  <2>3. dest[Key(p)] # NoFile => content[dest[Key(p)]][1].key = Key(p)
    BY <1>4, GoodContent DEF Stored, Names
  <2>4. Stored'
    <3>1. ASSUME NEW q \in Procs, pc'[q] = "extracting", dest[Key(q)] # NoFile
          PROVE  xpart'[Key(q)].of.key = Key(q)
      BY <1>1, <1>2, <1>4, <2>1, <2>2, <2>3, <3>1 DEF Stored, TypeOK, Places
    <3>2. \A e \in Engines : xpart'[e].all => xpart'[e].of.key = e
      BY <2>1, <2>3 DEF Stored, TypeOK
    <3>3. \A e \in Engines : xdir'[e].all => xdir'[e].of.key = e
      BY <2>1, <2>3 DEF Stored, TypeOK
    <3> QED
      BY <1>1, <1>4, <3>1, <3>2, <3>3 DEF Stored, Key
  <2> QED
    BY <1>1, <1>2, <1>3, <1>4, <2>1, <2>4 DEF Sourced, SourcedOf, Fresh, FreshOf, TypeOK, Key
<1> QED
  BY <1>5, <1>6, <1>7, <1>8, <1>9, <1>10, <1>11

\* What a build has learnt stays true while another one works elsewhere.
LEMMA Bystanders ==
  ASSUME BaseInv, ApartInv, NEW p \in Procs, tag' = tag, upstream' = upstream,
         \A q \in Procs \ {p} :
           /\ pc'[q] = pc[q] /\ req'[q] = req[q] /\ fd'[q] = fd[q]
           /\ off'[q] = off[q] /\ src'[q] = src[q] /\ got'[q] = got[q]
           /\ fd[q] # NoFile => content'[fd[q]] = content[fd[q]]
           /\ pc[q] # "idle" /\ Key(q) \in Urls /\ dest'[Key(q)] # NoFile =>
                dest'[Key(q)] = dest[Key(q)] /\ content'[dest[Key(q)]] = content[dest[Key(q)]],
         SourcedOf(p)', FreshOf(p)', GotOf(p)'
  PROVE  Sourced' /\ Fresh' /\ GotIsRight' /\ FreshDownload'
<1> USE DEF BaseInv, ApartInv
<1>1. ASSUME NEW q \in Procs \ {p} PROVE SourcedOf(q)' /\ FreshOf(q)' /\ GotOf(q)'
  <2>1. Key(q)' = Key(q) /\ SourcedOf(q) /\ FreshOf(q)
    BY DEF Key, Sourced, Fresh
  <2>2. pc[q] \in {"write", "rename"} => content'[fd[q]] = content[fd[q]]
    BY FileShape, CacheAssumption DEF Places, NoFile
  <2>3. SourcedOf(q)'
    BY <2>1, <2>2 DEF SourcedOf, WholeOf
  <2>4. FreshOf(q)'
    BY <2>1 DEF FreshOf
  <2>5. GotOf(q)'
    BY <2>1 DEF GotOf, GotIsRight, FreshDownload
  <2> QED
    BY <2>3, <2>4, <2>5
<1>2. \A q \in Procs : SourcedOf(q)' /\ FreshOf(q)' /\ GotOf(q)'
  BY <1>1
<1> QED
  BY <1>2 DEF Sourced, Fresh, GotOf, GotIsRight, FreshDownload

\* No step but opening and renaming gives a file to a build or to a path.
LEMMA OwnKept ==
  ASSUME BaseInv, ApartInv,
         \A q \in Procs : fd'[q] \in {fd[q], NoFile},
         \A k \in Keys : part'[k] \in {part[k], NoFile} /\ dest'[k] \in {dest[k], NoFile},
         \A q \in Procs : pc'[q] \in {"write", "rename"} /\ req'[q].key \notin Payloads =>
           /\ pc[q] \in {"write", "rename"} /\ req'[q] = req[q] /\ fd'[q] = fd[q]
           /\ part'[Key(q)] = part[Key(q)]
  PROVE  Own'
<1> USE DEF BaseInv, ApartInv
<1>1. \A p, q \in Procs : p # q /\ fd'[p] # NoFile => fd'[p] # fd'[q]
  BY DEF Own
<1>2. \A p \in Procs, k \in Keys : fd'[p] # NoFile => fd'[p] # dest'[k]
  BY DEF Own
<1>3. \A k \in Keys : part'[k] # NoFile => part'[k] # dest'[k]
  BY DEF Own
<1>4. \A p \in Procs :
        pc'[p] \in {"write", "rename"} /\ req'[p].key \notin Payloads => part'[req'[p].key] = fd'[p]
  BY DEF Own, Key
<1> QED
  BY <1>1, <1>2, <1>3, <1>4 DEF Own, Key

LEMMA StoredKept ==
  ASSUME BaseInv, ApartInv, xpart' = xpart, xdir' = xdir,
         \A k \in Keys : dest'[k] # NoFile =>
           dest'[k] = dest[k] /\ content'[dest[k]] = content[dest[k]],
         \A q \in Procs : pc'[q] = "extracting" => pc[q] = "extracting" /\ req'[q] = req[q]
  PROVE  Stored'
<1>1. \A k \in Keys : (dest[k] # NoFile => Good(dest[k], k))'
  BY DEF ApartInv, Stored, Good, WholeOf
<1>2. ASSUME NEW q \in Procs, pc'[q] = "extracting", dest'[req'[q].key] # NoFile
      PROVE  xpart'[req'[q].key].of.key = req'[q].key
  BY <1>2 DEF ApartInv, Stored, BaseInv, Places, Key
<1> QED
  BY <1>1, <1>2 DEF ApartInv, Stored, Key

\* A build that ends. Every file that still has a name or a writer stays.
LEMMA ApartEnds ==
  ASSUME BaseInv, ApartInv, NEW p \in Procs, pc[p] # "idle", Reset(p),
         dest' = dest, tag' = tag, upstream' = upstream,
         part' = part \/ part' = [part EXCEPT ![Key(p)] = NoFile],
         \A f \in Files : Held(f)' => content'[f] = content[f]
  PROVE  /\ Excl' /\ Own' /\ Sourced' /\ Fresh' /\ GotIsRight' /\ FreshDownload'
         /\ (xpart' = xpart /\ xdir' = xdir => Stored')
<1> USE DEF BaseInv, ApartInv
<1>1. /\ pc'[p] = "idle" /\ fd'[p] = NoFile /\ off'[p] = 0 /\ req'[p] = NoReq /\ got'[p] = Hole
      /\ \A q \in Procs \ {p} :
           /\ pc'[q] = pc[q] /\ req'[q] = req[q] /\ fd'[q] = fd[q]
           /\ off'[q] = off[q] /\ src'[q] = src[q] /\ got'[q] = got[q]
  BY DEF Reset, TypeOK
<1>2. \A k \in Keys : dest[k] # NoFile => content'[dest[k]] = content[dest[k]]
  BY DEF Names, Held
<1>3. \A q \in Procs \ {p} : fd[q] # NoFile => content'[fd[q]] = content[fd[q]]
  BY <1>1 DEF Held, TypeOK
<1>4. Excl'
  BY <1>1, ExclKept
<1>5. Own'
  <2>1. \A q \in Procs : fd'[q] \in {fd[q], NoFile}
    BY <1>1
  <2>2. \A k \in Keys : part'[k] \in {part[k], NoFile} /\ dest'[k] \in {dest[k], NoFile}
    BY DEF TypeOK
  <2>3. ASSUME NEW q \in Procs, pc'[q] \in {"write", "rename"}, req'[q].key \notin Payloads
        PROVE  /\ pc[q] \in {"write", "rename"} /\ req'[q] = req[q] /\ fd'[q] = fd[q]
               /\ part'[Key(q)] = part[Key(q)]
    <3>1. q # p /\ pc[q] \in {"write", "rename"} /\ req'[q] = req[q] /\ fd'[q] = fd[q]
      BY <1>1, <2>3
    <3>2. Key(q) # Key(p) /\ Key(q) \in Keys
      BY <2>3, <3>1 DEF Excl, Places, Key
    <3> QED
      BY <3>1, <3>2 DEF TypeOK
  <2> QED
    BY <2>1, <2>2, <2>3, OwnKept
<1>6. SourcedOf(p)' /\ FreshOf(p)' /\ GotOf(p)'
  BY <1>1 DEF SourcedOf, FreshOf, GotOf
<1>7. Sourced' /\ Fresh' /\ GotIsRight' /\ FreshDownload'
  <2>1. \A q \in Procs \ {p} : pc[q] # "idle" /\ Key(q) \in Urls /\ dest'[Key(q)] # NoFile =>
          dest'[Key(q)] = dest[Key(q)] /\ content'[dest[Key(q)]] = content[dest[Key(q)]]
    BY <1>2 DEF Places
  <2> QED
    BY <1>1, <1>3, <1>6, <2>1, Bystanders
<1>8. xpart' = xpart /\ xdir' = xdir => Stored'
  <2>1. \A q \in Procs : pc'[q] = "extracting" => pc[q] = "extracting" /\ req'[q] = req[q]
    BY <1>1
  <2> QED
    BY <1>2, <2>1, StoredKept
<1> QED
  BY <1>4, <1>5, <1>7, <1>8

LEMMA ApartEnded ==
  ASSUME BaseInv, ApartInv, NEW p \in Procs,
         Crash(p) \/ CopyFails(p) \/ Finish(p) \/ (pc[p] # "idle" /\ GiveUp(p))
  PROVE  ApartInv'
<1>1. /\ pc[p] # "idle" /\ Reset(p) /\ dest' = dest /\ tag' = tag /\ upstream' = upstream
      /\ xpart' = xpart /\ xdir' = xdir
      /\ part' = part \/ part' = [part EXCEPT ![Key(p)] = NoFile]
      /\ Collect(content) \/ content' = content
  BY DEF Crash, CopyFails, Finish, GiveUp, cache, paths, docker
<1>2. \A f \in Files : Held(f)' => content'[f] = content[f]
  BY <1>1, CollectKeeps
<1> QED
  BY <1>1, <1>2, ApartEnds DEF ApartInv

LEMMA ApartLooks == ASSUME BaseInv, ApartInv, NEW p \in Procs, LookEngine(p) PROVE ApartInv'
<1> USE DEF BaseInv, ApartInv
<1>1. /\ pc[p] = "look" /\ Key(p) \in Engines /\ Key(p) \in Keys /\ Collect(content)
      /\ UNCHANGED <<req, fd, off, src, got, part, xpart, xdir, tag, upstream>>
  BY DEF LookEngine, docker, Places
<1>2. PICK x \in {"read", "open", "clear"} : pc' = [pc EXCEPT ![p] = x]
  BY DEF LookEngine, Goto
<1>3. \A k \in Keys : dest'[k] # NoFile => dest'[k] = dest[k] /\ content'[dest[k]] = content[dest[k]]
  <2>1. \A k \in Keys : dest'[k] \in {dest[k], NoFile}
    BY DEF LookEngine, TypeOK
  <2>2. ASSUME NEW k \in Keys, dest'[k] # NoFile PROVE content'[dest[k]] = content[dest[k]]
    BY <1>1, <2>1, <2>2, CollectKeeps DEF Names, Held
  <2> QED
    BY <2>1, <2>2
<1>4. \A q \in Procs : fd[q] # NoFile => content'[fd[q]] = content[fd[q]]
  BY <1>1, CollectKeeps DEF Held, TypeOK
<1>5. Excl'
  BY <1>1, <1>2, ExclKept DEF TypeOK
<1>6. Own'
  BY <1>1, <1>2, <1>3, OwnKept DEF TypeOK
<1>7. Stored'
  BY <1>1, <1>2, <1>3, StoredKept DEF TypeOK
<1>8. Key(p) \notin Recipes /\ Key(p) \notin Urls
  BY <1>1, CacheAssumption DEF Marked
<1>9. SourcedOf(p)' /\ FreshOf(p)' /\ GotOf(p)'
  BY <1>1, <1>2, <1>8 DEF SourcedOf, FreshOf, GotOf, TypeOK, Key
<1>10. \A q \in Procs \ {p} : pc[q] # "idle" => Key(q) \in Keys
  BY DEF Places
<1>11. Sourced' /\ Fresh' /\ GotIsRight' /\ FreshDownload'
  <2>1. \A q \in Procs \ {p} : pc'[q] = pc[q]
    BY <1>2 DEF TypeOK
  <2> QED
    BY <1>1, <1>3, <1>4, <1>9, <1>10, <2>1, Bystanders
<1> QED
  BY <1>5, <1>6, <1>7, <1>11

LEMMA ApartWrite == ASSUME BaseInv, ApartInv, NEW p \in Procs, Write(p) PROVE ApartInv'
<1> USE DEF BaseInv, ApartInv
<1>1. Key(p) \in Keys /\ fd[p] \in Files /\ off[p] \in Nat /\ off[p] < Size /\ pc[p] = "write"
      /\ off[p] + 1 \in 1..Size /\ fd[p] # NoFile
  BY FileShape, CacheAssumption DEF Places, Write, TypeOK, NoFile
<1>2. /\ content' = [content EXCEPT ![fd[p]][off[p] + 1] = src[p]]
      /\ off' = [off EXCEPT ![p] = off[p] + 1]
      /\ pc' = [pc EXCEPT ![p] = IF off[p] + 1 = Size THEN "rename" ELSE "write"]
      /\ UNCHANGED <<req, fd, src, got, part, dest, xpart, xdir, tag, upstream>>
  BY DEF Write, Goto, docker
<1>3. /\ \A k \in Keys : dest[k] # NoFile => content'[dest[k]] = content[dest[k]]
      /\ \A q \in Procs \ {p} : fd[q] # NoFile => content'[fd[q]] = content[fd[q]]
  BY <1>1, <1>2 DEF Own, Names, TypeOK
<1>4. Excl'
  BY <1>1, <1>2, ExclKept DEF TypeOK
<1>5. Own'
  BY <1>1, <1>2, OwnKept DEF TypeOK
<1>6. Stored'
  BY <1>1, <1>2, <1>3, StoredKept DEF TypeOK
<1>7. src[p] \in Blocks /\ src[p].key = Key(p) /\ \A i \in 1..off[p] : content[fd[p]][i] = src[p]
  BY <1>1 DEF Sourced, SourcedOf
<1>8. \A i \in 1..off[p] + 1 : content'[fd[p]][i] = src[p]
  <2>1. content[fd[p]] \in [1..Size -> Blocks \cup {Hole}]
    BY <1>1 DEF TypeOK
  <2>2. content'[fd[p]] = [content[fd[p]] EXCEPT ![off[p] + 1] = src[p]]
    BY <1>1, <1>2 DEF TypeOK
  <2>3. content'[fd[p]][off[p] + 1] = src[p]
    BY <1>1, <2>1, <2>2
  <2>4. ASSUME NEW i \in 1..off[p] + 1, i # off[p] + 1 PROVE content'[fd[p]][i] = src[p]
    <3>1. i \in 1..off[p] /\ i \in 1..Size
      BY <1>1, <2>4, CacheAssumption
    <3>2. content'[fd[p]][i] = content[fd[p]][i]
      BY <2>1, <2>2, <2>4, <3>1
    <3> QED
      BY <1>7, <3>1, <3>2
  <2> QED
    BY <2>3, <2>4
<1>9. SourcedOf(p)'
  BY <1>1, <1>2, <1>7, <1>8 DEF SourcedOf, TypeOK, Key, WholeOf
<1>10. FreshOf(p)' /\ GotOf(p)'
  BY <1>1, <1>2 DEF Fresh, FreshOf, GotOf, TypeOK, Key
<1>11. Sourced' /\ Fresh' /\ GotIsRight' /\ FreshDownload'
  <2>1. \A q \in Procs \ {p} : pc'[q] = pc[q] /\ off'[q] = off[q] /\ (pc[q] # "idle" => Key(q) \in Keys)
    BY <1>2 DEF TypeOK, Places
  <2> QED
    BY <1>2, <1>3, <1>9, <1>10, <2>1, Bystanders
<1> QED
  BY <1>4, <1>5, <1>6, <1>11

LEMMA ApartRequest ==
  ASSUME BaseInv, ApartInv, Apart = TRUE, NEW p \in Procs, Request(p) PROVE ApartInv'
<1> USE DEF BaseInv, ApartInv
<1>1. PICK k \in Keys, nc \in BOOLEAN :
        /\ \A q \in Procs \ {p} : pc[q] = "idle" \/ ~Conflict(Key(q), k)
        /\ req' = [req EXCEPT ![p] = [key |-> k, noCache |-> nc, since |-> upstream[k]]]
  BY DEF Request
<1>2. /\ pc[p] = "idle" /\ pc' = [pc EXCEPT ![p] = "look"] /\ got' = [got EXCEPT ![p] = Hole]
      /\ UNCHANGED <<fd, off, src, content, part, dest, xpart, xdir, tag, upstream>>
  BY DEF Request, Goto, cache, paths, docker
<1>3. req'[p].key = k /\ req'[p].since = upstream[k] /\ pc'[p] = "look"
  BY <1>1, <1>2 DEF TypeOK
<1>4. \A q \in Procs \ {p} : pc'[q] = pc[q] /\ req'[q] = req[q] /\ got'[q] = got[q]
  BY <1>1, <1>2 DEF TypeOK
<1>5. Excl'
  <2> SUFFICES ASSUME NEW q \in Procs, NEW r \in Procs, q # r, pc'[q] # "idle", pc'[r] # "idle"
               PROVE  /\ req'[q].key = req'[r].key => req'[q].key \in Payloads
                      /\ req'[q].key \in Recipes /\ req'[r].key \in Recipes
                           => Slug[req'[q].key] # Slug[req'[r].key]
    BY DEF Excl, Key
  <2>1. CASE q # p /\ r # p
    BY <1>4, <2>1 DEF Excl, Key
  <2>2. CASE q = p \/ r = p
    BY <1>1, <1>3, <1>4, <2>2 DEF Conflict, Key
  <2> QED
    BY <2>1, <2>2
<1>6. Own'
  BY <1>2, <1>3, <1>4, OwnKept
<1>7. Stored'
  BY <1>2, <1>3, <1>4, StoredKept
<1>8. SourcedOf(p)' /\ FreshOf(p)' /\ GotOf(p)'
  <2>1. upstream[k] <= upstream[k]
    BY DEF TypeOK
  <2> QED
    BY <1>2, <1>3, <2>1 DEF SourcedOf, FreshOf, GotOf, Key
<1>9. Sourced' /\ Fresh' /\ GotIsRight' /\ FreshDownload'
  BY <1>2, <1>4, <1>8, Bystanders
<1> QED
  BY <1>5, <1>6, <1>7, <1>9

LEMMA ApartPublish == ASSUME BaseInv, ApartInv, NEW k \in Keys, Publish(k) PROVE ApartInv'
<1> USE DEF BaseInv, ApartInv
<1>1. UNCHANGED <<pc, req, fd, off, src, got, content, part, dest, xpart, xdir, tag>>
  BY DEF Publish, procVars, cache, paths, docker
<1>2. \A j \in Keys : upstream[j] <= upstream'[j]
  BY DEF Publish, TypeOK
<1>3. Excl' /\ Own' /\ GotIsRight' /\ FreshDownload'
  BY <1>1 DEF Excl, Own, GotIsRight, FreshDownload, Key
<1>4. Sourced' /\ Stored'
  BY <1>1 DEF Sourced, SourcedOf, Stored, Good, WholeOf, Key
<1>5. Fresh'
  <2>1. ASSUME NEW p \in Procs, pc[p] # "idle", req[p].since <= upstream[Key(p)]
        PROVE  req[p].since <= upstream'[Key(p)]
    <3>1. Key(p) \in Keys /\ req[p].since \in Nat /\ upstream[Key(p)] \in Nat
      BY <2>1 DEF Places, TypeOK
    <3>2. upstream'[Key(p)] \in Nat
      BY <3>1 DEF Publish, TypeOK
    <3> QED
      BY <1>2, <2>1, <3>1, <3>2
  <2> QED
    BY <1>1, <2>1 DEF Fresh, FreshOf, Key
<1> QED
  BY <1>3, <1>4, <1>5

LEMMA ApartRead == ASSUME BaseInv, ApartInv, NEW p \in Procs, Read(p) PROVE ApartInv'
<1> USE DEF BaseInv, ApartInv
<1> DEFINE k == Key(p)
           there == IF k \in Engines THEN xdir[k].all ELSE dest[k] # NoFile
           found == IF k \in Engines THEN xdir[k].of
                    ELSE IF Whole(dest[k]) THEN content[dest[k]][1] ELSE Hole
<1>1. k \in Keys /\ pc[p] = "read"
  BY DEF Places, Read
<1>2. CASE ~there
  BY <1>1, <1>2, ApartEnded DEF Read
<1>3. CASE there
  <2>1. found.key = k
    <3>1. CASE k \in Engines
      BY <1>3, <3>1 DEF Stored
    <3>2. CASE k \notin Engines
      BY <1>1, <1>3, <3>2, GoodContent DEF Stored, Names
    <3> QED
      BY <3>1, <3>2
  <2>2. req[p].noCache /\ k \in Urls => found.version >= req[p].since
    <3> SUFFICES ASSUME req[p].noCache, k \in Urls PROVE found.version >= req[p].since
      OBVIOUS
    <3>1. k \notin Engines
      BY CacheAssumption DEF Marked
    <3>2. dest[k] # NoFile
      BY <1>3, <3>1
    <3>3. Whole(dest[k])
      BY <1>1, <3>2, GoodContent DEF Stored, Names
    <3> QED
      BY <1>1, <3>1, <3>2, <3>3 DEF Fresh, FreshOf
  <2>3. /\ got' = [got EXCEPT ![p] = found] /\ pc' = [pc EXCEPT ![p] = "got"]
        /\ UNCHANGED <<req, fd, off, src, content, part, dest, xpart, xdir, tag, upstream>>
    BY <1>3 DEF Read, Goto, cache, paths, docker
  <2> HIDE DEF found
  <2>4. Excl'
    BY <1>1, <2>3, ExclKept DEF TypeOK
  <2>5. Own'
    BY <2>3, OwnKept DEF TypeOK
  <2>6. Stored'
    BY <2>3, StoredKept DEF TypeOK
  <2>7. SourcedOf(p)' /\ FreshOf(p)' /\ GotOf(p)'
    BY <1>1, <2>1, <2>2, <2>3 DEF SourcedOf, Fresh, FreshOf, GotOf, TypeOK, Key
  <2>8. Sourced' /\ Fresh' /\ GotIsRight' /\ FreshDownload'
    <3>1. \A q \in Procs \ {p} : pc'[q] = pc[q] /\ got'[q] = got[q]
      BY <2>3 DEF TypeOK
    <3> QED
      BY <2>3, <2>7, <3>1, Bystanders
  <2> QED
    BY <2>4, <2>5, <2>6, <2>8
<1> QED
  BY <1>2, <1>3

\* The engine trees: another build at work has another engine.
LEMMA ApartTrees ==
  ASSUME BaseInv, ApartInv, NEW p \in Procs, pc[p] # "idle", Key(p) \in Engines,
         content' = content, dest' = dest,
         \A e \in Engines : e # Key(p) => xpart'[e] = xpart[e] /\ xdir'[e] = xdir[e],
         xpart'[Key(p)].all => xpart'[Key(p)].of.key = Key(p),
         xdir'[Key(p)].all => xdir'[Key(p)].of.key = Key(p),
         \A q \in Procs : pc'[q] = "extracting" => q # p /\ pc[q] = "extracting" /\ req'[q] = req[q]
  PROVE  Stored'
<1> USE DEF BaseInv, ApartInv
<1>1. \A k \in Keys : (dest[k] # NoFile => Good(dest[k], k))'
  BY DEF Stored, Good, WholeOf
<1>2. ASSUME NEW q \in Procs, pc'[q] = "extracting", dest'[req'[q].key] # NoFile
      PROVE  xpart'[req'[q].key].of.key = req'[q].key
  <2>1. q # p /\ pc[q] = "extracting" /\ req'[q] = req[q] /\ Key(q) \in Engines
    BY <1>2 DEF Places
  <2>2. Key(q) # Key(p)
    BY <2>1, CacheAssumption DEF Excl, Marked
  <2> QED
    BY <1>2, <2>1, <2>2 DEF Stored, Key
<1>3. \A e \in Engines : (xpart'[e].all => xpart'[e].of.key = e) /\ (xdir'[e].all => xdir'[e].of.key = e)
  BY DEF Stored
<1> QED
  BY <1>1, <1>2, <1>3 DEF Stored, Key

\* All the rest, when the work of p on a tree goes on.
LEMMA ApartGoesOn ==
  ASSUME BaseInv, ApartInv, NEW p \in Procs, Key(p) \in Engines, pc[p] \in {"extracting", "install"},
         NEW x \in {"replace", "read"}, pc' = [pc EXCEPT ![p] = x],
         UNCHANGED <<req, fd, off, src, got, content, part, dest, tag, upstream>>
  PROVE  Excl' /\ Own' /\ Sourced' /\ Fresh' /\ GotIsRight' /\ FreshDownload'
<1> USE DEF BaseInv, ApartInv
<1>1. Excl'
  BY ExclKept DEF TypeOK
<1>2. Own'
  BY OwnKept DEF TypeOK
<1>3. Key(p) \notin Urls
  BY CacheAssumption DEF Marked
<1>4. SourcedOf(p)' /\ FreshOf(p)' /\ GotOf(p)'
  BY <1>3 DEF SourcedOf, FreshOf, GotOf, TypeOK, Key
<1>5. \A q \in Procs \ {p} : pc'[q] = pc[q]
  BY DEF TypeOK
<1> QED
  BY <1>1, <1>2, <1>4, <1>5, Bystanders

LEMMA ApartExtracted == ASSUME BaseInv, ApartInv, NEW p \in Procs, Extracted(p) PROVE ApartInv'
<1> USE DEF BaseInv, ApartInv
<1> DEFINE k == Key(p)
           whole == dest[k] # NoFile /\ Whole(dest[k])
<1>1. /\ k \in Engines /\ k \in Keys /\ pc[p] = "extracting"
      /\ UNCHANGED <<content, part, dest, xdir, tag, upstream>>
      /\ xpart' = [xpart EXCEPT ![k] = IF whole THEN [xpart[k] EXCEPT !.all = TRUE] ELSE NoTree]
      /\ \/ pc' = [pc EXCEPT ![p] = "replace"] /\ UNCHANGED <<req, fd, off, src, got>>
         \/ Reset(p)
  BY DEF Extracted, Goto, Places, docker
<1>2. xpart'[k].all => xpart'[k].of.key = k
  <2>1. ~NoTree.all
    BY DEF NoTree
  <2>2. xpart[k] \in [of : Blocks \cup {Hole}, all : BOOLEAN]
    BY <1>1 DEF TypeOK
  <2>3. CASE whole
    <3>1. xpart[k].of.key = k
      BY <1>1, <2>3 DEF Stored
    <3>2. xpart'[k] = [xpart[k] EXCEPT !.all = TRUE]
      BY <1>1, <2>3 DEF TypeOK
    <3> QED
      BY <2>2, <3>1, <3>2
  <2>4. CASE ~whole
    BY <1>1, <2>1, <2>4 DEF TypeOK
  <2> QED
    BY <2>3, <2>4
<1>3. \A q \in Procs : pc'[q] = "extracting" => q # p /\ pc[q] = "extracting" /\ req'[q] = req[q]
  BY <1>1 DEF TypeOK, Reset
<1>4. Stored'
  <2>1. \A e \in Engines : e # k => xpart'[e] = xpart[e] /\ xdir'[e] = xdir[e]
    BY <1>1 DEF TypeOK
  <2>2. xdir'[k].all => xdir'[k].of.key = k
    BY <1>1 DEF Stored
  <2> QED
    BY <1>1, <1>2, <1>3, <2>1, <2>2, ApartTrees
<1>5. CASE Reset(p)
  <2>1. \A g \in Files : Held(g)' => content'[g] = content[g]
    BY <1>1
  <2> QED
    BY <1>1, <1>4, <1>5, <2>1, ApartEnds
<1>6. CASE pc' = [pc EXCEPT ![p] = "replace"] /\ UNCHANGED <<req, fd, off, src, got>>
  BY <1>1, <1>4, <1>6, ApartGoesOn
<1> QED
  BY <1>1, <1>5, <1>6

LEMMA ApartInstall == ASSUME BaseInv, ApartInv, NEW p \in Procs, Install(p) PROVE ApartInv'
<1> USE DEF BaseInv, ApartInv
<1> DEFINE k == Key(p)
           free == xdir[k] = NoTree /\ xpart[k] # NoTree
<1>1. /\ k \in Engines /\ k \in Keys /\ pc[p] = "install"
      /\ UNCHANGED <<content, part, dest, tag, upstream>>
      /\ xdir' = [xdir EXCEPT ![k] = IF free THEN xpart[k] ELSE xdir[k]]
      /\ xpart' = [xpart EXCEPT ![k] = NoTree]
      /\ \/ pc' = [pc EXCEPT ![p] = "read"] /\ UNCHANGED <<req, fd, off, src, got>>
         \/ Reset(p)
  BY DEF Install, Goto, Places, docker
<1>2. /\ xpart'[k].all => xpart'[k].of.key = k
      /\ xdir'[k].all => xdir'[k].of.key = k
  BY <1>1 DEF TypeOK, Stored, NoTree
<1>3. \A q \in Procs : pc'[q] = "extracting" => q # p /\ pc[q] = "extracting" /\ req'[q] = req[q]
  BY <1>1 DEF TypeOK, Reset
<1>4. Stored'
  <2>1. \A e \in Engines : e # k => xpart'[e] = xpart[e] /\ xdir'[e] = xdir[e]
    BY <1>1 DEF TypeOK
  <2> QED
    BY <1>1, <1>2, <1>3, <2>1, ApartTrees
<1>5. CASE Reset(p)
  <2>1. \A g \in Files : Held(g)' => content'[g] = content[g]
    BY <1>1
  <2> QED
    BY <1>1, <1>4, <1>5, <2>1, ApartEnds
<1>6. CASE pc' = [pc EXCEPT ![p] = "read"] /\ UNCHANGED <<req, fd, off, src, got>>
  BY <1>1, <1>4, <1>6, ApartGoesOn
<1> QED
  BY <1>1, <1>5, <1>6

\* The file that a build opens is nobody else's: a free one, or the one that
\* an earlier build of the key has left at .part.
LEMMA ApartOpen == ASSUME BaseInv, ApartInv, NEW p \in Procs, Open(p) PROVE ApartInv'
<1> USE DEF BaseInv, ApartInv
<1> DEFINE k == Key(p)
           own == k \in Payloads
           f == IF ~own /\ part[k] # NoFile THEN part[k] ELSE CHOOSE g \in Free(k) : TRUE
           s == IF k \in Recipes THEN src[p] ELSE Block(k, upstream[k])
<1>1. k \in Keys /\ fd[p] = NoFile /\ off[p] = 0 /\ pc[p] = "open" /\ Size > 0
  BY CacheAssumption DEF Places, Open
<1>2. /\ f \in Files /\ f[1] = k /\ f # NoFile
      /\ f # dest[k] /\ \A q \in Procs : fd[q] # f
  <2>1. CASE ~own /\ part[k] # NoFile
    <3>1. f = part[k] /\ f \in Files /\ f[1] = k /\ f # dest[k]
      BY <1>1, <2>1 DEF Names, Own
    <3>2. ASSUME NEW q \in Procs, fd[q] = f PROVE FALSE
      <4>1. pc[q] \in {"write", "rename"} /\ Key(q) = k
        BY <2>1, <3>1, <3>2 DEF Places
      <4> QED
        BY <1>1, <2>1, <4>1 DEF Excl
    <3> QED
      BY <2>1, <3>1, <3>2
  <2>2. CASE own \/ part[k] = NoFile
    <3>1. part[k] = NoFile
      BY <1>1, <2>2 DEF Names
    <3>2. f \in Free(k)
      BY <1>1, <2>2, <3>1, FreeExists
    <3>3. f \in Files /\ f[1] = k /\ content[f] = Empty /\ \A q \in Procs : fd[q] # f
      BY <1>1, <3>2, FileShape DEF Free
    <3>4. f # NoFile
      BY <3>3, FileShape, CacheAssumption DEF NoFile
    <3>5. f # dest[k]
      BY <1>1, <3>3, <3>4, GoodContent DEF Stored
    <3> QED
      BY <3>3, <3>4, <3>5
  <2> QED
    BY <2>1, <2>2
<1>3. /\ part' = IF own THEN part ELSE [part EXCEPT ![k] = f]
      /\ fd' = [fd EXCEPT ![p] = f]
      /\ content' = [content EXCEPT ![f] = Empty]
      /\ src' = [src EXCEPT ![p] = s]
      /\ pc' = [pc EXCEPT ![p] = "write"]
      /\ UNCHANGED <<req, off, got, dest, xpart, xdir, tag, upstream>>
  BY DEF Open, Goto, docker
<1>4. s \in Blocks /\ s.key = k
  <2>1. CASE k \in Recipes
    BY <1>1, <2>1 DEF Sourced, SourcedOf
  <2>2. CASE k \notin Recipes
    BY <1>1, <2>2 DEF Blocks, Block, TypeOK
  <2> QED
    BY <2>1, <2>2
<1>5. req[p].noCache /\ k \in Urls => s.version >= req[p].since /\ req[p].since <= upstream[k]
  <2> SUFFICES ASSUME req[p].noCache, k \in Urls
               PROVE  s.version >= req[p].since /\ req[p].since <= upstream[k]
    OBVIOUS
  <2>1. s = Block(k, upstream[k]) /\ req[p].since <= upstream[k]
    BY <1>1, CacheAssumption DEF Fresh, FreshOf
  <2>2. upstream[k] \in Nat /\ req[p].since \in Nat
    BY <1>1 DEF TypeOK
  <2> QED
    BY <2>1, <2>2 DEF Block
<1> HIDE DEF f, s
<1>6. \A j \in Keys : f # dest[j]
  BY <1>2 DEF Names
<1>7. /\ \A j \in Keys : dest[j] # NoFile => content'[dest[j]] = content[dest[j]]
      /\ \A q \in Procs \ {p} : fd[q] # NoFile => content'[fd[q]] = content[fd[q]]
  BY <1>2, <1>3, <1>6 DEF TypeOK, Names
<1>8. Excl'
  BY <1>1, <1>3, ExclKept DEF TypeOK
<1>9. Own'
  <2>1. fd'[p] = f /\ \A q \in Procs \ {p} : fd'[q] = fd[q]
    BY <1>3 DEF TypeOK
  <2>2. \A q, r \in Procs : q # r /\ fd'[q] # NoFile => fd'[q] # fd'[r]
    BY <1>2, <2>1 DEF Own
  <2>3. \A q \in Procs, j \in Keys : fd'[q] # NoFile => fd'[q] # dest'[j]
    BY <1>3, <1>6, <2>1 DEF Own
  <2>4. \A j \in Keys : part'[j] # NoFile => part'[j] # dest'[j]
    BY <1>3, <1>6 DEF Own, TypeOK
  <2>5. ASSUME NEW q \in Procs, pc'[q] \in {"write", "rename"}, req'[q].key \notin Payloads
        PROVE  part'[req'[q].key] = fd'[q]
    <3>1. CASE q = p
      BY <1>1, <1>3, <2>1, <2>5, <3>1 DEF Key, TypeOK
    <3>2. CASE q # p
      <4>1. pc[q] \in {"write", "rename"} /\ req'[q] = req[q] /\ fd'[q] = fd[q]
        BY <1>3, <2>1, <2>5, <3>2 DEF TypeOK
      <4>2. Key(q) # k /\ Key(q) \in Keys
        BY <1>1, <2>5, <3>2, <4>1 DEF Excl, Places, Key
      <4>3. part'[Key(q)] = part[Key(q)]
        BY <1>3, <4>2 DEF TypeOK
      <4> QED
        BY <2>5, <4>1, <4>3 DEF Own, Key
    <3> QED
      BY <3>1, <3>2
  <2> QED
    BY <2>2, <2>3, <2>4, <2>5 DEF Own, Key
<1>10. Stored'
  BY <1>3, <1>7, StoredKept DEF TypeOK
<1>11. SourcedOf(p)' /\ FreshOf(p)' /\ GotOf(p)'
  <2>1. pc'[p] = "write" /\ off'[p] = 0 /\ src'[p] = s /\ req' = req /\ upstream' = upstream
    BY <1>1, <1>3 DEF TypeOK
  <2> QED
    BY <1>4, <1>5, <2>1 DEF SourcedOf, FreshOf, GotOf, Key
<1>12. Sourced' /\ Fresh' /\ GotIsRight' /\ FreshDownload'
  <2>1. \A q \in Procs \ {p} : /\ pc'[q] = pc[q] /\ fd'[q] = fd[q] /\ src'[q] = src[q]
                              /\ pc[q] # "idle" => Key(q) \in Keys
    BY <1>3 DEF TypeOK, Places
  <2> QED
    BY <1>3, <1>7, <1>11, <2>1, Bystanders
<1> QED
  BY <1>8, <1>9, <1>10, <1>12

\* What is renamed is what this build has written, to its end.
LEMMA ApartRename == ASSUME BaseInv, ApartInv, NEW p \in Procs, Rename(p) PROVE ApartInv'
<1> USE DEF BaseInv, ApartInv
<1> DEFINE k == Key(p)
           f == fd[p]
<1>1. /\ k \in Keys /\ pc[p] = "rename" /\ f \in Files /\ f[1] = k /\ f # NoFile
      /\ k \notin Payloads => part[k] = f
  BY FileShape, CacheAssumption DEF Places, Rename, Own, NoFile
<1>2. PICK x \in {"read", "clear", "mark"} :
        /\ pc' = [pc EXCEPT ![p] = x]
        /\ k \in Urls => x = "mark"
        /\ dest' = [dest EXCEPT ![k] = f] /\ part' = [part EXCEPT ![k] = NoFile]
        /\ fd' = [fd EXCEPT ![p] = NoFile] /\ off' = [off EXCEPT ![p] = 0]
        /\ UNCHANGED <<req, src, got, xpart, xdir, tag, upstream>>
        /\ Collect(content)
  BY <1>1, CacheAssumption DEF Rename, Goto, docker, Marked
<1>3. /\ pc'[p] = x /\ fd'[p] = NoFile /\ dest'[k] = f /\ part'[k] = NoFile
      /\ \A q \in Procs \ {p} : pc'[q] = pc[q] /\ fd'[q] = fd[q] /\ off'[q] = off[q]
      /\ \A j \in Keys \ {k} : part'[j] = part[j] /\ dest'[j] = dest[j]
  BY <1>1, <1>2 DEF TypeOK
<1>4. /\ content'[f] = content[f]
      /\ \A j \in Keys \ {k} : dest[j] # NoFile => content'[dest[j]] = content[dest[j]]
      /\ \A q \in Procs \ {p} : fd[q] # NoFile => content'[fd[q]] = content[fd[q]]
  <2>1. content'[f] = content[f]
    BY <1>1, <1>2, <1>3, CollectKeeps DEF Held
  <2>2. ASSUME NEW j \in Keys \ {k}, dest[j] # NoFile PROVE content'[dest[j]] = content[dest[j]]
    BY <1>2, <1>3, <2>2, CollectKeeps DEF Held, Names
  <2>3. ASSUME NEW q \in Procs \ {p}, fd[q] # NoFile PROVE content'[fd[q]] = content[fd[q]]
    BY <1>2, <1>3, <2>3, CollectKeeps DEF Held, TypeOK
  <2> QED
    BY <2>1, <2>2, <2>3
<1>5. Excl'
  BY <1>1, <1>2, <1>3, ExclKept
<1>6. Own'
  <2>1. \A q, r \in Procs : q # r /\ fd'[q] # NoFile => fd'[q] # fd'[r]
    BY <1>3 DEF Own
  <2>2. \A q \in Procs, j \in Keys : fd'[q] # NoFile => fd'[q] # dest'[j]
    BY <1>1, <1>3 DEF Own
  <2>3. \A j \in Keys : part'[j] # NoFile => part'[j] # dest'[j]
    BY <1>3 DEF Own
  <2>4. ASSUME NEW q \in Procs, pc'[q] \in {"write", "rename"}, req'[q].key \notin Payloads
        PROVE  part'[req'[q].key] = fd'[q]
    <3>1. q # p /\ pc[q] \in {"write", "rename"} /\ req'[q] = req[q] /\ fd'[q] = fd[q]
      BY <1>2, <1>3, <2>4
    <3>2. Key(q) # k /\ Key(q) \in Keys
      BY <1>1, <2>4, <3>1 DEF Excl, Places, Key
    <3> QED
      BY <1>3, <2>4, <3>1, <3>2 DEF Own, Key
  <2> QED
    BY <2>1, <2>2, <2>3, <2>4 DEF Own, Key
<1>7. src[p] \in Blocks /\ src[p].key = k /\ WholeOf(f, src[p])
  BY <1>1 DEF Sourced, SourcedOf
<1>8. Stored'
  <2>1. ASSUME NEW j \in Keys, j = k PROVE (dest[j] # NoFile => Good(dest[j], j))'
    <3>1. \A i \in 1..Size : content'[dest'[j]][i] = src[p]
      BY <1>3, <1>4, <1>7, <2>1 DEF WholeOf
    <3> QED
      BY <1>7, <2>1, <3>1 DEF Good, WholeOf
  <2>2. ASSUME NEW j \in Keys \ {k} PROVE (dest[j] # NoFile => Good(dest[j], j))'
    BY <1>3, <1>4 DEF Stored, Good, WholeOf
  <2>3. ASSUME NEW q \in Procs, pc'[q] = "extracting", dest'[req'[q].key] # NoFile
        PROVE  xpart'[req'[q].key].of.key = req'[q].key
    <3>1. q # p /\ pc[q] = "extracting" /\ req'[q] = req[q] /\ Key(q) \in Engines /\ Key(q) \in Keys
      BY <1>2, <1>3, <2>3 DEF Places
    <3>2. Key(q) # k
      BY <1>1, <3>1, CacheAssumption DEF Excl, Marked
    <3> QED
      BY <1>2, <1>3, <2>3, <3>1, <3>2 DEF Stored, Key
  <2>4. \A j \in Keys : (dest[j] # NoFile => Good(dest[j], j))'
    BY <2>1, <2>2
  <2> QED
    BY <1>2, <2>3, <2>4 DEF Stored, Key
<1>9. SourcedOf(p)' /\ FreshOf(p)' /\ GotOf(p)'
  <2>1. req[p].noCache /\ k \in Urls =>
          req[p].since <= upstream[k] /\ content'[f][1].version >= req[p].since
    <3>1. 1 \in 1..Size
      BY CacheAssumption
    <3>2. content'[f][1] = src[p]
      BY <1>4, <1>7, <3>1 DEF WholeOf
    <3> QED
      BY <1>1, <3>2 DEF Fresh, FreshOf
  <2> QED
    BY <1>2, <1>3, <2>1 DEF SourcedOf, FreshOf, GotOf, Key
<1>10. Sourced' /\ Fresh' /\ GotIsRight' /\ FreshDownload'
  <2>1. ASSUME NEW q \in Procs \ {p}, pc[q] # "idle", Key(q) \in Urls, dest'[Key(q)] # NoFile
        PROVE  dest'[Key(q)] = dest[Key(q)] /\ content'[dest[Key(q)]] = content[dest[Key(q)]]
    <3>1. Key(q) # k /\ Key(q) \in Keys
      BY <1>1, <2>1, CacheAssumption DEF Excl, Places
    <3> QED
      BY <1>3, <1>4, <2>1, <3>1
  <2> QED
    BY <1>2, <1>3, <1>4, <1>9, <2>1, Bystanders
<1> QED
  BY <1>5, <1>6, <1>8, <1>10

LEMMA ApartStep == Apart = TRUE /\ BaseInv /\ ApartInv /\ [Next]_vars => ApartInv'
<1> SUFFICES ASSUME Apart = TRUE, BaseInv, ApartInv, [Next]_vars PROVE ApartInv'
  OBVIOUS
<1>1. ASSUME NEW p \in Procs, Step(p) PROVE ApartInv'
  BY <1>1, ApartQuiet, ApartEnded, ApartLooks, ApartExtracted, ApartInstall, ApartRead, ApartOpen,
    ApartWrite, ApartRename DEF Step
<1>2. ASSUME NEW p \in Procs, Request(p) \/ CopyFails(p) \/ Crash(p) PROVE ApartInv'
  BY <1>2, ApartRequest, ApartEnded
<1>3. CASE UNCHANGED vars
  <2>1. UNCHANGED <<pc, req, fd, off, src, got, content, part, dest, xpart, xdir, tag, upstream>>
    BY <1>3 DEF vars, procVars, cache, paths, docker
  <2> QED
    BY <2>1 DEF ApartInv, Excl, Own, Sourced, SourcedOf, Stored, Fresh, FreshOf, GotIsRight,
      FreshDownload, Key, Good, WholeOf
<1> QED
  BY <1>1, <1>2, <1>3, ApartPublish DEF Next

LEMMA ApartCorrect == ASSUME Apart = TRUE PROVE Spec => [](BaseInv /\ ApartInv)
<1>1. BaseInv /\ ApartInv /\ [Next]_vars => (BaseInv /\ ApartInv)'
  BY BaseStep, ApartStep
<1> QED
  BY <1>1, BaseInit, ApartInit, PTL DEF Spec

(* When builds at the same time use keys and tags of their own, a marker     *)
(* vouches for a whole file of its own key, and so does a complete engine    *)
(* tree, whatever downloads failed and whichever builds were killed.         *)
THEOREM MarkerVouchesCorrect == ASSUME Apart = TRUE PROVE Spec => []MarkerVouches
<1>1. BaseInv /\ ApartInv => MarkerVouches
  BY DEF BaseInv, ApartInv, TypeOK, Stored, MarkerVouches, Keys
<1> QED
  BY <1>1, ApartCorrect, PTL

(* Such a build never reads a torn file or another key's: FetchPwshFiles and *)
(* its kin take any file at the path, and rename puts only whole ones there. *)
THEOREM GotIsRightCorrect == ASSUME Apart = TRUE PROVE Spec => []GotIsRight
<1>1. BaseInv /\ ApartInv => GotIsRight
  BY DEF ApartInv
<1> QED
  BY <1>1, ApartCorrect, PTL

(* With --no-cache fetchTarball hands out no image older than the request.   *)
THEOREM FreshDownloadCorrect == ASSUME Apart = TRUE PROVE Spec => []FreshDownload
<1>1. BaseInv /\ ApartInv => FreshDownload
  BY DEF ApartInv
<1> QED
  BY <1>1, ApartCorrect, PTL
=============================================================================
