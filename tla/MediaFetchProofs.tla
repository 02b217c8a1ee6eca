-------------------------- MODULE MediaFetchProofs --------------------------
(* Proofs about MediaFetch, for any requests, builds, listings and bounds:   *)
(* its variables stay in their types; what is served for a specification     *)
(* that names a release or a build is of it; and, where hdiutil masters the  *)
(* ISO, what boots is whole and of one build.                                *)
EXTENDS MediaFetch, FiniteSetTheorems, TLAPS

-----------------------------------------------------------------------------
(* The stages of a command.                                                  *)

MctPcs == {"mctLook", "mctFind", "mctOpen", "mctLoad", "mctExtract", "mctBootwim", "mctInstall"}
UupTry == {"uupLoad", "uupClear", "uupExtract", "uupBootwim", "uupInject", "uupInstall"}
UupPcs == {"uupLook", "uupFind", "uupPick"} \cup UupTry
Written == {"files", "image", "catalog", "record", "mastered"}
Mastering == {"sidecar", "master"} \cup Written
VirtioPcs == {"virtioEnsure", "virtioLook", "virtioOpen", "virtioLoad"}
PcValues == {"idle"} \cup MctPcs \cup UupPcs \cup Mastering \cup VirtioPcs

\* A build is in hand; its ESDs are right; its files are in the work tree;
\* the ISO at the name does not boot.
InHand == (MctPcs \ {"mctLook", "mctFind"}) \cup UupTry \cup Mastering
Opened == {"mctExtract", "mctBootwim", "mctInstall"} \cup (UupTry \ {"uupLoad"})
Staged == {"mctBootwim", "mctInstall", "uupBootwim", "uupInject", "uupInstall"} \cup Mastering
Unready == (MctPcs \cup UupPcs \cup Mastering) \ {"mctLook", "uupLook", "mastered"}

-----------------------------------------------------------------------------
(* The inductive invariant, in parts.                                        *)

\* The command, its specification and its lane.
CommandOK ==
  /\ pc \in PcValues
  /\ req \in Requests \cup {NoJob} /\ (pc # "idle" => req \in Requests)
  /\ spec = Resolve(req.spec)
  /\ lane \in Lanes /\ (pc \in MctPcs => lane = "mct") /\ (pc \in UupPcs => lane = "uup")
  /\ lane = "uup" /\ pc \in (UupPcs \ {"uupLook"}) \cup Mastering => spec.ok

\* What is tried answers to the specification, and nothing is left to try
\* of an earlier command.
PickOK ==
  /\ tries \in 0..maxAttempts
  /\ ladder # {} => lane = "uup" /\ pc \in {"uupPick"} \cup UupTry \cup Mastering
  /\ \A h \in ladder : h[2] \in Builds /\ MatchesBuild(spec, h[2])
  /\ build \in Builds \cup {None} /\ (pc \in InHand => build \in Builds)
  /\ lane = "uup" /\ pc \in InHand => MatchesBuild(spec, build)

\* The transfers.
EsdNames == Esds \cup {MctESD}
LoadOK ==
  /\ active \subseteq Esds /\ todo \subseteq Esds /\ active \cap todo = {}
  /\ Cardinality(active) <= Concurrency
  /\ esd \in [Builds -> [EsdNames -> Seq(BOOLEAN)]]
  /\ \A b \in Builds, f \in EsdNames : Len(esd[b][f]) <= Size

\* The work trees.
TreeOK ==
  /\ stage \in [Lanes -> [StageFiles -> Origins]]
  /\ bootwim \in [Lanes -> WimType] /\ install \in [Lanes -> InstallType]
  /\ pc = "uupInject" => bootwim["uup"].is = "file"

\* The ISOs. One that is being mastered has what the work tree has.
Paths == Names \cup {Legacy}
ISOType ==
  [is : {"file"}, tree : [StageFiles -> Origins], bootwim : WimType, install : InstallType,
   sectors : SUBSET {"files", "image", "catalog", "record"}] \cup {NoISO}
ShelfOK ==
  /\ isos \in [Paths -> ISOType]
  /\ isos[Legacy].is = "file" => alias = File
  /\ alias \in Names \cup {NoLink, File}
  /\ sidecar \in [Names -> Origins]
  /\ pc \in Written => isos[Name] = Image(isos[Name].sectors)

\* What is published, the drivers, and the bounds.
Versions == DOMAIN DriverSize
RestOK ==
  /\ catalog \in DOMAIN Catalogs /\ upstream \in Versions
  /\ requests \in 0..MaxRequests /\ faults \in 0..MaxFaults
  /\ vpart \in Seq(Versions) /\ viso \in Seq(Versions)

BaseInv == CommandOK /\ PickOK /\ LoadOK /\ TreeOK /\ ShelfOK /\ RestOK

\* What comes out of the ESDs is of the build in hand, and the work tree has it.
StageInv ==
  /\ pc \in Opened => Origin = build
  /\ pc \in Staged => \A f \in Media[build] : stage[lane][f] = build

\* The ISO at a name answers to every specification of that name, and so does
\* what the UUP lane serves.
Specs == {Resolve(q.spec) : q \in Requests}
NamesInv ==
  \A r \in Specs :
    r.ok /\ isos[ISOName(r)].is = "file" => MatchesBuild(r, isos[ISOName(r)].tree["efi"])
ServedInv ==
  "req" \in DOMAIN served /\ served.lane = "uup" /\ ~IsDefault(served.spec) =>
    MatchesBuild(served.spec, served.iso.tree["efi"])
PinInv == NamesInv /\ ServedInv

\* A driver ISO that is complete ends in the version that is published.
Ends(c) == c # <<>> => Len(c) = DriverSize[c[Len(c)]]
DriverInv ==
  /\ Ends(viso)
  /\ pc = "virtioLoad" =>
       /\ Len(vpart) <= DriverSize[upstream]
       /\ Len(vpart) = DriverSize[upstream] => Ends(vpart)

\* What hdiutil has written so far, and of which build the work tree's WIMs are.
SectorsAt ==
  [files |-> {}, image |-> {"files"}, catalog |-> {"files", "image"},
   record |-> {"files", "image", "catalog"}, mastered |-> {"files", "image", "catalog", "record"}]
RecordInv ==
  /\ pc \in Unready => ~RequireEFIBootable(isos[Name])
  /\ pc \in Written => isos[Name].sectors = SectorsAt[pc]
  /\ \A n \in Paths : RequireEFIBootable(isos[n]) =>
       {"files", "image", "catalog", "record"} \subseteq isos[n].sectors

Setup(wim, b) == wim.pe = b /\ \A f \in Media[b] \cap SetupFiles : wim.setup[f] = b
WimInv ==
  /\ pc = "mctInstall" => bootwim["mct"] = BootWim(build, [f \in SetupFiles |-> build])
  /\ pc = "uupExtract" /\ bootwim["uup"].is = "file" => bootwim["uup"].reused
  /\ pc = "uupInject" => bootwim["uup"] = BootWim(build, [f \in SetupFiles |-> None])
  /\ pc \in {"uupExtract", "uupBootwim", "uupInject", "uupInstall"} => install["uup"] = NoWim
  /\ pc \in {"uupInstall"} \cup Mastering =>
       bootwim[lane].is = "file" /\ (bootwim[lane].reused \/ Setup(bootwim[lane], build))
  /\ pc \in Mastering => install[lane] \in {NoWim, InstallWim(build)}
  /\ pc \in Mastering \ {"sidecar"} => sidecar[Name] \in {stage[lane]["efi"], "torn"}

-----------------------------------------------------------------------------
(* Facts about the data.                                                     *)

\* For the steps that assign a boolean: SMT takes BOOLEAN for an unknown set.
LEMMA Truth == TRUE \in BOOLEAN /\ FALSE \in BOOLEAN
BY Zenon

\* The names of the lanes, the legacy name and what an alias may be differ.
LEMMA NamesApart ==
  /\ \A r, l : ISOName(r) # <<"mct", l>> /\ ISOName(r) # Legacy
  /\ \A l : <<"mct", l>> # Legacy
  /\ Legacy \notin Names /\ NoLink \notin Names /\ File \notin Names
  /\ NoLink # File /\ Legacy # File /\ Legacy # NoLink
<1>1. ASSUME NEW r PROVE Len(ISOName(r)) = 3
  BY DEF ISOName
<1>2. ASSUME NEW l PROVE Len(<<"mct", l>>) = 2
  OBVIOUS
<1>3. Len(Legacy) = 1 /\ Len(NoLink) = 1 /\ Len(File) = 1
  BY DEF Legacy, NoLink, File
<1>4. NoLink # File /\ Legacy # File /\ Legacy # NoLink
  <2>1. NoLink[1] = "none" /\ File[1] = "file" /\ Legacy[1] = "legacy"
    BY DEF Legacy, NoLink, File
  <2> QED
    BY <2>1
<1>5. \A n \in Names : Len(n) \in {2, 3}
  BY <1>1, <1>2 DEF Names
<1> QED
  BY <1>1, <1>2, <1>3, <1>4, <1>5

\* The name of the ISO of a command in progress.
LEMMA NameTyped == ASSUME CommandOK, pc # "idle" PROVE Name \in Names /\ Name \in Paths /\ Name # Legacy
BY NamesApart DEF CommandOK, Name, Names, Paths

-----------------------------------------------------------------------------
(* The command, and what it tries.                                           *)

Failing == Fail \/ virtioFail \/ Crash
Quiet == Publish \/ UNCHANGED vars
MctStep ==
  mctLook \/ mctFind \/ mctOpen \/ mctReceive \/ mctReceived \/ mctBootwim \/ mctInstall
UupStep ==
  \/ uupLook \/ uupFind \/ uupPick \/ DownloadFiles
  \/ \E f \in Esds : downloadOne(f) \/ uupReceive(f) \/ uupReceived(f)
TreeStep ==
  clearGeneratedArtifacts \/ ExtractImage \/ buildBootWim \/ injectSetupIntoBootWim \/ uupInstall
MasterStep == writeBootloaderSidecar \/ createWindowsISO \/ WriteSectors \/ Mastered
DriverStep == virtioEnsure \/ virtioLook \/ virtioOpen \/ virtioReceive \/ virtioRename

LEMMA Steps ==
  ASSUME [Next]_vars
  PROVE  \/ \E q \in Requests : Request(q)
         \/ MctStep \/ UupStep \/ TreeStep \/ MasterStep \/ DriverStep \/ Failing \/ Quiet
BY DEF Next, Step, MctStep, UupStep, TreeStep, MasterStep, DriverStep, Failing, Quiet

\* A request is at its source, and the source decides the lane.
LEMMA Sources ==
  ASSUME NEW q \in Requests, MediaAssumption
  PROVE  /\ Source(q) \in {"mct", "uup", "virtio", "refuse"}
         /\ Look[Source(q)] \in {"mctLook", "uupLook", "virtioLook", "idle"}
         /\ Look[Source(q)] = "mctLook" => Source(q) = "mct"
         /\ Look[Source(q)] = "uupLook" => Source(q) = "uup"
<1>1. Source(q) \in {"mct", "uup", "virtio", "refuse"}
  BY DEF MediaAssumption, Source, fetchSource, buildSource, Lanes
<1> QED
  BY <1>1 DEF Look

LEMMA CommandInit == Init => CommandOK
<1>1. NoJob.spec = Spec0
  BY DEF NoJob
<1> QED
  BY <1>1 DEF Init, CommandOK, PcValues, MctPcs, UupPcs, UupTry, Mastering, Written, Lanes, DefaultSpec

\* Where a step may lead within a command: a failure to the other lane, to the
\* next build, or to the end.
Leads ==
  /\ UNCHANGED <<req, spec>> /\ pc # "idle"
  /\ \/ lane' = lane /\ pc' \in {"idle"} \cup VirtioPcs
     \/ lane' = lane /\ lane = "mct" /\ pc' \in MctPcs \cup {"sidecar"}
     \/ lane' = lane /\ lane = "uup" /\ spec.ok /\ pc' \in (UupPcs \ {"uupLook"}) \cup {"sidecar"}
     \/ lane' = "uup" /\ pc' = "uupLook"
     \/ lane' = lane /\ pc \in Mastering /\ pc' \in Mastering
     \/ lane' = lane /\ pc' = pc

LEMMA LeadsKeeps == ASSUME CommandOK, Leads PROVE CommandOK'
BY DEF CommandOK, Leads, PcValues, MctPcs, UupPcs, UupTry, Mastering, Written, VirtioPcs, Lanes

LEMMA FailedLeads ==
  ASSUME CommandOK, Failed, UNCHANGED <<req, spec>>,
         pc \in (MctPcs \cup UupPcs \cup Mastering) \ {"mctLook", "uupLook"}
  PROVE  Leads
BY DEF Failed, Goto, CommandOK, Leads, PcValues, MctPcs, UupPcs, UupTry, Mastering, Written,
  VirtioPcs, Lanes

LEMMA MctLeads == ASSUME CommandOK, MctStep PROVE Leads
<1> USE DEF Goto, command, job
<1>1. CASE mctReceived
  <2>1. CASE Verified(Blocks(MctESD))
    BY <1>1, <2>1 DEF mctReceived, CommandOK, Leads, MctPcs
  <2>2. CASE ~Verified(Blocks(MctESD))
    BY <1>1, <2>2, FailedLeads DEF mctReceived, MctPcs
  <2> QED
    BY <2>1, <2>2
<1>2. CASE mctLook \/ mctFind \/ mctOpen
  BY <1>2 DEF mctLook, mctFind, mctOpen, Got, CommandOK, Leads, MctPcs, VirtioPcs
<1>3. CASE mctReceive \/ mctBootwim \/ mctInstall
  BY <1>3 DEF mctReceive, mctBootwim, mctInstall, CommandOK, Leads, MctPcs
<1> QED
  BY <1>1, <1>2, <1>3 DEF MctStep

LEMMA UupLeads == ASSUME CommandOK, UupStep PROVE Leads
<1> USE DEF Goto, command, job
<1>1. CASE uupLook
  BY <1>1 DEF uupLook, Got, CommandOK, Leads, UupPcs, UupTry, VirtioPcs
<1>2. CASE uupFind \/ uupPick
  BY <1>2 DEF uupFind, uupPick, CommandOK, Leads, UupPcs, UupTry, VirtioPcs
<1>3. CASE DownloadFiles
  <2>1. CASE \A f \in Esds : Verified(Blocks(f))
    BY <1>3, <2>1 DEF DownloadFiles, CommandOK, Leads, UupPcs, UupTry
  <2>2. CASE ~\A f \in Esds : Verified(Blocks(f))
    <3>1. Failed
      BY <1>3, <2>2 DEF DownloadFiles
    <3> QED
      BY <1>3, <3>1, FailedLeads DEF DownloadFiles, UupPcs, UupTry
  <2> QED
    BY <2>1, <2>2
<1>4. ASSUME NEW f \in Esds, downloadOne(f) \/ uupReceive(f) \/ uupReceived(f)
      PROVE  Leads
  <2>1. UNCHANGED <<req, spec, lane, pc>> /\ pc = "uupLoad"
    BY <1>4 DEF downloadOne, uupReceive, uupReceived
  <2> QED
    BY <2>1 DEF Leads
<1> QED
  BY <1>1, <1>2, <1>3, <1>4 DEF UupStep

LEMMA TreeLeads == ASSUME CommandOK, TreeStep PROVE Leads
<1> USE DEF Goto, command
<1>1. CASE clearGeneratedArtifacts \/ buildBootWim \/ injectSetupIntoBootWim
  BY <1>1 DEF clearGeneratedArtifacts, buildBootWim, injectSetupIntoBootWim,
    CommandOK, Leads, UupPcs, UupTry
<1>2. CASE ExtractImage
  BY <1>2 DEF ExtractImage, AfterExtract, CommandOK, Leads, MctPcs, UupPcs, UupTry
<1>3. CASE uupInstall
  <2>1. CASE BootOnly \/ build \in Assembles
    BY <1>3, <2>1 DEF uupInstall, CommandOK, Leads, UupPcs, UupTry
  <2>2. CASE ~(BootOnly \/ build \in Assembles)
    <3>1. Failed
      BY <1>3, <2>2 DEF uupInstall
    <3> QED
      BY <1>3, <3>1, FailedLeads DEF uupInstall, UupPcs, UupTry
  <2> QED
    BY <2>1, <2>2
<1> QED
  BY <1>1, <1>2, <1>3 DEF TreeStep

LEMMA MasterLeads == ASSUME CommandOK, MasterStep PROVE Leads
<1> USE DEF Goto, command
<1>1. CASE writeBootloaderSidecar \/ createWindowsISO
  BY <1>1 DEF writeBootloaderSidecar, createWindowsISO, Leads, Mastering, Written
<1>2. CASE WriteSectors
  BY <1>2 DEF WriteSectors, Sector, NextSector, Leads, Mastering, Written
<1>3. CASE Mastered
  BY <1>3 DEF Mastered, Got, Leads, VirtioPcs
<1> QED
  BY <1>1, <1>2, <1>3 DEF MasterStep

LEMMA DriverLeads == ASSUME CommandOK, DriverStep PROVE Leads
BY DEF DriverStep, virtioEnsure, virtioLook, virtioOpen, virtioReceive, virtioRename, Goto,
  command, job, Leads, VirtioPcs

LEMMA FailingLeads == ASSUME CommandOK, Failing PROVE Leads
<1> USE DEF Goto, command
<1>1. CASE Fail
  <2>1. pc \in (MctPcs \cup UupPcs \cup Mastering) \ {"mctLook", "uupLook"}
    BY <1>1 DEF Fail, Fallible, Sector, MctPcs, UupPcs, UupTry, Mastering, Written
  <2> QED
    BY <1>1, <2>1, FailedLeads DEF Fail
<1>2. CASE virtioFail \/ Crash
  BY <1>2 DEF virtioFail, Crash, Leads
<1> QED
  BY <1>1, <1>2 DEF Failing

LEMMA CommandStep == ASSUME CommandOK, [Next]_vars PROVE CommandOK'
<1>1. ASSUME NEW q \in Requests, Request(q) PROVE CommandOK'
  BY <1>1, Sources, MediaAssumption DEF Request, Goto, CommandOK, PcValues, MctPcs, UupPcs, UupTry,
    Mastering, Written, VirtioPcs, Lanes
<1>2. CASE Quiet
  BY <1>2 DEF Quiet, Publish, vars, job, command, CommandOK
<1> QED
  BY <1>1, <1>2, Steps, LeadsKeeps, MctLeads, UupLeads, TreeLeads, MasterLeads, DriverLeads, FailingLeads

-----------------------------------------------------------------------------
(* What is tried.                                                            *)

LEMMA PickInit == Init => PickOK
BY MediaAssumption DEF Init, PickOK, InHand, MctPcs, UupTry, Mastering, Written, MediaAssumption

\* A step within a build: what is tried stays as it is.
LEMMA PickKept ==
  ASSUME PickOK, UNCHANGED <<spec, lane, ladder, tries, build>>,
         pc \in {"uupPick"} \cup UupTry \cup Mastering => pc' \in {"uupPick"} \cup UupTry \cup Mastering,
         pc' \in InHand => pc \in InHand
  PROVE  PickOK'
BY DEF PickOK, MatchesBuild

\* A failure goes on with what is left to try.
LEMMA PickFailed ==
  ASSUME PickOK, CommandOK, Failed, UNCHANGED <<spec, ladder, tries>> PROVE PickOK'
<1>1. build' = None /\ pc' \in {"idle", "uupLook", "uupPick"}
      /\ (ladder # {} => pc' = "uupPick" /\ lane' = "uup")
  BY DEF Failed, Goto, PickOK, CommandOK, Lanes
<1>2. pc' \notin InHand
  BY <1>1 DEF InHand, MctPcs, UupTry, Mastering, Written
<1> QED
  BY <1>1, <1>2 DEF PickOK, MatchesBuild

LEMMA PickMct == ASSUME PickOK, CommandOK, RestOK, MctStep PROVE PickOK'
<1> USE DEF Goto, command, job
<1>1. CASE mctFind
  <2>1. build' \in Builds
    BY <1>1, MediaAssumption DEF mctFind, RestOK, MediaAssumption
  <2>2. pc' = "mctOpen" /\ lane' = "mct" /\ ladder = {} /\ UNCHANGED <<ladder, tries, spec>>
    BY <1>1 DEF mctFind, PickOK, CommandOK, MctPcs
  <2> QED
    BY <2>1, <2>2 DEF PickOK
<1>2. CASE mctReceived /\ ~Verified(Blocks(MctESD))
  BY <1>2, PickFailed DEF mctReceived
<1>3. CASE mctReceive
  BY <1>3, PickKept DEF mctReceive
<1>4. CASE mctLook
  <2>1. pc = "mctLook" /\ pc' \in {"mctFind", "idle"} \cup VirtioPcs
        /\ UNCHANGED <<spec, lane, ladder, tries, build>>
    BY <1>4 DEF mctLook, Got, VirtioPcs
  <2> QED
    BY <2>1, PickKept DEF InHand, MctPcs, UupTry, Mastering, Written, VirtioPcs
<1>5. CASE mctOpen \/ mctBootwim \/ mctInstall \/ (mctReceived /\ Verified(Blocks(MctESD)))
  <2>1. pc \in {"mctOpen", "mctLoad", "mctBootwim", "mctInstall"}
        /\ pc' \in {"mctLoad", "mctExtract", "mctInstall", "sidecar"}
        /\ UNCHANGED <<spec, lane, ladder, tries, build>>
    BY <1>5 DEF mctOpen, mctReceived, mctBootwim, mctInstall
  <2> QED
    BY <2>1, PickKept DEF InHand, MctPcs, UupTry, Mastering, Written
<1> QED
  BY <1>1, <1>2, <1>3, <1>4, <1>5 DEF MctStep

\* What is found answers to the specification.
LEMMA KeptMatches ==
  ASSUME NEW r, NEW answered, NEW h \in Kept(r, answered)
  PROVE  h[2] \in Builds /\ MatchesBuild(r, h[2])
BY DEF Kept, FilterGA, mergeSearches, Hits

LEMMA PickUup == ASSUME PickOK, CommandOK, UupStep PROVE PickOK'
<1> USE DEF Goto, command, job
<1>1. CASE uupLook
  <2>1. pc = "uupLook" /\ pc' \in {"uupFind", "idle"} \cup VirtioPcs
        /\ UNCHANGED <<spec, lane, ladder, tries, build>>
    BY <1>1 DEF uupLook, Got, VirtioPcs
  <2> QED
    BY <2>1, PickKept DEF InHand, MctPcs, UupTry, Mastering, Written, VirtioPcs
<1>2. CASE uupFind
  <2>1. /\ lane' = "uup" /\ pc' = "uupPick" /\ tries' = 0 /\ UNCHANGED <<spec, build>>
        /\ \E answered : ladder' = Kept(spec, answered)
    BY <1>2 DEF uupFind, CommandOK, UupPcs
  <2>2. \A h \in ladder' : h[2] \in Builds /\ MatchesBuild(spec, h[2])
    BY <2>1, KeptMatches
  <2>3. pc' \notin InHand /\ tries' \in 0..maxAttempts
    BY <2>1, MediaAssumption DEF MediaAssumption, InHand, MctPcs, UupTry, Mastering, Written
  <2> QED
    BY <2>1, <2>2, <2>3 DEF PickOK, MatchesBuild
<1>3. CASE uupPick
  <2>1. CASE ladder = {} \/ tries >= maxAttempts
    <3>1. pc' = "idle" /\ ladder' = {} /\ UNCHANGED <<tries, build>>
      BY <1>3, <2>1 DEF uupPick
    <3>2. pc' \notin InHand
      BY <3>1 DEF InHand, MctPcs, UupTry, Mastering, Written
    <3> QED
      BY <3>1, <3>2 DEF PickOK
  <2>2. CASE ~(ladder = {} \/ tries >= maxAttempts)
    <3>1. pc' = "uupLoad" /\ lane' = "uup" /\ UNCHANGED <<spec>> /\ tries' = tries + 1
      BY <1>3, <2>2 DEF uupPick, CommandOK, UupPcs
    <3>2. PICK h \in ladder : build' = h[2] /\ ladder' = ladder \ {h}
      BY <1>3, <2>2 DEF uupPick
    <3>3. tries' \in 0..maxAttempts
      BY <2>2, <3>1, MediaAssumption DEF PickOK, MediaAssumption
    <3> QED
      BY <3>1, <3>2, <3>3 DEF PickOK, MatchesBuild, UupTry
  <2> QED
    BY <2>1, <2>2
<1>4. CASE DownloadFiles
  <2>1. CASE \A f \in Esds : Verified(Blocks(f))
    <3>1. pc = "uupLoad" /\ pc' = "uupClear" /\ UNCHANGED <<spec, lane, ladder, tries, build>>
      BY <1>4, <2>1 DEF DownloadFiles
    <3> QED
      BY <3>1, PickKept DEF InHand, UupTry
  <2>2. CASE ~\A f \in Esds : Verified(Blocks(f))
    <3>1. Failed /\ UNCHANGED <<spec, ladder, tries>>
      BY <1>4, <2>2 DEF DownloadFiles
    <3> QED
      BY <3>1, PickFailed
  <2> QED
    BY <2>1, <2>2
<1>5. ASSUME NEW f \in Esds, downloadOne(f) \/ uupReceive(f) \/ uupReceived(f)
      PROVE  PickOK'
  <2>1. UNCHANGED <<spec, lane, pc, ladder, tries, build>>
    BY <1>5 DEF downloadOne, uupReceive, uupReceived
  <2> QED
    BY <2>1, PickKept
<1> QED
  BY <1>1, <1>2, <1>3, <1>4, <1>5 DEF UupStep

LEMMA PickTree == ASSUME PickOK, CommandOK, TreeStep PROVE PickOK'
<1> USE DEF Goto, command
<1>1. CASE uupInstall /\ ~(BootOnly \/ build \in Assembles)
  <2>1. Failed /\ UNCHANGED <<spec, ladder, tries>>
    BY <1>1 DEF uupInstall
  <2> QED
    BY <2>1, PickFailed
<1>2. CASE \/ clearGeneratedArtifacts \/ ExtractImage \/ buildBootWim \/ injectSetupIntoBootWim
           \/ (uupInstall /\ (BootOnly \/ build \in Assembles))
  <2>1. pc \in {"uupClear", "mctExtract", "uupExtract", "uupBootwim", "uupInject", "uupInstall"}
        /\ UNCHANGED <<spec, lane, ladder, tries, build>>
    BY <1>2 DEF clearGeneratedArtifacts, ExtractImage, buildBootWim, injectSetupIntoBootWim, uupInstall
  <2>2. CASE pc = "mctExtract"
    <3>1. pc' = "mctBootwim"
      BY <1>2, <2>2 DEF clearGeneratedArtifacts, ExtractImage, buildBootWim, injectSetupIntoBootWim,
        uupInstall, AfterExtract, CommandOK, MctPcs
    <3> QED
      BY <2>1, <2>2, <3>1, PickKept DEF InHand, MctPcs, UupTry, Mastering, Written
  <2>3. CASE pc # "mctExtract"
    <3>1. pc' \in {"uupExtract", "uupBootwim", "uupInject", "uupInstall", "sidecar"}
      BY <1>2, <2>3 DEF clearGeneratedArtifacts, ExtractImage, buildBootWim, injectSetupIntoBootWim,
        uupInstall, AfterExtract, CommandOK, UupPcs, UupTry
    <3> QED
      BY <2>1, <2>3, <3>1, PickKept DEF InHand, UupTry, Mastering
  <2> QED
    BY <2>2, <2>3
<1> QED
  BY <1>1, <1>2 DEF TreeStep

LEMMA PickMaster == ASSUME PickOK, CommandOK, MasterStep PROVE PickOK'
<1> USE DEF Goto, command
<1>1. CASE writeBootloaderSidecar \/ createWindowsISO \/ WriteSectors
  <2>1. pc \in Mastering /\ pc' \in Mastering /\ UNCHANGED <<spec, lane, ladder, tries, build>>
    BY <1>1 DEF writeBootloaderSidecar, createWindowsISO, WriteSectors, Sector, NextSector,
      Mastering, Written
  <2> QED
    BY <2>1, PickKept DEF InHand
<1>2. CASE Mastered
  <2>1. ladder' = {} /\ UNCHANGED <<tries, build>> /\ pc' \in {"idle", "virtioEnsure"}
    BY <1>2 DEF Mastered, Got
  <2>2. pc' \notin InHand
    BY <2>1 DEF InHand, MctPcs, UupTry, Mastering, Written
  <2> QED
    BY <2>1, <2>2 DEF PickOK
<1> QED
  BY <1>1, <1>2 DEF MasterStep

LEMMA PickStep == ASSUME PickOK, CommandOK, RestOK, [Next]_vars PROVE PickOK'
<1>1. ASSUME NEW q \in Requests, Request(q) PROVE PickOK'
  <2>1. ladder = {} /\ UNCHANGED <<ladder, tries, build>>
        /\ pc' \in {"mctLook", "uupLook", "virtioLook", "idle"}
    BY <1>1, Sources, MediaAssumption DEF Request, Goto, PickOK, UupTry, Mastering, Written
  <2>2. pc' \notin InHand
    BY <2>1 DEF InHand, MctPcs, UupTry, Mastering, Written
  <2> QED
    BY <2>1, <2>2 DEF PickOK
<1>2. CASE Quiet
  BY <1>2, PickKept DEF Quiet, Publish, vars, job, command
<1>3. CASE DriverStep
  <2>1. pc \in VirtioPcs /\ pc' \in VirtioPcs \cup {"idle"}
        /\ UNCHANGED <<spec, lane, ladder, tries, build>>
    BY <1>3 DEF DriverStep, virtioEnsure, virtioLook, virtioOpen, virtioReceive, virtioRename,
      Goto, command, job, VirtioPcs
  <2> QED
    BY <2>1, PickKept DEF InHand, MctPcs, UupTry, Mastering, Written, VirtioPcs
<1>4. CASE Failing
  <2>1. CASE Fail
    BY <2>1, PickFailed DEF Fail, command
  <2>2. CASE Crash
    <3>1. pc' = "idle" /\ ladder' = {} /\ build' = None /\ UNCHANGED <<tries>>
      BY <2>2 DEF Crash, Goto
    <3> QED
      BY <3>1 DEF PickOK, InHand, MctPcs, UupTry, Mastering, Written
  <2>3. CASE virtioFail
    <3>1. pc \in VirtioPcs /\ pc' = "idle" /\ UNCHANGED <<spec, lane, ladder, tries, build>>
      BY <2>3 DEF virtioFail, Goto, command, VirtioPcs
    <3> QED
      BY <3>1, PickKept DEF InHand, MctPcs, UupTry, Mastering, Written, VirtioPcs
  <2> QED
    BY <1>4, <2>1, <2>2, <2>3 DEF Failing
<1> QED
  BY <1>1, <1>2, <1>3, <1>4, Steps, PickMct, PickUup, PickTree, PickMaster

-----------------------------------------------------------------------------
(* The transfers.                                                            *)

LEMMA LoadInit == Init => LoadOK
BY FS_EmptySet, MediaAssumption DEF Init, LoadOK, EsdNames, MediaAssumption

LEMMA LoadKept == ASSUME LoadOK, UNCHANGED <<active, todo, esd>> PROVE LoadOK'
BY DEF LoadOK

\* No transfer is under way.
LEMMA LoadNone ==
  ASSUME LoadOK, active' = {}, todo' \in {{}, Esds, todo}, UNCHANGED esd PROVE LoadOK'
BY FS_EmptySet, MediaAssumption DEF LoadOK, MediaAssumption

\* The file of one ESD changes.
LEMMA EsdSet ==
  ASSUME LoadOK, NEW b \in Builds, NEW f \in EsdNames, NEW c \in Seq(BOOLEAN), Len(c) <= Size,
         esd' = [esd EXCEPT ![b][f] = c]
  PROVE  /\ esd' \in [Builds -> [EsdNames -> Seq(BOOLEAN)]]
         /\ \A d \in Builds, g \in EsdNames : Len(esd'[d][g]) <= Size
<1>1. esd' \in [Builds -> [EsdNames -> Seq(BOOLEAN)]]
  BY DEF LoadOK
<1>2. ASSUME NEW d \in Builds, NEW g \in EsdNames
      PROVE  esd'[d][g] = IF d = b /\ g = f THEN c ELSE esd[d][g]
  BY DEF LoadOK
<1> QED
  BY <1>1, <1>2 DEF LoadOK

\* A block arrives.
LEMMA Received ==
  ASSUME LoadOK, build \in Builds, NEW f \in EsdNames, Receive(f)
  PROVE  /\ esd' \in [Builds -> [EsdNames -> Seq(BOOLEAN)]]
         /\ \A d \in Builds, g \in EsdNames : Len(esd'[d][g]) <= Size
<1>1. PICK right \in BOOLEAN : esd' = [esd EXCEPT ![build][f] = Append(@, right)]
  BY DEF Receive
<1>2. Blocks(f) \in Seq(BOOLEAN) /\ Len(Blocks(f)) < Size
  BY DEF Receive, Blocks, LoadOK
<1>3. Append(Blocks(f), right) \in Seq(BOOLEAN) /\ Len(Append(Blocks(f), right)) = Len(Blocks(f)) + 1
  BY <1>2
<1>4. esd' = [esd EXCEPT ![build][f] = Append(Blocks(f), right)]
  BY <1>1 DEF Blocks
<1>5. Len(Append(Blocks(f), right)) <= Size
  BY <1>2, <1>3, MediaAssumption DEF MediaAssumption
<1> QED
  BY <1>3, <1>4, <1>5, EsdSet

LEMMA LoadMct == ASSUME LoadOK, CommandOK, PickOK, MctStep PROVE LoadOK'
<1> USE DEF job
<1>1. <<>> \in Seq(BOOLEAN) /\ Len(<<>>) <= Size
  BY MediaAssumption DEF MediaAssumption
<1>2. MctESD \in EsdNames
  BY DEF EsdNames
<1>3. pc \in {"mctOpen", "mctLoad"} => build \in Builds
  BY DEF PickOK, InHand, MctPcs
<1>4. CASE mctLook \/ mctFind \/ mctBootwim \/ mctInstall
  BY <1>4, LoadKept DEF mctLook, mctFind, mctBootwim, mctInstall
<1>5. CASE mctOpen
  <2>1. UNCHANGED <<active, todo>> /\ pc = "mctOpen"
        /\ (UNCHANGED esd \/ esd' = [esd EXCEPT ![build][MctESD] = <<>>])
    BY <1>5 DEF mctOpen
  <2> QED
    BY <1>1, <1>2, <1>3, <2>1, EsdSet DEF LoadOK
<1>6. CASE mctReceive
  <2>1. UNCHANGED <<active, todo>> /\ pc = "mctLoad" /\ Receive(MctESD)
    BY <1>6 DEF mctReceive
  <2> QED
    BY <1>2, <1>3, <2>1, Received DEF LoadOK
<1>7. CASE mctReceived
  <2>1. CASE Verified(Blocks(MctESD))
    BY <1>7, <2>1, LoadKept DEF mctReceived
  <2>2. CASE ~Verified(Blocks(MctESD))
    <3>1. active' = {} /\ todo' = {} /\ pc = "mctLoad" /\ esd' = [esd EXCEPT ![build][MctESD] = <<>>]
      BY <1>7, <2>2 DEF mctReceived, Failed
    <3>2. Cardinality(active') <= Concurrency
      BY <3>1, FS_EmptySet, MediaAssumption DEF MediaAssumption
    <3> QED
      BY <1>1, <1>2, <1>3, <3>1, <3>2, EsdSet DEF LoadOK
  <2> QED
    BY <2>1, <2>2
<1> QED
  BY <1>4, <1>5, <1>6, <1>7 DEF MctStep

LEMMA LoadUup == ASSUME LoadOK, CommandOK, PickOK, UupStep PROVE LoadOK'
<1> USE DEF job
<1>1. <<>> \in Seq(BOOLEAN) /\ Len(<<>>) <= Size
  BY MediaAssumption DEF MediaAssumption
<1>2. Esds \subseteq EsdNames
  BY DEF EsdNames
<1>3. pc = "uupLoad" => build \in Builds
  BY DEF PickOK, InHand, UupTry
<1>4. IsFiniteSet(active)
  BY FS_Subset, MediaAssumption DEF LoadOK, MediaAssumption
<1>5. CASE uupLook \/ uupFind
  BY <1>5, LoadKept DEF uupLook, uupFind
<1>6. CASE uupPick
  <2>1. active' = {} /\ todo' \in {todo, Esds} /\ UNCHANGED esd
    BY <1>6 DEF uupPick
  <2> QED
    BY <2>1, LoadNone
<1>7. CASE DownloadFiles
  <2>1. active' = {} /\ todo' = {} /\ UNCHANGED esd
    BY <1>7 DEF DownloadFiles, Failed
  <2> QED
    BY <2>1, LoadNone
<1>8. ASSUME NEW f \in Esds, downloadOne(f) PROVE LoadOK'
  <2>1. /\ pc = "uupLoad" /\ f \in todo /\ Cardinality(active) < Concurrency
        /\ todo' = todo \ {f} /\ (active' = active \/ active' = active \cup {f})
    BY <1>8 DEF downloadOne
  <2>2. PICK again \in {<<>>} \cup {c \in {Blocks(f)} : Verified(c) \/ Len(c) < Size} :
          esd' = [esd EXCEPT ![build][f] = again]
    BY <1>8 DEF downloadOne
  <2>3. again \in Seq(BOOLEAN) /\ Len(again) <= Size
    <3>1. Blocks(f) \in Seq(BOOLEAN) /\ Len(Blocks(f)) <= Size
      BY <1>2, <1>3, <2>1 DEF LoadOK, Blocks
    <3>2. again = <<>> \/ again = Blocks(f)
      BY <2>2
    <3> QED
      BY <1>1, <3>1, <3>2
  <2>4. /\ esd' \in [Builds -> [EsdNames -> Seq(BOOLEAN)]]
        /\ \A d \in Builds, g \in EsdNames : Len(esd'[d][g]) <= Size
    BY <1>2, <1>3, <2>1, <2>2, <2>3, EsdSet
  <2>5. Cardinality(active') <= Concurrency
    <3>1. Cardinality(active) \in Nat /\ Concurrency \in Nat
      BY <1>4, FS_CardinalityType, MediaAssumption DEF MediaAssumption
    <3>2. Cardinality(active \cup {f}) \in {Cardinality(active), Cardinality(active) + 1}
      <4>1. Cardinality(active \cup {f}) = IF f \in active THEN Cardinality(active) ELSE Cardinality(active) + 1
        BY <1>4, FS_AddElement, Zenon
      <4> QED
        BY <4>1, Zenon
    <3>3. Cardinality(active') \in {Cardinality(active), Cardinality(active) + 1}
      BY <2>1, <3>2, Zenon
    <3> QED
      BY <2>1, <3>1, <3>3
  <2> QED
    BY <2>1, <2>4, <2>5 DEF LoadOK
<1>9. ASSUME NEW f \in Esds, uupReceive(f) PROVE LoadOK'
  <2>1. pc = "uupLoad" /\ Receive(f) /\ UNCHANGED <<active, todo>>
    BY <1>9 DEF uupReceive
  <2> QED
    BY <1>2, <1>3, <2>1, Received DEF LoadOK
<1>10. ASSUME NEW f \in Esds, uupReceived(f) PROVE LoadOK'
  <2>1. /\ pc = "uupLoad" /\ f \in active /\ active' = active \ {f} /\ UNCHANGED todo
        /\ (UNCHANGED esd \/ esd' = [esd EXCEPT ![build][f] = <<>>])
    BY <1>10 DEF uupReceived
  <2>2. Cardinality(active') <= Concurrency
    <3>1. Cardinality(active) \in Nat /\ Concurrency \in Nat
      BY <1>4, FS_CardinalityType, MediaAssumption DEF MediaAssumption
    <3>2. Cardinality(active \ {f}) = Cardinality(active) - 1
      BY <1>4, <2>1, FS_RemoveElement, Zenon
    <3>3. Cardinality(active') = Cardinality(active) - 1
      BY <2>1, <3>2, Zenon
    <3> QED
      BY <3>1, <3>3 DEF LoadOK
  <2> QED
    BY <1>1, <1>2, <1>3, <2>1, <2>2, EsdSet DEF LoadOK
<1> QED
  BY <1>5, <1>6, <1>7, <1>8, <1>9, <1>10 DEF UupStep

LEMMA LoadStep == ASSUME LoadOK, CommandOK, PickOK, [Next]_vars PROVE LoadOK'
<1>1. ASSUME NEW q \in Requests, Request(q) PROVE LoadOK'
  <2>1. CASE q.noCache
    <3>1. esd' = [b \in Builds |-> [f \in EsdNames |-> <<>>]] /\ UNCHANGED <<active, todo>>
      BY <1>1, <2>1 DEF Request, clearCache, EsdNames
    <3> QED
      BY <3>1, MediaAssumption DEF LoadOK, MediaAssumption
  <2>2. CASE ~q.noCache
    BY <1>1, <2>2, LoadKept DEF Request
  <2> QED
    BY <2>1, <2>2
<1>2. CASE TreeStep
  <2>1. UNCHANGED esd /\ (UNCHANGED <<active, todo>> \/ (active' = {} /\ todo' = {}))
    BY <1>2 DEF TreeStep, clearGeneratedArtifacts, ExtractImage, buildBootWim,
      injectSetupIntoBootWim, uupInstall, Failed
  <2> QED
    BY <2>1, LoadKept, LoadNone
<1>3. CASE MasterStep
  BY <1>3, LoadKept DEF MasterStep, writeBootloaderSidecar, createWindowsISO, WriteSectors, Mastered
<1>4. CASE DriverStep
  BY <1>4, LoadKept DEF DriverStep, virtioEnsure, virtioLook, virtioOpen, virtioReceive,
    virtioRename, job
<1>5. CASE Failing
  <2>1. UNCHANGED esd /\ (UNCHANGED <<active, todo>> \/ (active' = {} /\ todo' = {}))
    BY <1>5 DEF Failing, Fail, virtioFail, Crash, Failed
  <2> QED
    BY <2>1, LoadKept, LoadNone
<1>6. CASE Quiet
  BY <1>6, LoadKept DEF Quiet, Publish, vars, job
<1> QED
  BY <1>1, <1>2, <1>3, <1>4, <1>5, <1>6, Steps, LoadMct, LoadUup

-----------------------------------------------------------------------------
(* The work trees.                                                           *)

LEMMA WimTyped ==
  ASSUME NEW pe \in Origins, NEW setup \in [SetupFiles -> Origins]
  PROVE  BootWim(pe, setup) \in WimType /\ BootWim(pe, setup).is = "file"
<1>1. FALSE \in BOOLEAN
  BY Truth
<1> QED
  BY <1>1 DEF BootWim, WimType

LEMMA WimChanged ==
  ASSUME NEW wim \in WimType, wim.is = "file"
  PROVE  /\ [wim EXCEPT !.reused = TRUE] \in WimType
         /\ \A setup \in [SetupFiles -> Origins] : [wim EXCEPT !.setup = setup] \in WimType
<1>1. TRUE \in BOOLEAN
  BY Truth
<1>2. wim \in [is : {"file"}, pe : Origins, setup : [SetupFiles -> Origins], reused : BOOLEAN]
  BY DEF WimType, NoWim
<1> QED
  BY <1>1, <1>2 DEF WimType

LEMMA InstallTyped ==
  ASSUME NEW b \in Origins PROVE InstallWim(b) \in InstallType
BY DEF InstallWim, InstallType

LEMMA OriginTyped == ASSUME build \in Builds PROVE Origin \in Origins
BY DEF Origin, Origins

LEMMA TreeInit == Init => TreeOK
<1>1. NoWim \in WimType /\ NoWim \in InstallType /\ None \in Origins
  BY DEF WimType, InstallType, Origins
<1> QED
  BY <1>1 DEF Init, TreeOK

LEMMA TreeKept == ASSUME TreeOK, UNCHANGED work, pc' = "uupInject" => pc = "uupInject" PROVE TreeOK'
BY DEF TreeOK, work

\* What is extracted goes over what the tree holds.
LEMMA ExtractedTyped ==
  ASSUME TreeOK, lane \in Lanes, build \in Builds, NEW files
  PROVE  Extracted(files) \in [Lanes -> [StageFiles -> Origins]]
<1>1. [f \in StageFiles |-> IF f \in files THEN Origin ELSE stage[lane][f]] \in [StageFiles -> Origins]
  BY OriginTyped DEF TreeOK
<1> QED
  BY <1>1 DEF Extracted, TreeOK

LEMMA TreeMct == ASSUME TreeOK, CommandOK, PickOK, MctStep PROVE TreeOK'
<1> USE DEF job, work
<1>1. CASE mctBootwim
  <2>1. build \in Builds
    BY <1>1 DEF mctBootwim, PickOK, InHand, MctPcs
  <2>2. Origin \in Origins /\ [f \in SetupFiles |-> Origin] \in [SetupFiles -> Origins]
    BY <2>1, OriginTyped
  <2>3. BootWim(Origin, [f \in SetupFiles |-> Origin]) \in WimType
    BY <2>2, WimTyped
  <2>4. bootwim' = [bootwim EXCEPT !["mct"] = BootWim(Origin, [f \in SetupFiles |-> Origin])]
        /\ UNCHANGED <<stage, install>> /\ pc' = "mctInstall"
    BY <1>1 DEF mctBootwim, Goto
  <2> QED
    BY <2>3, <2>4 DEF TreeOK, Lanes
<1>2. CASE mctInstall
  <2>1. build \in Builds
    BY <1>2 DEF mctInstall, PickOK, InHand, MctPcs
  <2>2. InstallWim(Origin) \in InstallType
    BY <2>1, OriginTyped, InstallTyped
  <2>3. install' = [install EXCEPT !["mct"] = InstallWim(Origin)]
        /\ UNCHANGED <<stage, bootwim>> /\ pc' = "sidecar"
    BY <1>2 DEF mctInstall, Goto
  <2> QED
    BY <2>2, <2>3 DEF TreeOK, Lanes
<1>3. CASE mctLook \/ mctFind \/ mctOpen \/ mctReceive \/ mctReceived
  <2>1. UNCHANGED work /\ pc' # "uupInject"
    <3>1. CASE mctLook \/ mctFind \/ mctOpen
      BY <3>1 DEF mctLook, mctFind, mctOpen, Got, Goto
    <3>2. CASE mctReceive \/ mctReceived
      BY <3>2 DEF mctReceive, mctReceived, Failed, Goto
    <3> QED
      BY <1>3, <3>1, <3>2
  <2> QED
    BY <2>1, TreeKept
<1> QED
  BY <1>1, <1>2, <1>3 DEF MctStep

LEMMA TreeTree == ASSUME TreeOK, CommandOK, PickOK, TreeStep PROVE TreeOK'
<1> USE DEF Goto
<1>1. build \in Builds
  BY DEF TreeStep, clearGeneratedArtifacts, ExtractImage, buildBootWim, injectSetupIntoBootWim,
    uupInstall, PickOK, InHand, MctPcs, UupTry
<1>2. Origin \in Origins
  BY <1>1, OriginTyped
<1>3. CASE clearGeneratedArtifacts
  <2>1. NoWim \in WimType /\ NoWim \in InstallType
    BY DEF WimType, InstallType
  <2>2. canReuseBootWim => [bootwim["uup"] EXCEPT !.reused = TRUE] \in WimType
    BY WimChanged DEF canReuseBootWim, TreeOK, Lanes
  <2>3. /\ install' = [install EXCEPT !["uup"] = NoWim] /\ UNCHANGED stage /\ pc' = "uupExtract"
        /\ bootwim' = [bootwim EXCEPT !["uup"] =
             IF canReuseBootWim THEN [bootwim["uup"] EXCEPT !.reused = TRUE] ELSE NoWim]
    BY <1>3 DEF clearGeneratedArtifacts
  <2> QED
    BY <2>1, <2>2, <2>3 DEF TreeOK, Lanes
<1>4. CASE ExtractImage
  <2>1. stage' \in [Lanes -> [StageFiles -> Origins]]
    BY <1>1, <1>4, ExtractedTyped DEF ExtractImage, CommandOK
  <2>2. UNCHANGED <<bootwim, install>> /\ pc' # "uupInject"
    BY <1>4 DEF ExtractImage, AfterExtract
  <2> QED
    BY <2>1, <2>2 DEF TreeOK
<1>5. CASE buildBootWim
  <2>1. [f \in SetupFiles |-> None] \in [SetupFiles -> Origins]
    BY DEF Origins
  <2>2. BootWim(Origin, [f \in SetupFiles |-> None]) \in WimType
        /\ BootWim(Origin, [f \in SetupFiles |-> None]).is = "file"
    BY <1>2, <2>1, WimTyped
  <2>3. bootwim' = [bootwim EXCEPT !["uup"] = BootWim(Origin, [f \in SetupFiles |-> None])]
        /\ UNCHANGED <<stage, install>>
    BY <1>5 DEF buildBootWim
  <2> QED
    BY <2>2, <2>3 DEF TreeOK, Lanes
<1>6. CASE injectSetupIntoBootWim
  <2>1. [f \in SetupFiles |-> stage["uup"][f]] \in [SetupFiles -> Origins]
    BY DEF TreeOK, Lanes, StageFiles
  <2>2. bootwim["uup"] \in WimType /\ bootwim["uup"].is = "file"
    BY <1>6 DEF injectSetupIntoBootWim, TreeOK, Lanes
  <2>3. [bootwim["uup"] EXCEPT !.setup = [f \in SetupFiles |-> stage["uup"][f]]] \in WimType
    BY <2>1, <2>2, WimChanged
  <2>4. bootwim' = [bootwim EXCEPT !["uup"] =
          [bootwim["uup"] EXCEPT !.setup = [f \in SetupFiles |-> stage["uup"][f]]]]
        /\ UNCHANGED <<stage, install>> /\ pc' = "uupInstall"
    BY <1>6 DEF injectSetupIntoBootWim
  <2> QED
    BY <2>3, <2>4 DEF TreeOK, Lanes
<1>7. CASE uupInstall
  <2>1. UNCHANGED <<stage, bootwim>> /\ pc' # "uupInject"
        /\ (UNCHANGED install \/ install' = [install EXCEPT !["uup"] = InstallWim(Origin)])
    BY <1>7 DEF uupInstall, Failed
  <2> QED
    BY <1>2, <2>1, InstallTyped DEF TreeOK, Lanes
<1> QED
  BY <1>3, <1>4, <1>5, <1>6, <1>7 DEF TreeStep

\* What a step leaves that ends in its middle.
LEMMA TreeTorn == ASSUME TreeOK, CommandOK, PickOK, Leavings, pc' # "uupInject" PROVE TreeOK'
<1>1. "torn" \in Origins /\ [f \in SetupFiles |-> None] \in [SetupFiles -> Origins]
  BY DEF Origins
<1>2. TornWim \in WimType
  BY <1>1, WimTyped DEF TornWim
<1>3. InstallWim("torn") \in InstallType
  BY <1>1, InstallTyped
<1>4. stage' \in [Lanes -> [StageFiles -> Origins]]
  <2>1. CASE pc \in {"mctExtract", "uupExtract"}
    <3>1. lane \in Lanes /\ build \in Builds
      BY <2>1 DEF CommandOK, PickOK, InHand, MctPcs, UupTry
    <3>2. PICK S \in SUBSET Media[build] : stage' = Extracted(S)
      BY <2>1 DEF Leavings
    <3> QED
      BY <3>1, <3>2, ExtractedTyped
  <2>2. CASE pc \notin {"mctExtract", "uupExtract"}
    BY <2>2 DEF Leavings, TreeOK
  <2> QED
    BY <2>1, <2>2
<1>5. bootwim' \in [Lanes -> WimType]
  <2>1. bootwim' = bootwim \/ bootwim' = [bootwim EXCEPT ![lane] = TornWim]
    BY DEF Leavings
  <2> QED
    BY <1>2, <2>1 DEF TreeOK
<1>6. install' \in [Lanes -> InstallType]
  <2>1. install' = install \/ install' = [install EXCEPT ![lane] = InstallWim("torn")]
    BY DEF Leavings
  <2> QED
    BY <1>3, <2>1 DEF TreeOK
<1> QED
  BY <1>4, <1>5, <1>6 DEF TreeOK

LEMMA TreeStepOK == ASSUME TreeOK, CommandOK, PickOK, [Next]_vars PROVE TreeOK'
<1> USE DEF Goto
<1>1. ASSUME NEW q \in Requests, Request(q) PROVE TreeOK'
  <2>1. pc' # "uupInject"
    BY <1>1, Sources, MediaAssumption DEF Request
  <2>2. CASE q.noCache
    <3>1. /\ stage' = [l \in Lanes |-> [f \in StageFiles |-> None]]
          /\ bootwim' = [l \in Lanes |-> NoWim] /\ install' = [l \in Lanes |-> NoWim]
      BY <1>1, <2>2 DEF Request, clearCache
    <3>2. NoWim \in WimType /\ NoWim \in InstallType /\ None \in Origins
      BY DEF WimType, InstallType, Origins
    <3> QED
      BY <2>1, <3>1, <3>2 DEF TreeOK
  <2>3. CASE ~q.noCache
    BY <1>1, <2>1, <2>3, TreeKept DEF Request
  <2> QED
    BY <2>2, <2>3
<1>2. CASE UupStep
  <2>1. UNCHANGED work
    BY <1>2 DEF UupStep, uupLook, uupFind, uupPick, DownloadFiles, downloadOne, uupReceive, uupReceived
  <2>2. pc' # "uupInject"
    <3>1. CASE uupLook \/ uupFind \/ uupPick \/ DownloadFiles
      BY <3>1 DEF uupLook, uupFind, uupPick, DownloadFiles, Got, Failed
    <3>2. ASSUME NEW f \in Esds, downloadOne(f) \/ uupReceive(f) \/ uupReceived(f)
          PROVE  pc' # "uupInject"
      BY <3>2 DEF downloadOne, uupReceive, uupReceived, job
    <3> QED
      BY <1>2, <3>1, <3>2 DEF UupStep
  <2> QED
    BY <2>1, <2>2, TreeKept
<1>3. CASE MasterStep
  <2>1. UNCHANGED work /\ pc' # "uupInject"
    BY <1>3 DEF MasterStep, writeBootloaderSidecar, createWindowsISO, WriteSectors, Mastered,
      Got, Sector, NextSector
  <2> QED
    BY <2>1, TreeKept
<1>4. CASE DriverStep
  <2>1. UNCHANGED work /\ (pc' = "uupInject" => pc = "uupInject")
    BY <1>4 DEF DriverStep, virtioEnsure, virtioLook, virtioOpen, virtioReceive, virtioRename, job
  <2> QED
    BY <2>1, TreeKept
<1>5. CASE Failing
  <2>1. CASE Fail \/ Crash
    <3>1. Leavings /\ pc' # "uupInject"
      BY <2>1 DEF Fail, Crash, Failed
    <3> QED
      BY <3>1, TreeTorn
  <2>2. CASE virtioFail
    BY <2>2, TreeKept DEF virtioFail
  <2> QED
    BY <1>5, <2>1, <2>2 DEF Failing
<1>6. CASE Quiet
  BY <1>6, TreeKept DEF Quiet, Publish, vars, job
<1> QED
  BY <1>1, <1>2, <1>3, <1>4, <1>5, <1>6, Steps, TreeMct, TreeTree

-----------------------------------------------------------------------------
(* The ISOs.                                                                 *)

LEMMA ImageTyped ==
  ASSUME TreeOK, lane \in Lanes, NEW S \in SUBSET {"files", "image", "catalog", "record"}
  PROVE  Image(S) \in ISOType
BY DEF Image, ISOType, TreeOK

LEMMA ImageSectors == \A S, T : [Image(S) EXCEPT !.sectors = T] = Image(T) /\ Image(S).sectors = S
                                /\ Image(S).is = "file" /\ Image(S).tree = stage[lane]
                                /\ Image(S).bootwim = bootwim[lane] /\ Image(S).install = install[lane]
BY DEF Image

LEMMA NoISOTyped == NoISO \in ISOType /\ NoISO.is # "file" /\ ~RequireEFIBootable(NoISO)
BY DEF NoISO, ISOType, RequireEFIBootable

LEMMA WholeTyped == ASSUME NEW b \in Builds PROVE WholeISO(b) \in ISOType
<1>1. b \in Origins /\ [f \in SetupFiles |-> b] \in [SetupFiles -> Origins]
  BY DEF Origins
<1>2. BootWim(b, [f \in SetupFiles |-> b]) \in WimType /\ InstallWim(b) \in InstallType
  BY <1>1, WimTyped, InstallTyped
<1> QED
  BY <1>1, <1>2 DEF WholeISO, ISOType

LEMMA ShelfInit == Init => ShelfOK
<1> SUFFICES ASSUME Init PROVE ShelfOK
  OBVIOUS
<1>1. isos = [n \in Paths |-> IF n = Legacy /\ alias = File THEN WholeISO(OldISO) ELSE NoISO]
      /\ alias \in {NoLink, File} /\ pc = "idle" /\ sidecar = [n \in Names |-> None]
  BY DEF Init, Paths
<1>2. isos \in [Paths -> ISOType]
  BY <1>1, NoISOTyped, WholeTyped, MediaAssumption DEF MediaAssumption
<1>3. isos[Legacy].is = "file" => alias = File
  BY <1>1, NoISOTyped DEF Paths
<1>4. None \in Origins
  BY DEF Origins
<1> QED
  BY <1>1, <1>2, <1>3, <1>4 DEF ShelfOK, Written

LEMMA ShelfKept == ASSUME ShelfOK, UNCHANGED shelf, pc' \notin Written PROVE ShelfOK'
BY DEF ShelfOK, shelf

\* The ISO at one of the names changes, and nothing is being written.
LEMMA IsoSet ==
  ASSUME ShelfOK, NEW n \in Names, NEW iso \in ISOType, isos' = [isos EXCEPT ![n] = iso]
  PROVE  isos' \in [Paths -> ISOType] /\ isos'[Legacy] = isos[Legacy] /\ isos'[n] = iso
BY NamesApart DEF ShelfOK, Paths

\* What is discarded.
LEMMA DiscardOK ==
  ASSUME ShelfOK, NEW paths, Discard(paths), UNCHANGED sidecar, pc' \notin Written PROVE ShelfOK'
<1>1. isos' = [n \in Paths |-> IF n \in paths THEN NoISO ELSE isos[n]]
  BY DEF Discard, ShelfOK
<1>2. isos' \in [Paths -> ISOType]
  BY <1>1, NoISOTyped DEF ShelfOK
<1>3. alias' \in Names \cup {NoLink, File}
  BY DEF Discard, ShelfOK
<1>4. isos'[Legacy].is = "file" => alias' = File
  <2>1. CASE Legacy \in paths
    BY <1>1, <2>1, NoISOTyped DEF Paths
  <2>2. CASE Legacy \notin paths
    BY <1>1, <2>2 DEF Paths, Discard, ShelfOK
  <2> QED
    BY <2>1, <2>2
<1> QED
  BY <1>2, <1>3, <1>4 DEF ShelfOK

LEMMA ShelfMct == ASSUME ShelfOK, CommandOK, MctStep PROVE ShelfOK'
<1> USE DEF Goto, job
<1>1. CASE mctLook
  <2>1. /\ isos' = isos \/ isos' = [isos EXCEPT ![Name] = NoISO]
        /\ UNCHANGED <<alias, sidecar>> /\ pc = "mctLook" /\ pc' \in {"mctFind", "virtioEnsure", "idle"}
    BY <1>1 DEF mctLook, Got
  <2>2. pc' \notin Written
    BY <2>1 DEF Written
  <2> QED
    BY <2>1, <2>2, NameTyped, NoISOTyped, IsoSet DEF ShelfOK
<1>2. CASE mctReceive
  BY <1>2 DEF mctReceive, ShelfOK, shelf, Written
<1>3. CASE mctFind \/ mctOpen \/ mctReceived \/ mctBootwim \/ mctInstall
  <2>1. UNCHANGED shelf
    BY <1>3 DEF mctFind, mctOpen, mctReceived, mctBootwim, mctInstall
  <2>2. pc' \notin Written
    BY <1>3 DEF mctFind, mctOpen, mctReceived, mctBootwim, mctInstall, Failed, Written
  <2> QED
    BY <2>1, <2>2, ShelfKept
<1> QED
  BY <1>1, <1>2, <1>3 DEF MctStep

LEMMA ShelfUup == ASSUME ShelfOK, CommandOK, UupStep PROVE ShelfOK'
<1> USE DEF Goto, job
<1>1. CASE uupLook
  <2>1. /\ UNCHANGED <<isos, alias>> \/ \E paths : Discard(paths)
        /\ UNCHANGED sidecar /\ pc' \in {"uupFind", "virtioEnsure", "idle"}
    BY <1>1 DEF uupLook, Got
  <2>2. pc' \notin Written
    BY <2>1 DEF Written
  <2> QED
    BY <2>1, <2>2, DiscardOK, ShelfKept DEF shelf
<1>2. CASE uupFind \/ uupPick \/ DownloadFiles
  <2>1. UNCHANGED shelf /\ pc' \notin Written
    BY <1>2 DEF uupFind, uupPick, DownloadFiles, Failed, Written
  <2> QED
    BY <2>1, ShelfKept
<1>3. ASSUME NEW f \in Esds, downloadOne(f) \/ uupReceive(f) \/ uupReceived(f) PROVE ShelfOK'
  <2>1. UNCHANGED shelf /\ pc' = pc /\ pc = "uupLoad"
    BY <1>3 DEF downloadOne, uupReceive, uupReceived
  <2> QED
    BY <2>1, ShelfKept DEF Written
<1> QED
  BY <1>1, <1>2, <1>3 DEF UupStep

LEMMA ShelfMaster == ASSUME ShelfOK, CommandOK, PickOK, TreeOK, MasterStep PROVE ShelfOK'
<1> USE DEF Goto, command
<1>1. pc \in Mastering /\ Name \in Names /\ Name \in Paths /\ lane \in Lanes
  <2>1. pc \in Mastering
    BY DEF MasterStep, writeBootloaderSidecar, createWindowsISO, WriteSectors, Mastered, Sector,
      Mastering, Written
  <2>2. pc # "idle"
    BY <2>1 DEF Mastering, Written
  <2> QED
    BY <2>1, <2>2, NameTyped DEF CommandOK
<1>2. CASE writeBootloaderSidecar
  <2>1. stage[lane]["efi"] \in Origins /\ "torn" \in Origins
    BY <1>1 DEF TreeOK, StageFiles, Origins
  <2>2. /\ \/ sidecar' = [sidecar EXCEPT ![Name] = stage[lane]["efi"]]
           \/ sidecar' = [sidecar EXCEPT ![Name] = "torn"]
        /\ UNCHANGED <<isos, alias>> /\ pc' = "master"
    BY <1>2 DEF writeBootloaderSidecar
  <2> QED
    BY <1>1, <2>1, <2>2 DEF ShelfOK, Written
<1>3. CASE createWindowsISO
  <2>1. PICK S \in SUBSET {"files", "image", "catalog", "record"} : isos' = [isos EXCEPT ![Name] = Image(S)]
    BY <1>3 DEF createWindowsISO
  <2>2. UNCHANGED <<alias, sidecar, stage, bootwim, install, lane, req, spec>>
    BY <1>3 DEF createWindowsISO, work
  <2>3. Image(S) \in ISOType
    BY <1>1, ImageTyped
  <2>4. isos' \in [Paths -> ISOType] /\ isos'[Legacy] = isos[Legacy] /\ isos'[Name] = Image(S)
    BY <1>1, <2>1, <2>3, IsoSet
  <2>5. Name' = Name /\ Image(S)' = Image(S) /\ Image(S).sectors = S
    BY <2>2, ImageSectors DEF Name, Image
  <2>6. isos'[Name'].sectors = S
    BY <2>4, <2>5
  <2>7. (isos[Name] = Image(isos[Name].sectors))'
    BY <2>4, <2>5, <2>6
  <2> QED
    BY <2>2, <2>4, <2>7 DEF ShelfOK
<1>4. CASE WriteSectors
  <2>1. isos[Name] = Image(isos[Name].sectors) /\ pc \in {"files", "image", "catalog", "record"}
    BY <1>4 DEF WriteSectors, ShelfOK, Sector, Written
  <2>2. isos[Name].sectors \in SUBSET {"files", "image", "catalog", "record"}
    BY <1>1, <2>1 DEF ShelfOK, ISOType, NoISO, Image
  <2>3. PICK S : /\ S = isos[Name].sectors \cup {Sector[pc]} \cup (IF Darwin THEN {} ELSE {"image"})
                 /\ isos' = [isos EXCEPT ![Name] = [isos[Name] EXCEPT !.sectors = S]]
    BY <1>4 DEF WriteSectors
  <2>4. S \in SUBSET {"files", "image", "catalog", "record"}
    BY <2>1, <2>2, <2>3 DEF Sector
  <2>5. [isos[Name] EXCEPT !.sectors = S] = Image(S)
    BY <2>1, ImageSectors
  <2>6. Image(S) \in ISOType
    BY <1>1, <2>4, ImageTyped
  <2>7. isos' \in [Paths -> ISOType] /\ isos'[Legacy] = isos[Legacy] /\ isos'[Name] = Image(S)
    BY <1>1, <2>3, <2>5, <2>6, IsoSet
  <2>8. UNCHANGED <<alias, sidecar, stage, bootwim, install, lane, req, spec>>
    BY <1>4 DEF WriteSectors, work
  <2>9. Name' = Name /\ Image(S)' = Image(S) /\ Image(S).sectors = S
    BY <2>8, ImageSectors DEF Name, Image
  <2>11. isos'[Name'].sectors = S
    BY <2>7, <2>9
  <2>10. (isos[Name] = Image(isos[Name].sectors))'
    BY <2>7, <2>9, <2>11
  <2> QED
    BY <2>7, <2>8, <2>10 DEF ShelfOK
<1>5. CASE Mastered
  <2>1. /\ alias' = alias \/ (alias # File /\ alias' = Name)
        /\ UNCHANGED <<isos, sidecar>> /\ pc' \in {"idle", "virtioEnsure"}
    BY <1>5 DEF Mastered, refreshLegacyAlias, Got
  <2> QED
    BY <1>1, <2>1 DEF ShelfOK, Written
<1> QED
  BY <1>2, <1>3, <1>4, <1>5 DEF MasterStep

LEMMA ShelfStep == ASSUME ShelfOK, CommandOK, PickOK, TreeOK, [Next]_vars PROVE ShelfOK'
<1> USE DEF Goto
<1>1. ASSUME NEW q \in Requests, Request(q) PROVE ShelfOK'
  <2>1. pc' \notin Written
    BY <1>1, Sources, MediaAssumption DEF Request, Written
  <2>2. CASE q.noCache
    <3>1. isos' = [n \in Paths |-> NoISO] /\ alias' = NoLink /\ UNCHANGED sidecar
      BY <1>1, <2>2 DEF Request, clearCache, ShelfOK
    <3> QED
      BY <2>1, <3>1, NoISOTyped DEF ShelfOK, Paths
  <2>3. CASE ~q.noCache
    BY <1>1, <2>1, <2>3, ShelfKept DEF Request, shelf
  <2> QED
    BY <2>2, <2>3
<1>2. CASE TreeStep
  <2>1. UNCHANGED shelf
    BY <1>2 DEF TreeStep, clearGeneratedArtifacts, ExtractImage, buildBootWim, injectSetupIntoBootWim,
      uupInstall
  <2>2. pc' \notin Written
    BY <1>2 DEF TreeStep, clearGeneratedArtifacts, ExtractImage, buildBootWim, injectSetupIntoBootWim,
      uupInstall, AfterExtract, Failed, Written
  <2> QED
    BY <2>1, <2>2, ShelfKept
<1>3. CASE DriverStep
  <2>1. UNCHANGED shelf /\ pc' \notin Written
    BY <1>3 DEF DriverStep, virtioEnsure, virtioLook, virtioOpen, virtioReceive, virtioRename, job, Written
  <2> QED
    BY <2>1, ShelfKept
<1>4. CASE Failing
  <2>1. pc' \notin Written
    BY <1>4 DEF Failing, Fail, virtioFail, Crash, Failed, Written
  <2>2. CASE UNCHANGED isos
    BY <1>4, <2>1, <2>2, ShelfKept DEF Failing, Fail, virtioFail, Crash, shelf
  <2>3. CASE pc = "master" /\ \E iso \in {NoISO, Image({})} : isos' = [isos EXCEPT ![Name] = iso]
    <3>1. PICK iso \in {NoISO, Image({})} : isos' = [isos EXCEPT ![Name] = iso]
      BY <2>3
    <3>2. iso \in ISOType
      BY <3>1, NoISOTyped, ImageTyped DEF CommandOK
    <3>3. Name \in Names
      BY <2>3, NameTyped
    <3>4. isos' \in [Paths -> ISOType] /\ isos'[Legacy] = isos[Legacy]
      BY <3>1, <3>2, <3>3, IsoSet
    <3>5. UNCHANGED <<alias, sidecar>>
      BY <1>4 DEF Failing, Fail, virtioFail, Crash, shelf
    <3> QED
      BY <2>1, <3>4, <3>5 DEF ShelfOK
  <2> QED
    BY <1>4, <2>2, <2>3 DEF Failing, Fail, virtioFail, Crash, Leavings, shelf
<1>5. CASE Quiet
  <2>1. UNCHANGED <<shelf, pc, lane, req, spec, stage, bootwim, install>>
    BY <1>5 DEF Quiet, Publish, vars, job, command, work
  <2>2. Name' = Name /\ Image(isos[Name].sectors)' = Image(isos[Name].sectors)
    BY <2>1 DEF Name, Image, shelf
  <2> QED
    BY <2>1, <2>2 DEF ShelfOK, shelf
<1> QED
  BY <1>1, <1>2, <1>3, <1>4, <1>5, Steps, ShelfMct, ShelfUup, ShelfMaster

-----------------------------------------------------------------------------
(* The rest, and the type invariant.                                         *)

LEMMA RestInit == Init => RestOK
BY MediaAssumption DEF Init, RestOK, Versions, MediaAssumption

\* A step may count a fault, and leaves what is published alone.
LEMMA RestFault ==
  ASSUME RestOK, UNCHANGED <<world, vpart, viso, requests>>, faults' = faults \/ Fault
  PROVE  RestOK'
<1>1. faults' \in 0..MaxFaults
  BY MediaAssumption DEF RestOK, Fault, MediaAssumption
<1> QED
  BY <1>1 DEF RestOK, world

LEMMA RestDriver == ASSUME RestOK, DriverStep PROVE RestOK'
<1>1. UNCHANGED <<catalog, upstream, requests, faults>>
  BY DEF DriverStep, virtioEnsure, virtioLook, virtioOpen, virtioReceive, virtioRename, world, asks
<1>2. <<>> \in Seq(Versions) /\ Append(vpart, upstream) \in Seq(Versions)
  BY DEF RestOK
<1>3. vpart' \in Seq(Versions) /\ viso' \in Seq(Versions)
  <2>1. vpart' \in {vpart, <<>>, Append(vpart, upstream)}
    BY DEF DriverStep, virtioEnsure, virtioLook, virtioOpen, virtioReceive, virtioRename, drivers
  <2>2. viso' \in {viso, <<>>, vpart}
    BY DEF DriverStep, virtioEnsure, virtioLook, virtioOpen, virtioReceive, virtioRename, drivers
  <2> QED
    BY <1>2, <2>1, <2>2 DEF RestOK
<1> QED
  BY <1>1, <1>3 DEF RestOK

LEMMA RestStep == ASSUME RestOK, [Next]_vars PROVE RestOK'
<1>1. ASSUME NEW q \in Requests, Request(q) PROVE RestOK'
  <2>1. requests' \in 0..MaxRequests /\ UNCHANGED <<world, vpart, faults>>
    BY <1>1, MediaAssumption DEF Request, RestOK, MediaAssumption
  <2>2. viso' \in Seq(Versions)
    <3>1. viso' = viso \/ viso' = <<>>
      BY <1>1 DEF Request, clearCache
    <3>2. <<>> \in Seq(Versions) /\ viso \in Seq(Versions)
      BY DEF RestOK
    <3> QED
      BY <3>1, <3>2
  <2> QED
    BY <2>1, <2>2 DEF RestOK, world
<1>2. CASE MctStep
  <2>1. UNCHANGED <<world, vpart, viso, requests>>
    BY <1>2 DEF MctStep, mctLook, mctFind, mctOpen, mctReceive, mctReceived, mctBootwim, mctInstall,
      drivers, asks
  <2>2. faults' = faults \/ Fault
    BY <1>2 DEF MctStep, mctLook, mctFind, mctOpen, mctReceive, mctReceived, mctBootwim, mctInstall,
      Receive
  <2> QED
    BY <2>1, <2>2, RestFault
<1>3. CASE uupLook \/ uupFind \/ uupPick \/ DownloadFiles
  <2>1. UNCHANGED <<world, vpart, viso, requests>>
    BY <1>3 DEF uupLook, uupFind, uupPick, DownloadFiles, drivers, asks
  <2>2. faults' = faults \/ Fault
    BY <1>3 DEF uupLook, uupFind, uupPick, DownloadFiles
  <2> QED
    BY <2>1, <2>2, RestFault
<1>4. ASSUME NEW f \in Esds, downloadOne(f) \/ uupReceive(f) \/ uupReceived(f) PROVE RestOK'
  <2>1. UNCHANGED <<world, vpart, viso, requests>>
    BY <1>4 DEF downloadOne, uupReceive, uupReceived, drivers, asks
  <2>2. faults' = faults \/ Fault
    BY <1>4 DEF downloadOne, uupReceive, uupReceived, Receive
  <2> QED
    BY <2>1, <2>2, RestFault
<1>5. CASE TreeStep \/ MasterStep
  <2>1. UNCHANGED <<world, vpart, viso, requests>>
    BY <1>5 DEF TreeStep, MasterStep, clearGeneratedArtifacts, ExtractImage, buildBootWim,
      injectSetupIntoBootWim, uupInstall, writeBootloaderSidecar, createWindowsISO, WriteSectors,
      Mastered, drivers, asks
  <2>2. faults' = faults \/ Fault
    BY <1>5 DEF TreeStep, MasterStep, clearGeneratedArtifacts, ExtractImage, buildBootWim,
      injectSetupIntoBootWim, uupInstall, writeBootloaderSidecar, createWindowsISO, WriteSectors,
      Mastered
  <2> QED
    BY <2>1, <2>2, RestFault
<1>6. CASE Failing
  <2>1. UNCHANGED <<world, vpart, viso, requests>> /\ Fault
    BY <1>6 DEF Failing, Fail, virtioFail, Crash, drivers, asks
  <2> QED
    BY <2>1, RestFault
<1>7. CASE Publish
  <2>1. catalog' \in DOMAIN Catalogs /\ upstream' \in Versions
    <3>1. DOMAIN Catalogs = 1..Len(Catalogs) /\ Len(Catalogs) \in Nat
          /\ Versions = 1..Len(DriverSize) /\ Len(DriverSize) \in Nat
      BY MediaAssumption DEF MediaAssumption, Versions
    <3>2. \/ catalog < Len(Catalogs) /\ catalog' = catalog + 1 /\ UNCHANGED upstream
          \/ upstream < Len(DriverSize) /\ upstream' = upstream + 1 /\ UNCHANGED catalog
      BY <1>7 DEF Publish
    <3>3. catalog \in DOMAIN Catalogs /\ upstream \in Versions
      BY DEF RestOK
    <3> QED
      BY <3>1, <3>2, <3>3
  <2>2. UNCHANGED <<vpart, viso, requests, faults>>
    BY <1>7 DEF Publish, drivers, asks
  <2> QED
    BY <2>1, <2>2 DEF RestOK
<1>8. CASE UNCHANGED vars
  BY <1>8 DEF vars, world, drivers, asks, RestOK
<1> QED
  BY <1>1, <1>2, <1>3, <1>4, <1>5, <1>6, <1>7, <1>8, Steps, RestDriver DEF UupStep, Quiet

LEMMA BaseInit == Init => BaseInv
BY CommandInit, PickInit, LoadInit, TreeInit, ShelfInit, RestInit DEF BaseInv

LEMMA BaseStep == BaseInv /\ [Next]_vars => BaseInv'
BY CommandStep, PickStep, LoadStep, TreeStepOK, ShelfStep, RestStep DEF BaseInv

THEOREM BaseCorrect == Spec => []BaseInv
BY BaseInit, BaseStep, PTL DEF Spec

\* Every variable stays in its type, however commands, failures and
\* publications interleave: transfers stay within Concurrency, files within
\* their size, and the legacy name is a file only if it is the user's.
THEOREM TypeCorrect == Spec => []TypeOK
<1>1. BaseInv => TypeOK
  BY DEF BaseInv, CommandOK, PickOK, LoadOK, EsdNames, TreeOK, ShelfOK, RestOK, Versions, TypeOK
<1> QED
  BY <1>1, BaseCorrect, PTL

-----------------------------------------------------------------------------
(* The driver ISO.                                                           *)

LEMMA DriverStepOK == ASSUME BaseInv, DriverInv, [Next]_vars PROVE DriverInv'
<1> USE DEF Goto
<1>1. ASSUME UNCHANGED <<viso, vpart, upstream>>, pc' = "virtioLoad" => pc = "virtioLoad"
      PROVE  DriverInv'
  BY <1>1 DEF DriverInv, Ends
<1>2. Ends(<<>>)
  BY DEF Ends
<1>3. ASSUME NEW q \in Requests, Request(q) PROVE DriverInv'
  <2>1. pc' # "virtioLoad" /\ (viso' = viso \/ viso' = <<>>)
    BY <1>3, Sources, MediaAssumption DEF Request, clearCache
  <2> QED
    BY <1>2, <2>1 DEF DriverInv, Ends
<1>4. CASE MctStep
  <2>1. UNCHANGED <<viso, vpart, upstream>>
    BY <1>4 DEF MctStep, mctLook, mctFind, mctOpen, mctReceive, mctReceived, mctBootwim, mctInstall,
      drivers, world
  <2>2. pc' # "virtioLoad"
    BY <1>4 DEF MctStep, mctLook, mctFind, mctOpen, mctReceive, mctReceived, mctBootwim, mctInstall,
      Got, Failed, job
  <2> QED
    BY <1>1, <2>1, <2>2
<1>5. CASE UupStep
  <2>1. UNCHANGED <<viso, vpart, upstream>>
    BY <1>5 DEF UupStep, uupLook, uupFind, uupPick, DownloadFiles, downloadOne, uupReceive, uupReceived,
      drivers, world
  <2>2. CASE uupLook \/ uupFind \/ uupPick \/ DownloadFiles
    <3>1. pc' # "virtioLoad"
      BY <2>2 DEF uupLook, uupFind, uupPick, DownloadFiles, Got, Failed
    <3> QED
      BY <1>1, <2>1, <3>1
  <2>3. ASSUME NEW f \in Esds, downloadOne(f) \/ uupReceive(f) \/ uupReceived(f) PROVE pc' = pc
    BY <2>3 DEF downloadOne, uupReceive, uupReceived, job
  <2> QED
    BY <1>1, <1>5, <2>1, <2>2, <2>3 DEF UupStep
<1>6. CASE TreeStep \/ MasterStep
  <2>1. UNCHANGED <<viso, vpart, upstream>>
    BY <1>6 DEF TreeStep, MasterStep, clearGeneratedArtifacts, ExtractImage, buildBootWim,
      injectSetupIntoBootWim, uupInstall, writeBootloaderSidecar, createWindowsISO, WriteSectors,
      Mastered, drivers, world
  <2>2. CASE TreeStep
    <3>1. pc' # "virtioLoad"
      BY <2>2 DEF TreeStep, clearGeneratedArtifacts, ExtractImage, buildBootWim,
        injectSetupIntoBootWim, uupInstall, AfterExtract, Failed
    <3> QED
      BY <1>1, <2>1, <3>1
  <2>3. CASE MasterStep
    <3>1. pc' # "virtioLoad"
      BY <2>3 DEF MasterStep, writeBootloaderSidecar, createWindowsISO, WriteSectors, Mastered,
        Sector, NextSector, Got
    <3> QED
      BY <1>1, <2>1, <3>1
  <2> QED
    BY <1>6, <2>2, <2>3
<1>7. CASE virtioEnsure \/ virtioLook
  <2>1. pc' # "virtioLoad" /\ (viso' = viso \/ viso' = <<>>)
    BY <1>7 DEF virtioEnsure, virtioLook, drivers
  <2> QED
    BY <1>2, <2>1 DEF DriverInv, Ends
<1>8. CASE virtioOpen
  <2>1. UNCHANGED <<viso, upstream>> /\ (vpart' = <<>> \/ Len(vpart') < DriverSize[upstream])
    BY <1>8 DEF virtioOpen, world
  <2>2. DriverSize[upstream] \in Nat
    BY MediaAssumption DEF BaseInv, RestOK, Versions, MediaAssumption
  <2>3. vpart' \in Seq(Versions)
    BY BaseStep DEF BaseInv, RestOK
  <2> QED
    BY <1>2, <2>1, <2>2, <2>3 DEF DriverInv, Ends
<1>9. CASE virtioReceive
  <2>1. UNCHANGED <<viso, upstream>> /\ vpart' = Append(vpart, upstream) /\ Len(vpart) < DriverSize[upstream]
    BY <1>9 DEF virtioReceive, world
  <2>2. DriverSize[upstream] \in Nat /\ vpart \in Seq(Versions)
    BY MediaAssumption DEF BaseInv, RestOK, Versions, MediaAssumption
  <2>3. Len(vpart') = Len(vpart) + 1 /\ vpart'[Len(vpart')] = upstream
    BY <2>1, <2>2
  <2> QED
    BY <2>1, <2>2, <2>3 DEF DriverInv, Ends
<1>10. CASE virtioRename
  <2>1. pc = "virtioLoad" /\ pc' = "idle" /\ Len(vpart) = DriverSize[upstream]
        /\ (viso' = vpart \/ viso' = viso)
    BY <1>10 DEF virtioRename
  <2> QED
    BY <2>1 DEF DriverInv, Ends
<1>11. CASE Failing
  <2>1. UNCHANGED <<viso, vpart, upstream>> /\ pc' # "virtioLoad"
    BY <1>11 DEF Failing, Fail, virtioFail, Crash, Failed, drivers, world
  <2> QED
    BY <1>1, <2>1
<1>12. CASE Quiet
  <2>1. UNCHANGED <<viso, vpart, pc>> /\ (pc = "idle" \/ UNCHANGED upstream)
    BY <1>12 DEF Quiet, Publish, vars, job, drivers, world
  <2> QED
    BY <2>1 DEF DriverInv, Ends
<1> QED
  BY <1>3, <1>4, <1>5, <1>6, <1>7, <1>8, <1>9, <1>10, <1>11, <1>12, Steps DEF DriverStep

-----------------------------------------------------------------------------
(* What comes out of the ESDs.                                               *)

\* A step that changes neither the ESDs nor the build in hand.
LEMMA OriginKept == ASSUME UNCHANGED <<lane, build, esd>> PROVE Origin' = Origin
BY DEF Origin, Blocks, Verified

LEMMA StageKept ==
  ASSUME StageInv, UNCHANGED <<lane, build, esd, stage>>,
         pc' \in Opened => pc \in Opened, pc' \in Staged => pc \in Staged
  PROVE  StageInv'
BY OriginKept DEF StageInv

\* A step to a stage in which nothing is taken from the ESDs.
LEMMA StageNone == ASSUME pc' \notin Opened, pc' \notin Staged PROVE StageInv'
BY DEF StageInv

\* Where a command is before its ESDs are right, or after its ISO is done.
Unopened ==
  {"idle", "mctLook", "mctFind", "mctOpen", "mctLoad", "uupLook", "uupFind", "uupPick", "uupLoad"}
    \cup VirtioPcs
LEMMA UnopenedIs == \A where \in Unopened : where \notin Opened /\ where \notin Staged
BY DEF Unopened, VirtioPcs, Opened, Staged, UupTry, Mastering, Written

LEMMA FailedUnopened == Failed => pc' \in Unopened
BY DEF Failed, Goto, Unopened

LEMMA StageMct == ASSUME CommandOK, StageInv, MctStep PROVE StageInv'
<1> USE DEF Goto, job
<1>1. CASE mctLook \/ mctFind
  <2>1. pc' \in Unopened
    BY <1>1 DEF mctLook, mctFind, Got, Unopened, VirtioPcs
  <2> QED
    BY <2>1, UnopenedIs, StageNone
<1>2. CASE mctReceive
  <2>1. pc' \in Unopened
    BY <1>2 DEF mctReceive, Unopened
  <2> QED
    BY <2>1, UnopenedIs, StageNone
<1>3. CASE mctOpen \/ mctReceived
  <2>1. CASE Verified(Blocks(MctESD))
    <3>1. pc' = "mctExtract" /\ UNCHANGED <<lane, build, esd>> /\ lane = "mct"
      BY <1>3, <2>1 DEF mctOpen, mctReceived, CommandOK, MctPcs
    <3>2. Origin = build
      BY <2>1, <3>1 DEF Origin
    <3>3. Origin' = build' /\ pc' \notin Staged
      BY <3>1, <3>2, OriginKept DEF Staged, Mastering, Written
    <3> QED
      BY <3>3 DEF StageInv
  <2>2. CASE ~Verified(Blocks(MctESD))
    <3>1. pc' = "mctLoad" \/ Failed
      BY <1>3, <2>2 DEF mctOpen, mctReceived
    <3>2. pc' \in Unopened
      BY <3>1, FailedUnopened DEF Unopened
    <3> QED
      BY <3>2, UnopenedIs, StageNone
  <2> QED
    BY <2>1, <2>2
<1>4. CASE mctBootwim \/ mctInstall
  <2>1. /\ pc \in {"mctBootwim", "mctInstall"} /\ UNCHANGED <<lane, build, esd, stage>>
        /\ pc' = "mctInstall" \/ pc' = "sidecar"
    BY <1>4 DEF mctBootwim, mctInstall
  <2> QED
    BY <2>1, StageKept DEF Opened, Staged, UupTry, Mastering, Written
<1> QED
  BY <1>1, <1>2, <1>3, <1>4 DEF MctStep

LEMMA StageUup == ASSUME CommandOK, StageInv, UupStep PROVE StageInv'
<1> USE DEF Goto, job
<1>1. CASE uupLook \/ uupFind \/ uupPick
  <2>1. pc' \in Unopened
    BY <1>1 DEF uupLook, uupFind, uupPick, Got, Unopened, VirtioPcs
  <2> QED
    BY <2>1, UnopenedIs, StageNone
<1>2. CASE DownloadFiles
  <2>1. CASE \A f \in Esds : Verified(Blocks(f))
    <3>1. pc' = "uupClear" /\ UNCHANGED <<lane, build, esd>> /\ lane = "uup"
      BY <1>2, <2>1 DEF DownloadFiles, CommandOK, UupPcs, UupTry
    <3>2. Origin = build
      BY <2>1, <3>1 DEF Origin
    <3>3. Origin' = build' /\ pc' \notin Staged
      BY <3>1, <3>2, OriginKept DEF Staged, Mastering, Written
    <3> QED
      BY <3>3 DEF StageInv
  <2>2. CASE ~\A f \in Esds : Verified(Blocks(f))
    <3>1. Failed
      BY <1>2, <2>2 DEF DownloadFiles
    <3> QED
      BY <3>1, FailedUnopened, UnopenedIs, StageNone
  <2> QED
    BY <2>1, <2>2
<1>3. ASSUME NEW f \in Esds, downloadOne(f) \/ uupReceive(f) \/ uupReceived(f) PROVE StageInv'
  <2>1. pc' \in Unopened
    BY <1>3 DEF downloadOne, uupReceive, uupReceived, Unopened
  <2> QED
    BY <2>1, UnopenedIs, StageNone
<1> QED
  BY <1>1, <1>2, <1>3 DEF UupStep

LEMMA StageTree == ASSUME BaseInv, StageInv, TreeStep PROVE StageInv'
<1> USE DEF Goto
<1>1. CASE clearGeneratedArtifacts \/ buildBootWim \/ injectSetupIntoBootWim
  <2>1. /\ \/ pc = "uupClear" /\ pc' = "uupExtract"
           \/ pc = "uupBootwim" /\ pc' = "uupInject"
           \/ pc = "uupInject" /\ pc' = "uupInstall"
        /\ UNCHANGED <<lane, build, esd, stage>>
    BY <1>1 DEF clearGeneratedArtifacts, buildBootWim, injectSetupIntoBootWim
  <2> QED
    BY <2>1, StageKept DEF Opened, Staged, UupTry, Mastering, Written
<1>2. CASE ExtractImage
  <2>1. pc \in Opened /\ UNCHANGED <<lane, build, esd>> /\ stage' = Extracted(Media[build])
    BY <1>2 DEF ExtractImage, Opened, UupTry
  <2>2. Origin' = build' /\ Origin = build
    BY <2>1, OriginKept DEF StageInv
  <2>3. build \in Builds /\ lane \in Lanes
    BY <1>2 DEF ExtractImage, BaseInv, CommandOK, PickOK, InHand, MctPcs, UupTry
  <2>4. \A f \in Media[build] : f \in StageFiles
    BY <2>3, MediaAssumption DEF MediaAssumption
  <2>5. \A f \in Media[build] : stage'[lane][f] = build
    BY <2>1, <2>2, <2>3, <2>4 DEF Extracted, BaseInv, TreeOK
  <2> QED
    BY <2>1, <2>2, <2>5 DEF StageInv
<1>3. CASE uupInstall
  <2>1. \/ pc = "uupInstall" /\ pc' = "sidecar" /\ UNCHANGED <<lane, build, esd, stage>>
        \/ Failed
    BY <1>3 DEF uupInstall
  <2>2. CASE Failed
    BY <2>2, FailedUnopened, UnopenedIs, StageNone
  <2>3. CASE pc = "uupInstall" /\ pc' = "sidecar" /\ UNCHANGED <<lane, build, esd, stage>>
    BY <2>3, StageKept DEF Opened, Staged, UupTry, Mastering, Written
  <2> QED
    BY <2>1, <2>2, <2>3
<1> QED
  BY <1>1, <1>2, <1>3 DEF TreeStep

LEMMA StageMaster == ASSUME StageInv, MasterStep PROVE StageInv'
<1> USE DEF Goto
<1>1. CASE writeBootloaderSidecar \/ createWindowsISO \/ WriteSectors
  <2>1. pc \in Mastering /\ pc' \in Mastering /\ UNCHANGED <<lane, build, esd, stage>>
    BY <1>1 DEF writeBootloaderSidecar, createWindowsISO, WriteSectors, work, Mastering, Written,
      Sector, NextSector
  <2>2. pc \in Staged /\ pc' \notin Opened
    BY <2>1 DEF Opened, Staged, UupTry, Mastering, Written
  <2> QED
    BY <2>1, <2>2, StageKept
<1>2. CASE Mastered
  <2>1. pc' \in Unopened
    BY <1>2 DEF Mastered, Got, Unopened, VirtioPcs
  <2> QED
    BY <2>1, UnopenedIs, StageNone
<1> QED
  BY <1>1, <1>2 DEF MasterStep

LEMMA StageStep == ASSUME BaseInv, StageInv, [Next]_vars PROVE StageInv'
<1> USE DEF Goto
<1>1. ASSUME NEW q \in Requests, Request(q) PROVE StageInv'
  <2>1. pc' \in Unopened
    BY <1>1, Sources, MediaAssumption DEF Request, Unopened, VirtioPcs
  <2> QED
    BY <2>1, UnopenedIs, StageNone
<1>2. CASE DriverStep
  <2>1. pc' \in Unopened
    BY <1>2 DEF DriverStep, virtioEnsure, virtioLook, virtioOpen, virtioReceive, virtioRename, job,
      Unopened, VirtioPcs
  <2> QED
    BY <2>1, UnopenedIs, StageNone
<1>3. CASE Failing
  <2>1. pc' \in Unopened
    BY <1>3, FailedUnopened DEF Failing, Fail, virtioFail, Crash, Unopened
  <2> QED
    BY <2>1, UnopenedIs, StageNone
<1>4. CASE Quiet
  BY <1>4, StageKept DEF Quiet, Publish, vars, job, work
<1> QED
  BY <1>1, <1>2, <1>3, <1>4, Steps, StageMct, StageUup, StageTree, StageMaster DEF BaseInv

LEMMA StageInit == Init => StageInv
<1>1. Init => pc \in Unopened
  BY DEF Init, Unopened
<1> QED
  BY <1>1, UnopenedIs DEF StageInv

-----------------------------------------------------------------------------
(* The names of the cache.                                                   *)

\* A product released one series under each of its version names.
LEMMA Releases ==
  /\ \A r \in gaReleases : r = Release(r.product, r.version, r.series) /\ r.version # "any"
  /\ \A r, q \in gaReleases : r.product = q.product /\ r.version = q.version => r.series = q.series
BY DEF gaReleases, Release

\* What a specification resolves to: a build, a release, or whatever there is of
\* a series or a product.
Kind(r) ==
  \/ r.build # NoPin /\ r.build.series = r.series
  \/ r.build = NoPin /\ r.version # "any" /\ Release(r.product, r.version, r.series) \in gaReleases
  \/ r.build = NoPin /\ r.version = "any"

LEMMA RefusedIs == \A s : Refused(s).ok = FALSE
BY DEF Refused, Resolved

LEMMA BuildKind ==
  ASSUME NEW s, NEW pin, NEW version, ResolveBuild(s, pin, version).ok
  PROVE  Kind(ResolveBuild(s, pin, version))
<1> DEFINE rels == ReleaseForBuild(pin)
           rel == CHOOSE r \in rels : TRUE
           product == IF rels # {} THEN rel.product ELSE IF pin.series >= 22000 THEN 11 ELSE 10
           name == IF rels # {} THEN rel.version ELSE "any"
           build0 == IF pin.qfe # 0 THEN pin ELSE NoPin
<1>1. ResolveBuild(s, pin, version) = Resolved(product, name, pin.series, build0, FALSE, TRUE, s)
  <2>1. CASE version = "latest" \/ version \notin {"any", name} \/ s.product \notin {0, product}
    BY <2>1, SMT DEF ResolveBuild, Refused, Resolved
  <2>2. CASE ~(version = "latest" \/ version \notin {"any", name} \/ s.product \notin {0, product})
    BY <2>2, SMT DEF ResolveBuild
  <2> HIDE DEF rels, rel, product, name, build0
  <2> QED
    BY <2>1, <2>2, Zenon
<1>2. pin.qfe # 0 => pin # NoPin
  BY DEF NoPin
<1>3. rels # {} => Release(product, name, pin.series) \in gaReleases /\ name # "any"
  <2>1. rels # {} => rel \in gaReleases /\ rel.series = pin.series
    BY DEF ReleaseForBuild
  <2> QED
    BY <2>1, Releases
<1>4. rels = {} => name = "any"
  OBVIOUS
<1> HIDE DEF rels, rel, product, name
<1> QED
  BY <1>1, <1>2, <1>3, <1>4 DEF Kind, Resolved

LEMMA ReleaseKind ==
  ASSUME NEW s, NEW rels \in SUBSET gaReleases, ResolveRelease(s, rels).ok
  PROVE  Kind(ResolveRelease(s, rels))
<1>1. rels # {}
  BY RefusedIs DEF ResolveRelease
<1> DEFINE rel == CHOOSE r \in rels : TRUE
<1>2. rel \in gaReleases
  BY <1>1
<1>3. ResolveRelease(s, rels) = Resolved(rel.product, rel.version, rel.series, NoPin, FALSE, FALSE, s)
  BY <1>1 DEF ResolveRelease
<1> HIDE DEF rel
<1> QED
  BY <1>2, <1>3, Releases DEF Kind, Resolved

LEMMA ResolveKind == ASSUME NEW s, Resolve(s).ok PROVE Kind(Resolve(s))
<1> DEFINE pin == IF s.number # NoPin THEN s.number ELSE s.build
           version == IF s.number # NoPin THEN "any" ELSE s.version
           product == IF s.product = 0 THEN 11 ELSE s.product
<1>1. \A p, v : ReleaseForVersion(p, v) \in SUBSET gaReleases
  BY DEF ReleaseForVersion
<1>2. \A v, p : releaseForName(v, p) \in SUBSET gaReleases
  BY <1>1 DEF releaseForName
<1>3. CASE s.number # NoPin /\ s.build \notin {NoPin, s.number}
  BY <1>3, RefusedIs DEF Resolve
<1>4. CASE ~(s.number # NoPin /\ s.build \notin {NoPin, s.number}) /\ pin # NoPin
  <2>1. Resolve(s) = ResolveBuild(s, pin, version)
    BY <1>4 DEF Resolve
  <2> QED
    BY <2>1, BuildKind
<1>5. CASE ~(s.number # NoPin /\ s.build \notin {NoPin, s.number}) /\ pin = NoPin /\ version = "latest"
  <2>1. Resolve(s) = Resolved(product, "any", 0, NoPin, TRUE, FALSE, s)
    BY <1>5 DEF Resolve
  <2> QED
    BY <2>1 DEF Kind, Resolved
<1>6. CASE ~(s.number # NoPin /\ s.build \notin {NoPin, s.number}) /\ pin = NoPin /\ version # "latest"
  <2>1. \/ Resolve(s) = ResolveRelease(s, releaseForName(version, s.product))
        \/ Resolve(s) = ResolveRelease(s, ReleaseForVersion(product, defaultVersion(product)))
    BY <1>6 DEF Resolve
  <2> QED
    BY <1>1, <1>2, <2>1, ReleaseKind
<1> QED
  BY <1>3, <1>4, <1>5, <1>6

\* Two specifications of one name are answered by the same builds.
LEMMA SameName ==
  ASSUME NEW r, NEW q, Kind(r), Kind(q), ISOName(r) = ISOName(q), NEW b, MatchesBuild(r, b)
  PROVE  MatchesBuild(q, b)
<1> DEFINE Tag(x) == IF x.build # NoPin THEN <<"build", x.build.series, x.build.qfe>>
                     ELSE IF x.version # "any" THEN <<"version", x.version>>
                     ELSE IF x.series # 0 THEN <<"series", x.series>>
                     ELSE <<"latest">>
<1>1. r.product = q.product /\ Tag(r) = Tag(q)
  BY DEF ISOName
<1>2. ASSUME NEW x
      PROVE  /\ x.build # NoPin => Tag(x) = <<"build", x.build.series, x.build.qfe>>
             /\ x.build = NoPin /\ x.version # "any" => Tag(x) = <<"version", x.version>>
             /\ x.build = NoPin /\ x.version = "any" /\ x.series # 0 => Tag(x) = <<"series", x.series>>
             /\ x.build = NoPin /\ x.version = "any" /\ x.series = 0 => Tag(x) = <<"latest">>
  OBVIOUS
<1> HIDE DEF Tag
<1>3. CASE r.build # NoPin
  <2>1. Tag(q)[1] = "build"
    BY <1>1, <1>2, <1>3
  <2>2. q.build # NoPin
    BY <1>2, <2>1
  <2>3. r.build.series = q.build.series /\ r.build.qfe = q.build.qfe
    BY <1>1, <1>2, <1>3, <2>2
  <2> QED
    BY <1>3, <2>2, <2>3 DEF Kind, MatchesBuild
<1>4. CASE r.build = NoPin /\ r.version # "any"
  <2>1. Tag(q)[1] = "version"
    BY <1>1, <1>2, <1>4
  <2>2. q.build = NoPin /\ q.version # "any"
    BY <1>2, <2>1
  <2>3. r.version = q.version
    BY <1>1, <1>2, <1>4, <2>2
  <2>4. r.series = q.series
    BY <1>1, <1>4, <2>2, <2>3, Releases DEF Kind, Release
  <2> QED
    BY <2>2, <2>4 DEF MatchesBuild
<1>5. CASE r.build = NoPin /\ r.version = "any"
  <2>1. q.build = NoPin /\ q.version = "any"
    <3>1. Tag(r)[1] \in {"series", "latest"}
      BY <1>2, <1>5
    <3> QED
      BY <1>1, <1>2, <3>1
  <2>2. r.series = q.series
    <3>1. CASE r.series # 0
      <4>1. Tag(q)[1] = "series" /\ Tag(q)[2] = r.series
        BY <1>1, <1>2, <1>5, <3>1
      <4> QED
        BY <1>2, <2>1, <4>1
    <3>2. CASE r.series = 0
      <4>1. Tag(q)[1] = "latest"
        BY <1>1, <1>2, <1>5, <3>2
      <4> QED
        BY <1>2, <2>1, <3>2, <4>1
    <3> QED
      BY <3>1, <3>2
  <2> QED
    BY <2>1, <2>2 DEF MatchesBuild
<1> QED
  BY <1>3, <1>4, <1>5

\* How the ISOs change: some are removed, the one in hand is created, or it gets
\* one more of its sectors.
Removed == \A n \in Paths : isos'[n] \in {isos[n], NoISO}
Created ==
  /\ pc = "master"
  /\ \E S \in SUBSET {"catalog", "record"} :
       isos' = [isos EXCEPT ![Name] = Image(S)] /\ (Darwin => S = {})

LEMMA LeavingsIsos == ASSUME BaseInv, pc # "idle", Leavings PROVE Removed \/ Created
<1>1. isos' = isos \/ (pc = "master" /\ \E i \in {NoISO, Image({})} : isos' = [isos EXCEPT ![Name] = i])
  BY DEF Leavings
<1>2. CASE isos' = isos
  BY <1>2 DEF Removed
<1>3. CASE isos' = [isos EXCEPT ![Name] = NoISO]
  BY <1>3, NameTyped DEF Removed, BaseInv, ShelfOK
<1>4. CASE pc = "master" /\ isos' = [isos EXCEPT ![Name] = Image({})]
  BY <1>4 DEF Created
<1> QED
  BY <1>1, <1>2, <1>3, <1>4

LEMMA IsosChange == ASSUME BaseInv, [Next]_vars PROVE Removed \/ Created \/ WriteSectors
<1>1. ASSUME UNCHANGED isos PROVE Removed
  BY <1>1 DEF Removed
<1>2. ASSUME NEW q \in Requests, Request(q) PROVE Removed
  <2>1. isos' = isos \/ isos' = [n \in DOMAIN isos |-> NoISO]
    BY <1>2 DEF Request, clearCache
  <2> QED
    BY <2>1 DEF Removed, BaseInv, ShelfOK
<1>3. CASE MctStep
  <2>1. CASE mctLook
    <3>1. isos' = isos \/ isos' = [isos EXCEPT ![Name] = NoISO]
      BY <2>1 DEF mctLook
    <3>2. Name \in Paths
      BY <2>1, NameTyped DEF mctLook, BaseInv
    <3> QED
      BY <3>1, <3>2 DEF Removed, BaseInv, ShelfOK
  <2>2. CASE mctFind \/ mctOpen \/ mctReceive \/ mctReceived \/ mctBootwim \/ mctInstall
    <3>1. UNCHANGED isos
      BY <2>2 DEF mctFind, mctOpen, mctReceive, mctReceived, mctBootwim, mctInstall, shelf
    <3> QED
      BY <1>1, <3>1
  <2> QED
    BY <1>3, <2>1, <2>2 DEF MctStep
<1>4. CASE UupStep
  <2>1. CASE uupLook
    <3>1. UNCHANGED isos \/ \E paths : Discard(paths)
      BY <2>1 DEF uupLook
    <3>2. ASSUME NEW paths, Discard(paths) PROVE Removed
      BY <3>2 DEF Discard, Removed, BaseInv, ShelfOK
    <3> QED
      BY <1>1, <3>1, <3>2
  <2>2. CASE ~uupLook
    <3>1. UNCHANGED isos
      BY <1>4, <2>2 DEF UupStep, uupFind, uupPick, DownloadFiles, downloadOne, uupReceive,
        uupReceived, shelf
    <3> QED
      BY <1>1, <3>1
  <2> QED
    BY <2>1, <2>2
<1>5. CASE TreeStep
  <2>1. UNCHANGED isos
    BY <1>5 DEF TreeStep, clearGeneratedArtifacts, ExtractImage, buildBootWim,
      injectSetupIntoBootWim, uupInstall, shelf
  <2> QED
    BY <1>1, <2>1
<1>6. CASE MasterStep
  <2>1. CASE writeBootloaderSidecar \/ Mastered
    <3>1. UNCHANGED isos
      BY <2>1 DEF writeBootloaderSidecar, Mastered
    <3> QED
      BY <1>1, <3>1
  <2>2. CASE createWindowsISO
    <3>1. PICK S \in SUBSET {"catalog", "record"} :
            S = (IF Darwin THEN {} ELSE {"catalog", "record"})
      OBVIOUS
    <3>2. pc = "master" /\ isos' = [isos EXCEPT ![Name] = Image(S)]
      BY <2>2, <3>1 DEF createWindowsISO
    <3> QED
      BY <3>1, <3>2 DEF Created
  <2> QED
    BY <1>6, <2>1, <2>2 DEF MasterStep
<1>7. CASE DriverStep
  <2>1. UNCHANGED isos
    BY <1>7 DEF DriverStep, virtioEnsure, virtioLook, virtioOpen, virtioReceive, virtioRename, shelf
  <2> QED
    BY <1>1, <2>1
<1>8. CASE Failing
  <2>1. CASE Fail \/ Crash
    <3>1. Leavings /\ pc # "idle"
      BY <2>1 DEF Fail, Crash, Fallible, Sector
    <3> QED
      BY <3>1, LeavingsIsos
  <2>2. CASE virtioFail
    BY <1>1, <2>2 DEF virtioFail, shelf
  <2> QED
    BY <1>8, <2>1, <2>2 DEF Failing
<1>9. CASE Quiet
  BY <1>1, <1>9 DEF Quiet, Publish, vars, shelf
<1> QED
  BY <1>2, <1>3, <1>4, <1>5, <1>6, <1>7, <1>8, <1>9, Steps

\* The ISO in hand has what the work tree has, while it is written.
LEMMA WriteIs ==
  ASSUME BaseInv, WriteSectors
  PROVE  \E S \in SUBSET {"files", "image", "catalog", "record"} :
           /\ S = isos[Name].sectors \cup {Sector[pc]} \cup (IF Darwin THEN {} ELSE {"image"})
           /\ isos' = [isos EXCEPT ![Name] = Image(S)]
           /\ isos[Name] = Image(isos[Name].sectors)
           /\ Name \in Names /\ Name \in Paths
<1>1. isos[Name] = Image(isos[Name].sectors) /\ pc \in {"files", "image", "catalog", "record"}
  BY DEF WriteSectors, BaseInv, ShelfOK, Sector, Written
<1>2. Name \in Names /\ Name \in Paths
  BY <1>1, NameTyped DEF BaseInv
<1>3. isos[Name].sectors \in SUBSET {"files", "image", "catalog", "record"}
  BY <1>1, <1>2 DEF BaseInv, ShelfOK, ISOType, NoISO, Image
<1>4. PICK S : /\ S = isos[Name].sectors \cup {Sector[pc]} \cup (IF Darwin THEN {} ELSE {"image"})
               /\ isos' = [isos EXCEPT ![Name] = [isos[Name] EXCEPT !.sectors = S]]
  BY DEF WriteSectors
<1>5. S \in SUBSET {"files", "image", "catalog", "record"}
  BY <1>1, <1>3, <1>4 DEF Sector
<1>6. [isos[Name] EXCEPT !.sectors = S] = Image(S)
  BY <1>1, ImageSectors
<1> QED
  BY <1>1, <1>2, <1>4, <1>5, <1>6

-----------------------------------------------------------------------------
(* What is served for a specification.                                       *)

LEMMA SpecNames == \A r \in Specs : ISOName(r) \in Names /\ ISOName(r) \in Paths
BY DEF Specs, Names, Paths

LEMMA NamesStep == ASSUME BaseInv, StageInv, NamesInv, [Next]_vars PROVE NamesInv'
<1> SUFFICES ASSUME NEW r \in Specs, r.ok, isos'[ISOName(r)].is = "file"
             PROVE  MatchesBuild(r, isos'[ISOName(r)].tree["efi"])
  BY DEF NamesInv
<1>1. ISOName(r) \in Paths
  BY SpecNames
<1>2. ASSUME isos'[ISOName(r)] = isos[ISOName(r)]
      PROVE  MatchesBuild(r, isos'[ISOName(r)].tree["efi"])
  BY <1>2 DEF NamesInv
<1>3. CASE Removed
  BY <1>1, <1>2, <1>3, NoISOTyped DEF Removed
<1>4. CASE Created
  <2>1. PICK S : isos' = [isos EXCEPT ![Name] = Image(S)]
    BY <1>4 DEF Created
  <2>2. CASE ISOName(r) # Name
    BY <1>1, <1>2, <2>1, <2>2 DEF BaseInv, ShelfOK
  <2>3. CASE ISOName(r) = Name
    <3>1. lane = "uup" /\ Name = ISOName(spec)
      BY <2>3, NamesApart DEF Name, BaseInv, CommandOK, Lanes
    <3>2. pc \in Mastering /\ pc \in InHand /\ pc \in Staged
      BY <1>4 DEF Created, InHand, Staged, Mastering
    <3>3. spec.ok /\ spec = Resolve(req.spec) /\ build \in Builds /\ MatchesBuild(spec, build)
      BY <3>1, <3>2 DEF BaseInv, CommandOK, PickOK
    <3>4. stage[lane]["efi"] = build
      BY <3>2, <3>3, MediaAssumption DEF StageInv, MediaAssumption
    <3>5. Kind(spec)
      BY <3>3, ResolveKind
    <3>6. Kind(r)
      BY ResolveKind DEF Specs
    <3>7. MatchesBuild(r, build)
      BY <2>3, <3>1, <3>3, <3>5, <3>6, SameName
    <3>8. isos'[ISOName(r)].tree["efi"] = build
      BY <1>1, <2>1, <2>3, <3>4, ImageSectors DEF BaseInv, ShelfOK
    <3> QED
      BY <3>7, <3>8
  <2> QED
    BY <2>2, <2>3
<1>5. CASE WriteSectors
  <2>1. PICK S : /\ isos' = [isos EXCEPT ![Name] = Image(S)]
                 /\ isos[Name] = Image(isos[Name].sectors) /\ Name \in Paths
    BY <1>5, WriteIs
  <2>2. CASE ISOName(r) # Name
    BY <1>1, <1>2, <2>1, <2>2 DEF BaseInv, ShelfOK
  <2>3. CASE ISOName(r) = Name
    <3>1. isos'[ISOName(r)].tree = stage[lane] /\ isos[ISOName(r)].tree = stage[lane]
          /\ isos[ISOName(r)].is = "file"
      BY <2>1, <2>3, ImageSectors DEF BaseInv, ShelfOK
    <3> QED
      BY <3>1 DEF NamesInv
  <2> QED
    BY <2>2, <2>3
<1> QED
  BY <1>3, <1>4, <1>5, IsosChange

LEMMA ServedStep == ASSUME BaseInv, NamesInv, ServedInv, [Next]_vars PROVE ServedInv'
<1>1. ASSUME UNCHANGED served PROVE ServedInv'
  BY <1>1 DEF ServedInv
<1>2. ASSUME NEW q \in Requests, Request(q) PROVE ServedInv'
  <2>1. served' = [is |-> "nothing"]
    BY <1>2 DEF Request
  <2>2. "req" \notin DOMAIN served'
    BY <2>1
  <2> QED
    BY <2>2 DEF ServedInv
<1>3. ASSUME NEW path, NEW content, Serve(path, content),
             lane = "uup" /\ ~IsDefault(spec) => MatchesBuild(spec, content.tree["efi"])
      PROVE  ServedInv'
  <2>1. served'.lane = lane /\ served'.spec = spec /\ served'.iso = content
    BY <1>3 DEF Serve
  <2> QED
    BY <1>3, <2>1 DEF ServedInv
<1>4. CASE MctStep
  <2>1. UNCHANGED served \/ \E path, content : Serve(path, content)
    BY <1>4 DEF MctStep, mctLook, mctFind, mctOpen, mctReceive, mctReceived, mctBootwim, mctInstall,
      Got, asks
  <2>2. lane = "mct"
    BY <1>4 DEF MctStep, mctLook, mctFind, mctOpen, mctReceive, mctReceived, mctBootwim, mctInstall,
      BaseInv, CommandOK, MctPcs
  <2> QED
    BY <1>1, <1>3, <2>1, <2>2
<1>5. CASE uupLook
  <2>1. spec \in Specs
    BY <1>5 DEF uupLook, Specs, BaseInv, CommandOK
  <2> DEFINE paths == cachedPaths(spec)
  <2>2. paths[1] = ISOName(spec) /\ At(ISOName(spec)) = isos[ISOName(spec)] /\ 1 \in DOMAIN paths
    BY NamesApart DEF cachedPaths, At
  <2>3. ~IsDefault(spec) => DOMAIN paths = {1}
    BY DEF cachedPaths
  <2>4. \/ UNCHANGED served
        \/ spec.ok /\ RequireEFIBootable(At(paths[1])) /\ Serve(paths[1], At(paths[1]))
        \/ (\E i \in DOMAIN paths : i # 1) /\ \E content : Serve(Legacy, content)
    BY <1>5 DEF uupLook, Got
  <2>5. CASE spec.ok /\ RequireEFIBootable(At(paths[1])) /\ Serve(paths[1], At(paths[1]))
    <3>1. MatchesBuild(spec, isos[ISOName(spec)].tree["efi"])
      BY <2>1, <2>2, <2>5 DEF NamesInv, RequireEFIBootable
    <3> QED
      BY <1>3, <2>2, <2>5, <3>1
  <2>6. CASE (\E i \in DOMAIN paths : i # 1) /\ \E content : Serve(Legacy, content)
    BY <1>3, <2>3, <2>6
  <2> QED
    BY <1>1, <2>4, <2>5, <2>6
<1>6. CASE UupStep /\ ~uupLook
  <2>1. UNCHANGED served
    BY <1>6 DEF UupStep, uupFind, uupPick, DownloadFiles, downloadOne, uupReceive, uupReceived, asks
  <2> QED
    BY <1>1, <2>1
<1>7. CASE TreeStep \/ DriverStep
  <2>1. UNCHANGED served
    BY <1>7 DEF TreeStep, clearGeneratedArtifacts, ExtractImage, buildBootWim,
      injectSetupIntoBootWim, uupInstall, DriverStep, virtioEnsure, virtioLook, virtioOpen,
      virtioReceive, virtioRename, asks
  <2> QED
    BY <1>1, <2>1
<1>8. CASE MasterStep
  <2>1. CASE Mastered
    <3>1. Serve(Name, isos[Name]) /\ pc = "mastered"
      BY <2>1 DEF Mastered, Got
    <3>2. isos[Name].is = "file"
      BY <3>1, ImageSectors DEF BaseInv, ShelfOK, Written
    <3>3. lane = "uup" => spec \in Specs /\ spec.ok /\ Name = ISOName(spec)
      BY <3>1 DEF BaseInv, CommandOK, Specs, Name, Mastering, Written
    <3> QED
      BY <1>3, <3>1, <3>2, <3>3 DEF NamesInv
  <2>2. CASE writeBootloaderSidecar \/ createWindowsISO \/ WriteSectors
    <3>1. UNCHANGED served
      BY <2>2 DEF writeBootloaderSidecar, createWindowsISO, WriteSectors, asks
    <3> QED
      BY <1>1, <3>1
  <2> QED
    BY <1>8, <2>1, <2>2 DEF MasterStep
<1>9. CASE Failing \/ Quiet
  <2>1. UNCHANGED served
    BY <1>9 DEF Failing, Fail, virtioFail, Crash, Quiet, Publish, vars, asks
  <2> QED
    BY <1>1, <2>1
<1> QED
  BY <1>2, <1>4, <1>5, <1>6, <1>7, <1>8, <1>9, Steps

LEMMA PinInit == Init => PinInv
<1>1. Init => \A r \in Specs : isos[ISOName(r)] = NoISO
  BY SpecNames, NamesApart DEF Init, Paths
<1>2. Init => "req" \notin DOMAIN served
  BY DEF Init
<1> QED
  BY <1>1, <1>2, NoISOTyped DEF PinInv, NamesInv, ServedInv

\* What the UUP lane serves for a specification that names a release or a build
\* is of that release or build, for any requests and listings, although names
\* share the cache and commands are killed while they write it.
THEOREM PinServedCorrect == Spec => []PinServed
<1>1. Init => BaseInv /\ StageInv /\ PinInv
  BY BaseInit, StageInit, PinInit
<1>2. BaseInv /\ StageInv /\ PinInv /\ [Next]_vars => (BaseInv /\ StageInv /\ PinInv)'
  BY BaseStep, StageStep, NamesStep, ServedStep DEF PinInv
<1>3. PinInv => PinServed
  BY DEF PinInv, ServedInv, PinServed
<1> QED
  BY <1>1, <1>2, <1>3, PTL DEF Spec

-----------------------------------------------------------------------------
(* The ISO boots when it is whole.                                           *)

\* The ISOs that boot are those that did.
Lessened == \A n \in Paths : isos'[n] = isos[n] \/ ~RequireEFIBootable(isos'[n])

LEMMA RemovedLessens == Removed => Lessened
BY NoISOTyped DEF Removed, Lessened

LEMMA ImageBoots ==
  \A S : RequireEFIBootable(Image(S)) <=> "record" \in S /\ "catalog" \in S
BY ImageSectors DEF RequireEFIBootable

LEMMA CreatedLessens == ASSUME BaseInv, Darwin = TRUE, Created PROVE Lessened
<1>1. isos' = [isos EXCEPT ![Name] = Image({})]
  BY DEF Created
<1>2. ~RequireEFIBootable(Image({}))
  BY ImageBoots
<1> QED
  BY <1>1, <1>2 DEF Lessened, BaseInv, ShelfOK

\* A step that leaves the job, one that ends it, and one within it.
LEMMA RecordKept ==
  ASSUME RecordInv, UNCHANGED <<isos, lane, req, spec>>, pc' \in Unready => pc \in Unready,
         pc' \notin Written \/ pc' = pc
  PROVE  RecordInv'
<1>1. Name' = Name
  BY DEF Name
<1> QED
  BY <1>1 DEF RecordInv, RequireEFIBootable

LEMMA RecordAway ==
  ASSUME RecordInv, Lessened, pc' \notin Unready, pc' \notin Written PROVE RecordInv'
BY DEF RecordInv, Lessened, RequireEFIBootable

LEMMA RecordOn ==
  ASSUME RecordInv, BaseInv, Lessened, UNCHANGED <<lane, req, spec>>, pc \in Unready, pc' \notin Written
  PROVE  RecordInv'
<1>1. Name' = Name
  BY DEF Name
<1>2. pc # "idle"
  BY DEF Unready, MctPcs, UupPcs, UupTry, Mastering, Written
<1>3. Name \in Paths
  BY <1>2, NameTyped DEF BaseInv
<1>4. ~RequireEFIBootable(isos'[Name])
  BY <1>3 DEF RecordInv, Lessened
<1> QED
  BY <1>1, <1>4 DEF RecordInv, Lessened, RequireEFIBootable

LEMMA Settled == \A where \in {"idle", "mctLook", "uupLook"} \cup VirtioPcs :
                   where \notin Unready /\ where \notin Written
BY DEF VirtioPcs, Unready, MctPcs, UupPcs, UupTry, Mastering, Written

LEMMA RecordFailed ==
  ASSUME RecordInv, BaseInv, Lessened, Failed, UNCHANGED <<req, spec>>, pc \in Unready
  PROVE  RecordInv'
<1>1. pc' \in {"idle", "uupLook"} \/ (pc' = "uupPick" /\ lane' = lane)
  BY DEF Failed, Goto
<1>2. CASE pc' \in {"idle", "uupLook"}
  BY <1>2, Settled, RecordAway
<1>3. CASE pc' = "uupPick" /\ lane' = lane
  BY <1>3, RecordOn DEF Written
<1> QED
  BY <1>1, <1>2, <1>3

LEMMA RecordMct == ASSUME RecordInv, BaseInv, MctStep PROVE RecordInv'
<1> USE DEF Goto, job, command
<1>1. Lessened
  <2>1. [Next]_vars
    BY DEF MctStep, Next, Step
  <2>2. ~Created /\ ~WriteSectors
    BY DEF MctStep, mctLook, mctFind, mctOpen, mctReceive, mctReceived, mctBootwim, mctInstall,
      Created, WriteSectors, Sector
  <2> QED
    BY <2>1, <2>2, IsosChange, RemovedLessens
<1>2. CASE mctLook
  <2>1. CASE RequireEFIBootable(isos[Name])
    <3>1. pc' \in {"idle"} \cup VirtioPcs
      BY <1>2, <2>1 DEF mctLook, Got, VirtioPcs
    <3> QED
      BY <1>1, <3>1, Settled, RecordAway
  <2>2. CASE ~RequireEFIBootable(isos[Name])
    <3>1. pc' = "mctFind" /\ isos' = [isos EXCEPT ![Name] = NoISO] /\ UNCHANGED <<lane, req, spec>>
      BY <1>2, <2>2 DEF mctLook
    <3>2. Name' = Name
      BY <3>1 DEF Name
    <3>3. Name \in Paths
      BY <1>2, NameTyped DEF mctLook, BaseInv
    <3>4. ~RequireEFIBootable(isos'[Name'])
      BY <3>1, <3>2, <3>3, NoISOTyped DEF BaseInv, ShelfOK
    <3>5. pc' \notin Written
      BY <3>1 DEF Written
    <3> QED
      BY <1>1, <3>4, <3>5 DEF RecordInv, Lessened, RequireEFIBootable
  <2> QED
    BY <2>1, <2>2
<1>3. CASE mctReceived /\ ~Verified(Blocks(MctESD))
  <2>1. Failed /\ UNCHANGED <<req, spec>> /\ pc \in Unready
    BY <1>3 DEF mctReceived, Unready, MctPcs
  <2> QED
    BY <1>1, <2>1, RecordFailed
<1>4. CASE mctReceive
  BY <1>4, RecordKept DEF mctReceive, shelf
<1>5. CASE mctFind \/ mctOpen \/ mctBootwim \/ mctInstall \/ (mctReceived /\ Verified(Blocks(MctESD)))
  <2>1. pc \in MctPcs \ {"mctLook"} /\ UNCHANGED <<lane, req, spec>>
        /\ pc' \in {"mctOpen", "mctLoad", "mctExtract", "mctInstall", "sidecar"}
    BY <1>5 DEF mctFind, mctOpen, mctReceived, mctBootwim, mctInstall, MctPcs
  <2>2. pc \in Unready /\ pc' \notin Written
    BY <2>1 DEF Unready, MctPcs, Written
  <2> QED
    BY <1>1, <2>1, <2>2, RecordOn
<1> QED
  BY <1>2, <1>3, <1>4, <1>5 DEF MctStep

LEMMA RecordUup == ASSUME RecordInv, BaseInv, UupStep PROVE RecordInv'
<1> USE DEF Goto, job, command
<1>1. Lessened
  <2>1. [Next]_vars
    BY DEF UupStep, Next, Step
  <2>2. pc \in {"uupLook", "uupFind", "uupPick", "uupLoad"}
    BY DEF UupStep, uupLook, uupFind, uupPick, DownloadFiles, downloadOne, uupReceive, uupReceived
  <2>3. ~Created /\ ~WriteSectors
    BY <2>2 DEF Created, WriteSectors, Sector
  <2> QED
    BY <2>1, <2>3, IsosChange, RemovedLessens
<1>2. CASE uupLook
  <2>1. pc = "uupLook" /\ UNCHANGED <<lane, req, spec>> /\ Name = ISOName(spec) /\ Name \in Paths
    <3>1. pc = "uupLook" /\ UNCHANGED <<lane, req, spec>> /\ lane = "uup"
      BY <1>2 DEF uupLook, BaseInv, CommandOK, UupPcs
    <3> QED
      BY <3>1, NameTyped DEF Name, BaseInv
  <2>2. \/ pc' \in {"idle"} \cup VirtioPcs
        \/ pc' = "uupFind" /\ \E paths : ISOName(spec) \in paths /\ Discard(paths)
    <3> DEFINE paths == cachedPaths(spec)
    <3>1. 1 \in DOMAIN paths /\ paths[1] = ISOName(spec)
      BY DEF cachedPaths
    <3>2. ISOName(spec) \in {paths[i] : i \in DOMAIN paths}
      BY <3>1
    <3>3. \/ pc' \in {"idle"} \cup VirtioPcs
          \/ pc' = "uupFind" /\ Discard({paths[i] : i \in DOMAIN paths})
      BY <1>2 DEF uupLook, Got, VirtioPcs
    <3> QED
      BY <3>2, <3>3
  <2>3. CASE pc' \in {"idle"} \cup VirtioPcs
    BY <1>1, <2>3, Settled, RecordAway
  <2>4. CASE pc' = "uupFind" /\ \E paths : ISOName(spec) \in paths /\ Discard(paths)
    <3>1. isos'[Name] = NoISO
      BY <2>1, <2>4 DEF Discard, BaseInv, ShelfOK
    <3>2. Name' = Name
      BY <2>1 DEF Name
    <3>3. ~RequireEFIBootable(isos'[Name'])
      BY <3>1, <3>2, NoISOTyped
    <3>4. pc' \notin Written
      BY <2>4 DEF Written
    <3> QED
      BY <1>1, <3>3, <3>4 DEF RecordInv, Lessened, RequireEFIBootable
  <2> QED
    BY <2>2, <2>3, <2>4
<1>3. CASE uupFind \/ uupPick
  <2>1. pc \in {"uupFind", "uupPick"} /\ pc' \in {"idle", "uupPick", "uupLoad"}
        /\ UNCHANGED <<lane, req, spec>>
    BY <1>3 DEF uupFind, uupPick
  <2>2. pc \in Unready /\ pc' \notin Written
    BY <2>1 DEF Unready, UupPcs, Written
  <2> QED
    BY <1>1, <2>1, <2>2, RecordOn
<1>4. CASE DownloadFiles
  <2>1. pc \in Unready /\ UNCHANGED <<req, spec>>
    BY <1>4 DEF DownloadFiles, Unready, UupPcs, UupTry
  <2>2. Failed \/ (pc' = "uupClear" /\ UNCHANGED lane)
    BY <1>4 DEF DownloadFiles
  <2>3. CASE Failed
    BY <1>1, <2>1, <2>3, RecordFailed
  <2>4. CASE pc' = "uupClear" /\ UNCHANGED lane
    BY <1>1, <2>1, <2>4, RecordOn DEF Written
  <2> QED
    BY <2>2, <2>3, <2>4
<1>5. ASSUME NEW f \in Esds, downloadOne(f) \/ uupReceive(f) \/ uupReceived(f) PROVE RecordInv'
  <2>1. UNCHANGED <<isos, lane, req, spec, pc>>
    BY <1>5 DEF downloadOne, uupReceive, uupReceived, shelf
  <2> QED
    BY <2>1, RecordKept
<1> QED
  BY <1>2, <1>3, <1>4, <1>5 DEF UupStep

LEMMA RecordTree == ASSUME RecordInv, BaseInv, TreeStep PROVE RecordInv'
<1> USE DEF Goto, command
<1>1. UNCHANGED <<isos, req, spec>> /\ Lessened
  BY DEF TreeStep, clearGeneratedArtifacts, ExtractImage, buildBootWim, injectSetupIntoBootWim,
    uupInstall, shelf, Lessened
<1>2. pc \in {"mctExtract", "uupClear", "uupExtract", "uupBootwim", "uupInject", "uupInstall"}
  BY DEF TreeStep, clearGeneratedArtifacts, ExtractImage, buildBootWim, injectSetupIntoBootWim,
    uupInstall
<1>3. pc \in Unready
  BY <1>2 DEF Unready, MctPcs, UupPcs, UupTry
<1>4. Failed \/ (UNCHANGED lane /\ pc' \in {"uupExtract", "mctBootwim", "uupInstall", "uupBootwim",
                                           "uupInject", "sidecar"})
  BY DEF TreeStep, clearGeneratedArtifacts, ExtractImage, AfterExtract, buildBootWim,
    injectSetupIntoBootWim, uupInstall
<1>5. CASE Failed
  BY <1>1, <1>3, <1>5, RecordFailed
<1>6. CASE ~Failed
  <2>1. UNCHANGED lane /\ pc' \notin Written
    BY <1>4, <1>6 DEF Written
  <2> QED
    BY <1>1, <1>3, <2>1, RecordOn
<1> QED
  BY <1>5, <1>6

LEMMA RecordMaster == ASSUME Darwin = TRUE, RecordInv, BaseInv, MasterStep PROVE RecordInv'
<1> USE DEF Goto, command
<1>1. CASE writeBootloaderSidecar
  <2>1. UNCHANGED <<isos, lane, req, spec>> /\ pc = "sidecar" /\ pc' = "master"
    BY <1>1 DEF writeBootloaderSidecar
  <2> QED
    BY <2>1, RecordKept DEF Unready, Mastering, Written
<1>2. CASE createWindowsISO
  <2>1. isos' = [isos EXCEPT ![Name] = Image({})] /\ pc = "master" /\ pc' = "files"
        /\ UNCHANGED <<lane, req, spec>>
    BY <1>2 DEF createWindowsISO
  <2>2. Created
    BY <2>1 DEF Created
  <2>3. Lessened
    BY <2>2, CreatedLessens
  <2>4. Name' = Name
    BY <2>1 DEF Name
  <2>5. Name \in Paths
    BY <2>1, NameTyped DEF BaseInv
  <2>6. isos'[Name'] = Image({})
    BY <2>1, <2>4, <2>5 DEF BaseInv, ShelfOK
  <2>7. isos'[Name'].sectors = {} /\ ~RequireEFIBootable(isos'[Name'])
    BY <2>6, ImageSectors, ImageBoots
  <2>8. SectorsAt[pc'] = {}
    BY <2>1 DEF SectorsAt
  <2> QED
    BY <2>3, <2>7, <2>8 DEF RecordInv, Lessened, RequireEFIBootable
<1>3. CASE WriteSectors
  <2>1. PICK S : /\ S = isos[Name].sectors \cup {Sector[pc]}
                 /\ isos' = [isos EXCEPT ![Name] = Image(S)]
                 /\ Name \in Paths
    BY <1>3, WriteIs
  <2>2. /\ pc \in {"files", "image", "catalog", "record"} /\ UNCHANGED <<lane, req, spec>>
        /\ pc' = NextSector[pc]
    BY <1>3 DEF WriteSectors, Sector
  <2>3. S = SectorsAt[pc']
    <3>1. S = SectorsAt[pc] \cup {Sector[pc]}
      BY <2>1, <2>2 DEF RecordInv, Written
    <3> QED
      BY <2>2, <3>1 DEF SectorsAt, Sector, NextSector
  <2>4. Name' = Name
    BY <2>2 DEF Name
  <2>5. isos'[Name'] = Image(S) /\ \A n \in Paths : n # Name => isos'[n] = isos[n]
    BY <2>1, <2>4 DEF BaseInv, ShelfOK
  <2>6. isos'[Name'].sectors = SectorsAt[pc']
    BY <2>3, <2>5, ImageSectors
  <2>7. pc' \in {"image", "catalog", "record", "mastered"}
    BY <2>2 DEF NextSector
  <2>8. RequireEFIBootable(isos'[Name']) <=> pc' = "mastered"
    BY <2>3, <2>5, <2>7, ImageBoots DEF SectorsAt
  <2>9. pc' \in Unready => ~RequireEFIBootable(isos'[Name'])
    BY <2>8 DEF Unready
  <2>10. \A n \in Paths : RequireEFIBootable(isos'[n]) =>
           {"files", "image", "catalog", "record"} \subseteq isos'[n].sectors
    BY <2>4, <2>5, <2>6, <2>8 DEF RecordInv, SectorsAt
  <2> QED
    BY <2>6, <2>9, <2>10 DEF RecordInv, RequireEFIBootable
<1>4. CASE Mastered
  <2>1. UNCHANGED isos /\ pc' \in {"idle"} \cup VirtioPcs
    BY <1>4 DEF Mastered, Got, VirtioPcs
  <2> QED
    BY <2>1, Settled, RecordAway DEF Lessened
<1> QED
  BY <1>1, <1>2, <1>3, <1>4 DEF MasterStep

LEMMA RecordStep == ASSUME Darwin = TRUE, RecordInv, BaseInv, [Next]_vars PROVE RecordInv'
<1> USE DEF Goto, command
<1>1. ASSUME NEW q \in Requests, Request(q) PROVE RecordInv'
  <2>1. pc' \in {"idle", "mctLook", "uupLook"} \cup VirtioPcs
    BY <1>1, Sources, MediaAssumption DEF Request, VirtioPcs
  <2>2. isos' = isos \/ isos' = [n \in DOMAIN isos |-> NoISO]
    BY <1>1 DEF Request, clearCache
  <2>3. Lessened
    BY <2>2, NoISOTyped DEF Lessened, BaseInv, ShelfOK
  <2> QED
    BY <2>1, <2>3, Settled, RecordAway
<1>2. CASE DriverStep
  <2>1. UNCHANGED <<isos>> /\ pc' \in {"idle"} \cup VirtioPcs
    BY <1>2 DEF DriverStep, virtioEnsure, virtioLook, virtioOpen, virtioReceive, virtioRename, shelf,
      job, VirtioPcs
  <2> QED
    BY <2>1, Settled, RecordAway DEF Lessened
<1>3. CASE Failing
  <2>1. CASE Fail \/ Crash
    <3>1. Leavings /\ pc # "idle" /\ UNCHANGED <<req, spec>>
      BY <2>1 DEF Fail, Crash, Fallible, Sector
    <3>2. Lessened
      BY <3>1, LeavingsIsos, RemovedLessens, CreatedLessens
    <3>3. CASE Fail
      <4>1. pc \in Unready /\ Failed
        BY <3>3 DEF Fail, Fallible, Sector, Unready, MctPcs, UupPcs, UupTry, Mastering, Written
      <4> QED
        BY <3>1, <3>2, <4>1, RecordFailed
    <3>4. CASE Crash
      BY <3>2, <3>4, Settled, RecordAway DEF Crash
    <3> QED
      BY <2>1, <3>3, <3>4
  <2>2. CASE virtioFail
    <3>1. UNCHANGED isos /\ pc' = "idle"
      BY <2>2 DEF virtioFail, shelf
    <3> QED
      BY <3>1, Settled, RecordAway DEF Lessened
  <2> QED
    BY <1>3, <2>1, <2>2 DEF Failing
<1>4. CASE Quiet
  <2>1. UNCHANGED <<isos, lane, req, spec, pc>>
    BY <1>4 DEF Quiet, Publish, vars, job, shelf
  <2> QED
    BY <2>1, RecordKept
<1> QED
  BY <1>1, <1>2, <1>3, <1>4, Steps, RecordMct, RecordUup, RecordTree, RecordMaster

LEMMA WholeSectors ==
  \A b : WholeISO(b).sectors = {"files", "image", "catalog", "record"}
BY DEF WholeISO

LEMMA RecordInit == Init => RecordInv
<1> SUFFICES ASSUME Init PROVE RecordInv
  OBVIOUS
<1>1. \A n \in Paths : isos[n] \in {NoISO, WholeISO(OldISO)}
  BY DEF Init, Paths
<1>2. pc = "idle"
  BY DEF Init
<1> QED
  BY <1>1, <1>2, Settled, NoISOTyped, WholeSectors DEF RecordInv

LEMMA DriverInit == Init => DriverInv
BY DEF Init, DriverInv, Ends

\* Where hdiutil masters the ISO, an ISO that boots has all that it should,
\* however commands fail or are killed while one is written; and the driver ISO
\* ends where its version does, although its transfer was resumed.
THEOREM CachedIsWholeCorrect == ASSUME Darwin = TRUE PROVE Spec => []CachedIsWhole
<1>1. Init => BaseInv /\ RecordInv /\ DriverInv
  BY BaseInit, RecordInit, DriverInit
<1>2. BaseInv /\ RecordInv /\ DriverInv /\ [Next]_vars => (BaseInv /\ RecordInv /\ DriverInv)'
  BY BaseStep, RecordStep, DriverStepOK
<1>3. BaseInv /\ RecordInv /\ DriverInv => CachedIsWhole
  BY DEF BaseInv, ShelfOK, RecordInv, DriverInv, Ends, CachedIsWhole
<1> QED
  BY <1>1, <1>2, <1>3, PTL DEF Spec

-----------------------------------------------------------------------------
(* The ISO that boots is of one build.                                       *)

\* The stages at which something is known of the WIMs of the work tree.
Building == {"mctInstall", "uupExtract", "uupBootwim", "uupInject", "uupInstall"} \cup Mastering

LEMMA WimNone == ASSUME pc' \in Unopened \cup {"mctExtract", "mctBootwim", "uupClear"} PROVE WimInv'
<1>1. pc' \notin Building
  BY DEF Unopened, VirtioPcs, Building, Mastering, Written
<1> QED
  BY <1>1 DEF WimInv, Building

LEMMA BootWimIs ==
  \A pe, setup : /\ BootWim(pe, setup).is = "file" /\ BootWim(pe, setup).pe = pe
                 /\ BootWim(pe, setup).setup = setup
BY DEF BootWim

LEMMA BootWimInjected ==
  ASSUME NEW pe, NEW setup, NEW t PROVE [BootWim(pe, setup) EXCEPT !.setup = t] = BootWim(pe, t)
<1>1. PICK no : no = FALSE
  OBVIOUS
<1>2. \A s : BootWim(pe, s) = [is |-> "file", pe |-> pe, setup |-> s, reused |-> no]
  BY <1>1 DEF BootWim
<1>3. PICK wim : wim = BootWim(pe, setup)
  OBVIOUS
<1>4. [wim EXCEPT !.setup = t] = [is |-> "file", pe |-> pe, setup |-> t, reused |-> no]
  BY <1>2, <1>3
<1> QED
  BY <1>2, <1>3, <1>4

LEMMA WimMct == ASSUME BaseInv, StageInv, WimInv, MctStep PROVE WimInv'
<1> USE DEF Goto, job
<1>1. CASE mctBootwim
  <2>1. pc = "mctBootwim" /\ pc' = "mctInstall" /\ build' = build
        /\ bootwim' = [bootwim EXCEPT !["mct"] = BootWim(Origin, [f \in SetupFiles |-> Origin])]
    BY <1>1 DEF mctBootwim
  <2>2. Origin = build
    BY <2>1 DEF StageInv, Opened
  <2>3. bootwim'["mct"] = BootWim(build', [f \in SetupFiles |-> build'])
    BY <2>1, <2>2 DEF BaseInv, TreeOK, Lanes
  <2> QED
    BY <2>1, <2>3 DEF WimInv, Mastering, Written
<1>2. CASE mctInstall
  <2>1. pc = "mctInstall" /\ pc' = "sidecar" /\ UNCHANGED <<build, lane, bootwim>> /\ lane = "mct"
        /\ install' = [install EXCEPT !["mct"] = InstallWim(Origin)]
    BY <1>2 DEF mctInstall, BaseInv, CommandOK, MctPcs
  <2>2. Origin = build
    BY <2>1 DEF StageInv, Opened
  <2>3. install'[lane'] = InstallWim(build')
    BY <2>1, <2>2 DEF BaseInv, TreeOK, Lanes
  <2>4. bootwim'[lane'] = BootWim(build', [f \in SetupFiles |-> build'])
    BY <2>1 DEF WimInv
  <2>5. bootwim'[lane'].is = "file" /\ Setup(bootwim'[lane'], build')
    BY <2>4, BootWimIs DEF Setup
  <2> QED
    BY <2>1, <2>3, <2>5 DEF WimInv, Setup
<1>3. CASE mctLook \/ mctFind \/ mctOpen \/ mctReceive \/ mctReceived
  <2>1. pc' \in Unopened \cup {"mctExtract"}
    BY <1>3, FailedUnopened DEF mctLook, mctFind, mctOpen, mctReceive, mctReceived, Got, Unopened,
      VirtioPcs
  <2> QED
    BY <2>1, WimNone
<1> QED
  BY <1>1, <1>2, <1>3 DEF MctStep

LEMMA WimUup == ASSUME UupStep PROVE WimInv'
<1> USE DEF Goto, job
<1>1. CASE uupLook \/ uupFind \/ uupPick \/ DownloadFiles
  <2>1. pc' \in Unopened \cup {"uupClear"}
    BY <1>1, FailedUnopened DEF uupLook, uupFind, uupPick, DownloadFiles, Got, Unopened, VirtioPcs
  <2> QED
    BY <2>1, WimNone
<1>2. ASSUME NEW f \in Esds, downloadOne(f) \/ uupReceive(f) \/ uupReceived(f) PROVE WimInv'
  <2>1. pc' \in Unopened
    BY <1>2 DEF downloadOne, uupReceive, uupReceived, Unopened
  <2> QED
    BY <2>1, WimNone
<1> QED
  BY <1>1, <1>2 DEF UupStep

LEMMA WimTree == ASSUME BaseInv, StageInv, WimInv, TreeStep PROVE WimInv'
<1> USE DEF Goto
<1>1. CASE clearGeneratedArtifacts
  <2>1. /\ pc' = "uupExtract" /\ install' = [install EXCEPT !["uup"] = NoWim]
        /\ bootwim' = [bootwim EXCEPT !["uup"] =
             IF canReuseBootWim THEN [bootwim["uup"] EXCEPT !.reused = TRUE] ELSE NoWim]
    BY <1>1 DEF clearGeneratedArtifacts
  <2>2. install'["uup"] = NoWim
    BY <2>1 DEF BaseInv, TreeOK, Lanes
  <2>3. bootwim'["uup"] = IF canReuseBootWim THEN [bootwim["uup"] EXCEPT !.reused = TRUE] ELSE NoWim
    BY <2>1 DEF BaseInv, TreeOK, Lanes
  <2>4. canReuseBootWim => [bootwim["uup"] EXCEPT !.reused = TRUE].reused
    BY DEF canReuseBootWim, BaseInv, TreeOK, Lanes, WimType, NoWim
  <2>5. bootwim'["uup"].is = "file" => bootwim'["uup"].reused
    BY <2>3, <2>4 DEF NoWim
  <2> QED
    BY <2>1, <2>2, <2>5 DEF WimInv, Mastering, Written
<1>2. CASE ExtractImage
  <2>1. UNCHANGED <<lane, build, bootwim, install>> /\ pc' = AfterExtract
    BY <1>2 DEF ExtractImage
  <2>2. CASE lane = "mct"
    BY <2>1, <2>2, WimNone DEF AfterExtract
  <2>3. CASE lane # "mct"
    <3>1. pc = "uupExtract" /\ lane = "uup"
      BY <1>2, <2>3 DEF ExtractImage, BaseInv, CommandOK, MctPcs, Lanes
    <3>2. \/ pc' = "uupInstall" /\ bootwim["uup"].is = "file"
          \/ pc' = "uupBootwim"
      BY <2>1, <3>1 DEF AfterExtract
    <3> QED
      BY <2>1, <3>1, <3>2 DEF WimInv, Mastering, Written
  <2> QED
    BY <2>2, <2>3
<1>3. CASE buildBootWim
  <2>1. pc = "uupBootwim" /\ pc' = "uupInject" /\ UNCHANGED <<build, install>>
        /\ bootwim' = [bootwim EXCEPT !["uup"] = BootWim(Origin, [f \in SetupFiles |-> None])]
    BY <1>3 DEF buildBootWim
  <2>2. Origin = build
    BY <2>1 DEF StageInv, Opened, UupTry
  <2>3. bootwim'["uup"] = BootWim(build', [f \in SetupFiles |-> None])
    BY <2>1, <2>2 DEF BaseInv, TreeOK, Lanes
  <2> QED
    BY <2>1, <2>3 DEF WimInv, Mastering, Written
<1>4. CASE injectSetupIntoBootWim
  <2>1. /\ pc = "uupInject" /\ pc' = "uupInstall" /\ UNCHANGED <<build, lane, install>>
        /\ lane = "uup"
        /\ bootwim' = [bootwim EXCEPT !["uup"] =
             [bootwim["uup"] EXCEPT !.setup = [f \in SetupFiles |-> stage["uup"][f]]]]
    BY <1>4 DEF injectSetupIntoBootWim, BaseInv, CommandOK, UupPcs, UupTry
  <2>2. bootwim["uup"] = BootWim(build, [f \in SetupFiles |-> None])
    BY <2>1 DEF WimInv
  <2>3. bootwim'["uup"] = BootWim(build, [f \in SetupFiles |-> stage["uup"][f]])
    <3>1. [bootwim["uup"] EXCEPT !.setup = [f \in SetupFiles |-> stage["uup"][f]]]
            = BootWim(build, [f \in SetupFiles |-> stage["uup"][f]])
      BY <2>2, BootWimInjected
    <3> QED
      BY <2>1, <3>1 DEF BaseInv, TreeOK, Lanes
  <2>4. \A f \in Media[build] \cap SetupFiles : stage["uup"][f] = build
    BY <2>1 DEF StageInv, Staged
  <2>5. bootwim'[lane'].is = "file" /\ Setup(bootwim'[lane'], build')
    <3> DEFINE injected == [f \in SetupFiles |-> stage["uup"][f]]
    <3>1. bootwim'[lane'] = BootWim(build, injected) /\ build' = build
      BY <2>1, <2>3
    <3>2. \A f \in Media[build] \cap SetupFiles : injected[f] = build
      BY <2>4
    <3> HIDE DEF injected
    <3> QED
      BY <3>1, <3>2, BootWimIs DEF Setup
  <2> QED
    BY <2>1, <2>5 DEF WimInv, Mastering, Written, Setup
<1>5. CASE uupInstall
  <2>1. CASE Failed
    BY <2>1, FailedUnopened, WimNone
  <2>2. CASE ~Failed
    <3>1. /\ pc = "uupInstall" /\ pc' = "sidecar" /\ UNCHANGED <<build, lane, bootwim>>
          /\ UNCHANGED install \/ install' = [install EXCEPT !["uup"] = InstallWim(Origin)]
          /\ lane = "uup"
      BY <1>5, <2>2 DEF uupInstall, BaseInv, CommandOK, UupPcs, UupTry
    <3>2. Origin = build
      BY <3>1 DEF StageInv, Opened, UupTry
    <3>3. install'[lane'] \in {NoWim, InstallWim(build')}
      BY <3>1, <3>2 DEF WimInv, BaseInv, TreeOK, Lanes
    <3> QED
      BY <3>1, <3>3 DEF WimInv, Setup
  <2> QED
    BY <2>1, <2>2
<1> QED
  BY <1>1, <1>2, <1>3, <1>4, <1>5 DEF TreeStep

LEMMA WimMaster == ASSUME BaseInv, WimInv, MasterStep PROVE WimInv'
<1> USE DEF Goto, command
<1>1. CASE writeBootloaderSidecar
  <2>1. /\ pc = "sidecar" /\ pc' = "master" /\ UNCHANGED <<req, spec, lane, build, stage, bootwim, install>>
        /\ \/ sidecar' = [sidecar EXCEPT ![Name] = stage[lane]["efi"]]
           \/ sidecar' = [sidecar EXCEPT ![Name] = "torn"]
    BY <1>1 DEF writeBootloaderSidecar, work
  <2>2. Name \in Names /\ Name' = Name
    BY <2>1, NameTyped DEF BaseInv, Name
  <2>3. sidecar'[Name'] \in {stage'[lane']["efi"], "torn"}
    BY <2>1, <2>2 DEF BaseInv, ShelfOK
  <2> QED
    BY <2>1, <2>3 DEF WimInv, Mastering, Setup
<1>2. CASE createWindowsISO \/ WriteSectors
  <2>1. /\ pc \in Mastering \ {"sidecar"} /\ pc' \in Mastering \ {"sidecar"}
        /\ UNCHANGED <<req, spec, lane, build, stage, bootwim, install, sidecar>>
    BY <1>2 DEF createWindowsISO, WriteSectors, work, Mastering, Written, Sector, NextSector
  <2>2. Name' = Name
    BY <2>1 DEF Name
  <2>4. /\ bootwim'[lane'].is = "file" /\ (bootwim'[lane'].reused \/ Setup(bootwim'[lane'], build'))
        /\ install'[lane'] \in {NoWim, InstallWim(build')}
    BY <2>1 DEF WimInv, Setup
  <2>5. sidecar'[Name'] \in {stage'[lane']["efi"], "torn"}
    BY <2>1, <2>2 DEF WimInv
  <2>6. pc' \notin {"mctInstall", "uupExtract", "uupBootwim", "uupInject", "uupInstall"}
    BY <2>1 DEF Mastering, Written
  <2> QED
    BY <2>4, <2>5, <2>6 DEF WimInv, Setup
<1>3. CASE Mastered
  <2>1. pc' \in Unopened
    BY <1>3 DEF Mastered, Got, Unopened, VirtioPcs
  <2> QED
    BY <2>1, WimNone
<1> QED
  BY <1>1, <1>2, <1>3 DEF MasterStep

LEMMA WimStep == ASSUME BaseInv, StageInv, WimInv, [Next]_vars PROVE WimInv'
<1> USE DEF Goto
<1>1. ASSUME NEW q \in Requests, Request(q) PROVE WimInv'
  <2>1. pc' \in Unopened
    BY <1>1, Sources, MediaAssumption DEF Request, Unopened, VirtioPcs
  <2> QED
    BY <2>1, WimNone
<1>2. CASE DriverStep \/ Failing
  <2>1. pc' \in Unopened
    BY <1>2, FailedUnopened DEF DriverStep, virtioEnsure, virtioLook, virtioOpen, virtioReceive,
      virtioRename, job, Failing, Fail, virtioFail, Crash, Unopened, VirtioPcs
  <2> QED
    BY <2>1, WimNone
<1>3. CASE Quiet
  <2>1. UNCHANGED <<pc, req, spec, lane, build, stage, bootwim, install, sidecar>>
    BY <1>3 DEF Quiet, Publish, vars, job, command, work, shelf
  <2>2. Name' = Name
    BY <2>1 DEF Name
  <2> QED
    BY <2>1, <2>2 DEF WimInv, Setup
<1> QED
  BY <1>1, <1>2, <1>3, Steps, WimMct, WimUup, WimTree, WimMaster

\* An ISO that boots, and the bootloader beside it, in one name.
Sound(n) ==
  LET b == isos[n].bootwim.pe IN
  RequireEFIBootable(isos[n]) =>
    /\ ~isos[n].bootwim.reused =>
         /\ b \in Builds
         /\ \A f \in Media[b] : isos[n].tree[f] = b
         /\ \A f \in Media[b] \cap SetupFiles : isos[n].bootwim.setup[f] = b
         /\ isos[n].install \in {NoWim, InstallWim(b)}
    /\ n \in Names => sidecar[n] \in {isos[n].tree["efi"], "torn"}
FaithfulInv == \A n \in Paths : Sound(n)

\* What is about to boot is of the build in hand.
LEMMA ImageSound ==
  ASSUME BaseInv, StageInv, WimInv, pc \in Mastering \ {"sidecar"}, NEW S, NEW n \in Paths, n = Name,
         isos'[n] = Image(S), UNCHANGED sidecar
  PROVE  Sound(n)'
<1>1. build \in Builds
  BY DEF BaseInv, PickOK, InHand
<1>2. \A f \in Media[build] : stage[lane][f] = build
  BY DEF StageInv, Staged
<1>3. /\ bootwim[lane].is = "file" /\ (bootwim[lane].reused \/ Setup(bootwim[lane], build))
      /\ install[lane] \in {NoWim, InstallWim(build)}
      /\ sidecar[n] \in {stage[lane]["efi"], "torn"}
  BY DEF WimInv
<1>4. /\ isos'[n].tree = stage[lane] /\ isos'[n].bootwim = bootwim[lane]
      /\ isos'[n].install = install[lane]
  BY ImageSectors
<1>5. ~isos'[n].bootwim.reused => isos'[n].bootwim.pe = build
  BY <1>3, <1>4 DEF Setup
<1> QED
  BY <1>1, <1>2, <1>3, <1>4, <1>5 DEF Sound, Setup

LEMMA SidecarChange == ASSUME [Next]_vars PROVE UNCHANGED sidecar \/ writeBootloaderSidecar
<1>1. ASSUME NEW q \in Requests, Request(q) PROVE UNCHANGED sidecar
  BY <1>1 DEF Request
<1>2. CASE MctStep \/ UupStep
  BY <1>2 DEF MctStep, mctLook, mctFind, mctOpen, mctReceive, mctReceived, mctBootwim, mctInstall,
    UupStep, uupLook, uupFind, uupPick, DownloadFiles, downloadOne, uupReceive, uupReceived, shelf
<1>3. CASE TreeStep \/ MasterStep
  BY <1>3 DEF TreeStep, clearGeneratedArtifacts, ExtractImage, buildBootWim, injectSetupIntoBootWim,
    uupInstall, MasterStep, createWindowsISO, WriteSectors, Mastered, shelf
<1>4. CASE DriverStep \/ Failing \/ Quiet
  BY <1>4 DEF DriverStep, virtioEnsure, virtioLook, virtioOpen, virtioReceive, virtioRename, Failing,
    Fail, virtioFail, Crash, Quiet, Publish, vars, shelf
<1> QED
  BY <1>1, <1>2, <1>3, <1>4, Steps

LEMMA FaithfulStep ==
  ASSUME Darwin = TRUE, BaseInv, StageInv, RecordInv, WimInv, FaithfulInv, [Next]_vars
  PROVE  FaithfulInv'
<1> SUFFICES ASSUME NEW n \in Paths, RequireEFIBootable(isos'[n]) PROVE Sound(n)'
  BY DEF FaithfulInv, Sound, Paths, Names, RequireEFIBootable
<1>1. ASSUME isos'[n] = isos[n], UNCHANGED sidecar PROVE Sound(n)'
  BY <1>1 DEF FaithfulInv, Sound, RequireEFIBootable
<1>2. CASE writeBootloaderSidecar
  <2>1. /\ pc = "sidecar" /\ UNCHANGED isos
        /\ \/ sidecar' = [sidecar EXCEPT ![Name] = stage[lane]["efi"]]
           \/ sidecar' = [sidecar EXCEPT ![Name] = "torn"]
    BY <1>2 DEF writeBootloaderSidecar
  <2>2. ~RequireEFIBootable(isos[Name])
    BY <2>1 DEF RecordInv, Unready, Mastering
  <2>3. n # Name
    BY <2>1, <2>2
  <2>4. n \in Names => sidecar'[n] = sidecar[n]
    BY <2>1, <2>3 DEF BaseInv, ShelfOK
  <2> QED
    BY <2>1, <2>4 DEF FaithfulInv, Sound, RequireEFIBootable
<1>3. CASE UNCHANGED sidecar /\ Lessened
  BY <1>1, <1>3 DEF Lessened
<1>4. CASE UNCHANGED sidecar /\ WriteSectors
  <2>1. PICK S : isos' = [isos EXCEPT ![Name] = Image(S)]
    BY <1>4, WriteIs
  <2>2. CASE n # Name
    BY <1>1, <1>4, <2>1, <2>2 DEF BaseInv, ShelfOK
  <2>3. CASE n = Name
    <3>1. pc \in Mastering \ {"sidecar"}
      BY <1>4 DEF WriteSectors, Sector, Mastering, Written
    <3>2. isos'[n] = Image(S)
      BY <2>1, <2>3 DEF BaseInv, ShelfOK
    <3> QED
      BY <1>4, <2>3, <3>1, <3>2, ImageSound
  <2> QED
    BY <2>2, <2>3
<1> QED
  BY <1>2, <1>3, <1>4, SidecarChange, IsosChange, RemovedLessens, CreatedLessens

LEMMA FaithfulInit == Init => WimInv /\ FaithfulInv
<1> SUFFICES ASSUME Init PROVE WimInv /\ FaithfulInv
  OBVIOUS
<1>1. pc \notin Building
  BY DEF Init, Building, Mastering, Written
<1>2. ASSUME NEW n \in Paths PROVE Sound(n)
  <2>1. \/ isos[n] = NoISO
        \/ n = Legacy /\ isos[n] = WholeISO(OldISO)
    BY <1>2 DEF Init, Paths
  <2>2. OldISO \in Builds /\ \A f \in Media[OldISO] : f \in StageFiles
    BY MediaAssumption DEF MediaAssumption
  <2>3. /\ \A f \in StageFiles : WholeISO(OldISO).tree[f] = OldISO
        /\ WholeISO(OldISO).bootwim = BootWim(OldISO, [f \in SetupFiles |-> OldISO])
        /\ WholeISO(OldISO).install = InstallWim(OldISO)
    BY DEF WholeISO
  <2> QED
    BY <2>1, <2>2, <2>3, NoISOTyped, BootWimIs, NamesApart DEF Sound
<1> QED
  BY <1>1, <1>2 DEF WimInv, FaithfulInv, Building

\* Where hdiutil masters the ISO, one that boots is of one build, although the
\* work tree has what earlier builds and killed commands left in it, and the
\* bootloader beside it is its own or torn.
THEOREM FaithfulCorrect == ASSUME Darwin = TRUE PROVE Spec => []Faithful
<1> DEFINE IInv == BaseInv /\ StageInv /\ RecordInv /\ WimInv /\ FaithfulInv
<1>1. Init => IInv
  BY BaseInit, StageInit, RecordInit, FaithfulInit
<1>2. IInv /\ [Next]_vars => IInv'
  BY BaseStep, StageStep, RecordStep, WimStep, FaithfulStep
<1>3. IInv => Faithful
  BY DEF BaseInv, ShelfOK, FaithfulInv, Sound, Faithful
<1> QED
  BY <1>1, <1>2, <1>3, PTL DEF Spec
=============================================================================
