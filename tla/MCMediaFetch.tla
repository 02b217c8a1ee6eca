---------------------------- MODULE MCMediaFetch ----------------------------
(* MediaFetch for TLC: two builds of the default release, of which only the  *)
(* older assembles, one of the next release, and one that is off the table.  *)
EXTENDS MediaFetch, TLC
CONSTANTS b1, b2, b3, b4

B(series, qfe, created, title) ==
  [series |-> series, qfe |-> qfe, arch |-> "arm64", created |-> created, title |-> title]
TheBuilds ==
  (b1 :> B(26100, 1, 1, {})) @@ (b2 :> B(26100, 2, 3, {"feature update"}))
  @@ (b3 :> B(26200, 1, 2, {"KB", "feature update"})) @@ (b4 :> B(28000, 1, 4, {}))
TheListing ==
  (<<11, "any">> :> {b2, b3, b4}) @@ (<<11, "24h2">> :> {b1, b2}) @@ (<<11, "25h2">> :> {b3})
TheMedia ==
  (b1 :> {"efi", "setup.exe"}) @@ (b2 :> StageFiles) @@ (b3 :> StageFiles)
  @@ (b4 :> {"efi", "sources"})
TheCatalogs == <<b1, b3>>
Sizes == <<2, 3>>

Fetch(source, version) ==
  [NoJob EXCEPT !.cmd = "fetch", !.source = source, !.spec.version = version]
Pin(series, qfe) == [series |-> series, qfe |-> qfe]
Default == Fetch("uup", "any")
Latest == Fetch("uup", "latest")
ImplicitPin == [NoJob EXCEPT !.cmd = "fetch", !.source = "mct", !.spec.build = Pin(26200, 1)]
ExplicitPin == [ImplicitPin EXCEPT !.explicit = TRUE]
Reuse == [Fetch("uup", "25h2") EXCEPT !.reuse = TRUE]
Mct == Fetch("mct", "any")
MctNamed == Fetch("mct", "24h2")
MctNumber == [Mct EXCEPT !.spec.number = Pin(26100, 1)]
Build == [NoJob EXCEPT !.cmd = "build"]
NoCache == [Build EXCEPT !.noCache = TRUE]
PinnedBuild == [Build EXCEPT !.spec.build = Pin(28000, 0)]
Virtio == [NoJob EXCEPT !.cmd = "virtio"]

AllRequests == {Default, Latest, ImplicitPin, Reuse, Mct, Build, NoCache, PinnedBuild, Virtio}
MctRequests == {MctNamed, MctNumber, ExplicitPin}
=============================================================================
