----------------------------- MODULE MediaSpec -----------------------------
(* What installation media a user can name, which published builds answer to *)
(* a name, and under which file name the result is cached (spec.go,          *)
(* releases.go and client.go of media/uupdump). Version names stand for what *)
(* ToLower makes of them, and any for none; a build number is its series and *)
(* revision.                                                                 *)
EXTENDS Naturals, Sequences, FiniteSets

CONSTANTS
  Info,      \* of each build: series, qfe, arch, title, created
  Listing    \* the builds that each search of the UUP API lists

Builds == DOMAIN Info

(* A pin is an exact build, or a series when its revision is 0.              *)
NoPin == [series |-> 0, qfe |-> 0]

(* The releases that are generally available, newest first in each product.  *)
Release(p, v, s) == [product |-> p, version |-> v, series |-> s]
gaReleases ==
  { Release(11, "25h2", 26200), Release(11, "24h2", 26100), Release(11, "23h2", 22631),
    Release(11, "22h2", 22621), Release(11, "21h2", 22000),
    Release(10, "22h2", 19045), Release(10, "21h2", 19044), Release(10, "21h1", 19043),
    Release(10, "20h2", 19042), Release(10, "2004", 19041) }

ReleaseForBuild(pin) == {r \in gaReleases : r.series = pin.series}
ReleaseForVersion(p, v) == {r \in gaReleases : r.product = p /\ r.version = v}
IsGABuild(b) == ReleaseForBuild(Info[b]) # {}

(* A name that both products shipped means Windows 11 when none is given.    *)
releaseForName(v, product) ==
  LET p == IF product # 0 THEN product ELSE IF ReleaseForVersion(11, v) # {} THEN 11 ELSE 10
  IN  ReleaseForVersion(p, v)

defaultVersion(product) == IF product = 10 THEN "22h2" ELSE "24h2"

(* What a specification resolves to; ok is false for one that is refused.    *)
Resolved(product, version, series, build, latest, pinned, s) ==
  [ok |-> TRUE, product |-> product, version |-> version, series |-> series,
   build |-> build, latest |-> latest, pinned |-> pinned,
   edition |-> s.edition, language |-> s.language]
Refused(s) == [Resolved(0, "any", 0, NoPin, FALSE, FALSE, s) EXCEPT !.ok = FALSE]

(* The product of a series that is off the table is told by its number.      *)
ResolveBuild(s, pin, version) ==
  LET rels == ReleaseForBuild(pin)
      rel == CHOOSE r \in rels : TRUE
      product == IF rels # {} THEN rel.product ELSE IF pin.series >= 22000 THEN 11 ELSE 10
      name == IF rels # {} THEN rel.version ELSE "any"
  IN  IF \/ version = "latest"
         \/ version \notin {"any", name}
         \/ s.product \notin {0, product}
      THEN Refused(s)
      ELSE Resolved(product, name, pin.series, IF pin.qfe # 0 THEN pin ELSE NoPin, FALSE, TRUE, s)

ResolveRelease(s, rels) ==
  IF rels = {} THEN Refused(s)
  ELSE LET rel == CHOOSE r \in rels : TRUE
       IN  Resolved(rel.product, rel.version, rel.series, NoPin, FALSE, FALSE, s)

(* A version that is a build number (here: number) is a pin as well.         *)
Resolve(s) ==
  LET pin == IF s.number # NoPin THEN s.number ELSE s.build
      version == IF s.number # NoPin THEN "any" ELSE s.version
      product == IF s.product = 0 THEN 11 ELSE s.product
  IN  IF s.number # NoPin /\ s.build \notin {NoPin, s.number} THEN Refused(s)
      ELSE IF pin # NoPin THEN ResolveBuild(s, pin, version)
      ELSE IF version = "latest" THEN Resolved(product, "any", 0, NoPin, TRUE, FALSE, s)
      ELSE IF version # "any" THEN ResolveRelease(s, releaseForName(version, s.product))
      ELSE ResolveRelease(s, ReleaseForVersion(product, defaultVersion(product)))

Spec0 == [product |-> 0, version |-> "any", number |-> NoPin, build |-> NoPin,
          edition |-> "professional", language |-> "en-us"]
DefaultSpec == Resolve(Spec0)
IsDefault(r) == r = DefaultSpec

MatchesBuild(r, b) ==
  /\ r.series # 0 => Info[b].series = r.series
  /\ r.build # NoPin => Info[b].qfe = r.build.qfe

(* The file name in the cache. The edition is not part of it.                *)
ISOName(r) ==
  LET tag == IF r.build # NoPin THEN <<"build", r.build.series, r.build.qfe>>
             ELSE IF r.version # "any" THEN <<"version", r.version>>
             ELSE IF r.series # 0 THEN <<"series", r.series>>
             ELSE <<"latest">>
  IN  <<r.product, tag, r.language>>

(* The searches, broadest first; the release that is known to assemble is    *)
(* searched for as well.                                                     *)
gaAnchorSearch == <<11, "24h2">>
SearchQueries(r) ==
  <<<<r.product, "any">>>> \o (IF r.version = "any" THEN <<>> ELSE <<<<r.product, r.version>>>>)
FindQueries(r) ==
  SearchQueries(r) \o (IF r.product = 11 THEN <<gaAnchorSearch>> ELSE <<>>)

(* A title says what kind of update a build is; a feature update is whole.   *)
isDeltaBuild(title) ==
  "feature update" \notin title /\ title \cap {"KB", "cumulative update", "quality update"} # {}

(* The full ARM64 builds that a search lists; when there are none, the       *)
(* deltas.                                                                   *)
arm64FullBuilds(q) ==
  LET arm64 == {b \in Listing[q] : Info[b].arch = "arm64"}
      full == {b \in arm64 : ~isDeltaBuild(Info[b].title)}
  IN  IF full = {} THEN arm64 ELSE full

(* A hit is a build in the list of the i-th search. Hits are merged in the   *)
(* order of the searches, each newest first, and builds of one number are    *)
(* one. Only the first search has to be answered.                            *)
Number(b) == <<Info[b].series, Info[b].qfe>>
Earlier(g, h) == g[1] < h[1] \/ (g[1] = h[1] /\ Info[g[2]].created > Info[h[2]].created)
Hits(queries, answered) ==
  {h \in (DOMAIN queries) \X Builds :
     queries[h[1]] \in answered /\ h[2] \in arm64FullBuilds(queries[h[1]])}
mergeSearches(queries, answered) ==
  LET hits == Hits(queries, answered)
  IN  {h \in hits : \A g \in hits : Number(g[2]) = Number(h[2]) => ~Earlier(g, h)}

(* Off the table there is no complete media, unless the user insists.        *)
FilterGA(r, candidates) == {h \in candidates : r.pinned \/ IsGABuild(h[2])}

(* What is tried for a specification, in the order of Earlier.               *)
Kept(r, answered) ==
  FilterGA(r, {h \in mergeSearches(FindQueries(r), answered) : MatchesBuild(r, h[2])})
=============================================================================
