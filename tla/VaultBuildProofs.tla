-------------------------- MODULE VaultBuildProofs --------------------------
(***************************************************************************)
(* What is proved of the command line of a vault, for any configurations,  *)
(* bundles, hosts and number of builds, killed at any point: the files     *)
(* that are written, served and uploaded are of one build, the page of a   *)
(* build runs under its own policy, and a check that passes is true.       *)
(***************************************************************************)
EXTENDS VaultBuild, FiniteSetTheorems, WellFoundedInduction, TLAPS

-----------------------------------------------------------------------------
(* The inductive invariant. *)

(* What a build may have read.                                             *)
Readable == RawConfigs \cup {BuildInitConfig(a) : a \in Answers}

(* What the policy of a page must know: the code it holds.                 *)
Hashed(page) == Bodies(page.html) \subseteq page.csp.scripts

(* The running build holds a configuration that parsed, then a bundle,     *)
(* then a finished page; from then on it is the last one that was started. *)
BuildHolds ==
  /\ DOMAIN build = {"at", "config", "bundle"}
  /\ build.at \in {"bundle", "inline"} => \E raw \in Readable : /\ ParseVaultConfig(raw) # Thrown
                                                                /\ build.config = ParseVaultConfig(raw)
  /\ build.at = "inline" => build.bundle \in Bundles
  /\ build.at # "none" => builds \in 1 .. MaxBuilds
  /\ build.at \in {"rm"} \cup Files => made[builds] # NoPage
  /\ build.at = "rm" => PageRuns(made[builds])

(* While a build writes, what is there is its own.                         *)
OutHolds ==
  /\ DOMAIN out = Files /\ DOMAIN deployed = Files
  /\ build.at \in Files => \A f \in Files : out[f] \in {Absent, builds}

(* What a request has read of the page is not newer than any file.         *)
RequestHolds ==
  /\ DOMAIN request = {"at", "html", "csp"}
  /\ request.at # "none" => request.html \in 1 .. builds
  /\ request.at = "answered" => request.csp \in 1 .. builds
  /\ request.at = "page" => \A f \in Files : out[f] # Absent => out[f] >= request.html

(* What the first half of a check found of the host remains so.            *)
CheckHolds == check.signingOk => "Cross-Origin-Opener-Policy" \notin host.adds

IVault ==
  /\ VaultInv
  /\ config \in Readable \cup {Absent}
  /\ DOMAIN made = 1 .. MaxBuilds /\ \A n \in 1 .. MaxBuilds : Hashed(made[n])
  /\ BuildHolds /\ OutHolds /\ RequestHolds /\ CheckHolds

-----------------------------------------------------------------------------
(* Lemmas about the page. *)

LEMMA Smallest ==
  ASSUME NEW T, T \subseteq Nat, T # {}
  PROVE  \E x \in T : \A y \in T : x <= y
<1> DEFINE R == {ss \in Nat \X Nat : ss[1] < ss[2]}
<1>1. IsWellFoundedOn(R, Nat)
  BY NatLessThanWellFounded DEF OpToRel
<1>2. PICK x \in T : \A y \in T : ~(<<y, x>> \in R)
  <2> HIDE DEF R
  <2> QED
    BY <1>1, WFMin
<1>3. \A y \in T : ~(y < x)
  BY <1>2
<1> QED
  BY <1>2, <1>3

LEMMA InlineTagsIsList ==
  ASSUME NEW html, html \in Seq(Range(html))
  PROVE  /\ Len(InlineTags(html)) = Len(html)
         /\ InlineTags(html) \in Seq(Range(InlineTags(html)))
         /\ Len(html) \in Nat
         /\ \A i \in 1 .. Len(html) :
              InlineTags(html)[i] = IF Replaced(html[i]) THEN Inline(html[i].tag, Code(html[i].ref)) ELSE html[i]
<1> DEFINE n == Len(html)
           t == InlineTags(html)
<1>1. n \in Nat /\ DOMAIN html = 1 .. n
  OBVIOUS
<1>2. t = [i \in 1 .. n |-> IF Replaced(html[i]) THEN Inline(html[i].tag, Code(html[i].ref)) ELSE html[i]]
  BY <1>1 DEF InlineTags
<1>3. \A i \in 1 .. n : t[i] \in Range(t)
  <2>1. DOMAIN t = 1 .. n
    BY <1>2
  <2> HIDE DEF t, n
  <2> QED
    BY <2>1 DEF Range
<1>4. t \in [1 .. n -> Range(t)]
  <2>1. DOMAIN t = 1 .. n
    BY <1>2
  <2>2. t = [i \in 1 .. n |-> t[i]]
    BY <1>2
  <2> HIDE DEF t, n
  <2> QED
    BY <2>1, <2>2, <1>3
<1>5. t \in Seq(Range(t)) /\ Len(t) = n
  <2> HIDE DEF t, n
  <2> QED
    BY <1>1, <1>4
<1> QED
  BY <1>1, <1>2, <1>5

(* The page is the inlined tags with the configuration among them.         *)
LEMMA BakedTags ==
  ASSUME NEW html, html \in Seq(Range(html)), Markers(html) # {}, NEW cfg
  PROVE  LET page == BakeBefore(html, cfg)
             baked == Inline("script", BakedAppConfig(cfg))
         IN /\ \A i \in DOMAIN page : page[i] = baked \/ \E k \in 1 .. Len(html) : page[i] = html[k]
            /\ \E i \in DOMAIN page : page[i] = baked
<1> DEFINE baked == Inline("script", BakedAppConfig(cfg))
           n == Len(html)
           marker == CHOOSE i \in Markers(html) : \A k \in Markers(html) : i <= k
<1>1. n \in Nat /\ DOMAIN html = 1 .. n
  OBVIOUS
<1>2. Markers(html) \subseteq 1 .. n
  BY <1>1 DEF Markers
<1>3. marker \in 1 .. n
  <2>1. \E i \in Markers(html) : \A k \in Markers(html) : i <= k
    BY <1>1, <1>2, Smallest
  <2>2. marker \in Markers(html)
    BY <2>1
  <2> QED
    BY <2>2, <1>2
<1> HIDE DEF marker
<1> DEFINE S == Range(html) \cup {baked}
           page == BakeBefore(html, cfg)
<1>4. page = SubSeq(html, 1, marker - 1) \o <<baked>> \o SubSeq(html, marker, n)
  BY DEF BakeBefore, InsertAt, marker
<1> HIDE DEF baked, page
<1>5. html \in Seq(S) /\ <<baked>> \in Seq(S)
  OBVIOUS
<1> HIDE DEF S
<1> DEFINE l == SubSeq(html, 1, marker - 1)
           r == SubSeq(html, marker, n)
<1>6. /\ l \in Seq(S) /\ Len(l) = marker - 1
      /\ \A i \in 1 .. marker - 1 : l[i] = html[i]
  BY <1>1, <1>3, <1>5
<1>7. /\ r \in Seq(S) /\ Len(r) = n - marker + 1
      /\ \A i \in 1 .. n - marker + 1 : r[i] = html[marker + i - 1]
  BY <1>1, <1>3, <1>5
<1> HIDE DEF l, r, n
<1>8. /\ DOMAIN page = 1 .. n + 1
      /\ \A i \in 1 .. n + 1 : page[i] = IF i < marker THEN l[i] ELSE IF i = marker THEN baked ELSE r[i - marker]
  BY <1>1, <1>3, <1>4, <1>5, <1>6, <1>7 DEF l, r
<1>9. \A i \in DOMAIN page : page[i] = baked \/ \E k \in 1 .. n : page[i] = html[k]
  <2> SUFFICES ASSUME NEW i \in 1 .. n + 1, i # marker
               PROVE  \E k \in 1 .. n : page[i] = html[k]
    BY <1>8
  <2>1. CASE i < marker
    BY <2>1, <1>1, <1>3, <1>6, <1>8
  <2>2. CASE i > marker
    <3>1. i - marker \in 1 .. n - marker + 1 /\ i - 1 \in 1 .. n
      BY <2>2, <1>1, <1>3
    <3>2. page[i] = html[marker + (i - marker) - 1]
      <4>1. page[i] = r[i - marker]
        BY <2>2, <1>1, <1>3, <1>8
      <4>2. r[i - marker] = html[marker + (i - marker) - 1]
        BY <3>1, <1>7
      <4> QED
        BY <4>1, <4>2
    <3>3. marker + (i - marker) - 1 = i - 1
      BY <1>1, <1>3
    <3> QED
      BY <3>1, <3>2, <3>3
  <2> QED
    BY <2>1, <2>2, <1>1, <1>3
<1>10. marker \in DOMAIN page /\ page[marker] = baked
  BY <1>1, <1>3, <1>8
<1> QED
  BY <1>9, <1>10 DEF n, page, baked

(* Every endpoint of a configuration that parsed is of a known scheme.     *)
LEMMA EndpointsAreKnown ==
  ASSUME NEW raw \in Readable, ParseVaultConfig(raw) # Thrown,
         NEW u \in Endpoints(ResolveVaultRpcs(ParseVaultConfig(raw)))
  PROVE  u.scheme \in {"https", "local", "http", "bad"}
<1> DEFINE cfg == ParseVaultConfig(raw)
           kept == {d \in DOMAIN raw.rpcOverrides : raw.rpcOverrides[d] # <<>>}
<1>1. /\ cfg.chains = raw.chains /\ Range(raw.chains) \subseteq DOMAIN Registry
      /\ cfg.rpcOverrides = [c \in kept |-> raw.rpcOverrides[c]]
  BY DEF ParseVaultConfig
<1>2. \A c \in DOMAIN raw.rpcOverrides : Known(raw.rpcOverrides[c])
  <2>1. CASE raw \in RawConfigs
    BY <2>1, EndpointAssumption
  <2>2. CASE raw \in {BuildInitConfig(a) : a \in Answers}
    BY <2>2 DEF BuildInitConfig
  <2> QED
    BY <2>1, <2>2 DEF Readable
<1> HIDE DEF cfg, kept
<1>3. PICK c \in Range(cfg.chains) : u \in Range(ResolveVaultRpcs(cfg)[c])
  BY DEF Endpoints, ResolveVaultRpcs, cfg
<1>4. CASE c \in DOMAIN cfg.rpcOverrides
  <2>1. u \in Range(cfg.rpcOverrides[c])
    BY <1>3, <1>4 DEF ResolveVaultRpcs
  <2>2. c \in DOMAIN raw.rpcOverrides /\ cfg.rpcOverrides[c] = raw.rpcOverrides[c]
    BY <1>1, <1>4 DEF kept
  <2> QED
    BY <2>1, <2>2, <1>2 DEF Known
<1>5. CASE c \notin DOMAIN cfg.rpcOverrides
  <2>1. u \in Range(Registry[c])
    BY <1>3, <1>5 DEF ResolveVaultRpcs
  <2>2. c \in DOMAIN Registry
    BY <1>1, <1>3
  <2> QED
    BY <2>1, <2>2, EndpointAssumption DEF Known
<1> QED
  BY <1>4, <1>5

(* A page that passed the assertions runs under the policy made with it.   *)
LEMMA FinishedPageRuns ==
  ASSUME NEW b \in Bundles, NEW raw \in Readable, ParseVaultConfig(raw) # Thrown,
         InlinePage(b.html, b.assets, ParseVaultConfig(raw)) # Thrown,
         AssertVaultInvariants(InlinePage(b.html, b.assets, ParseVaultConfig(raw)))
  PROVE  LET built == InlinePage(b.html, b.assets, ParseVaultConfig(raw))
             page == [html |-> built.html, csp |-> built.csp]
         IN PageRuns(page) /\ Hashed(page) /\ page # NoPage
<1> DEFINE cfg == ParseVaultConfig(raw)
           inlined == InlineTags(b.html)
           html == BakeBefore(inlined, cfg)
           urls == Endpoints(ResolveVaultRpcs(cfg))
           built == InlinePage(b.html, b.assets, cfg)
           page == [html |-> built.html, csp |-> built.csp]
           config0 == BakedAppConfig(cfg)
<1>1. /\ Markers(inlined) # {}
      /\ \A u \in urls : u.scheme # "bad"
      /\ built = [html |-> html, csp |-> BuildCsp(Bodies(html), urls), plain |-> {u \in urls : u.scheme = "http"}]
  BY DEF InlinePage
<1>2. \A u \in urls : u.scheme \in {"https", "local", "http", "bad"}
  BY EndpointsAreKnown
<1> HIDE DEF cfg, urls
<1>3. /\ \A i \in DOMAIN html : ~IsReference(html[i]) /\ html[i].tag \notin {"preload", "external"}
      /\ \A u \in urls : u.scheme # "http"
      /\ Bodies(html) # {}
  BY <1>1 DEF AssertVaultInvariants, BuildCsp, cfg
<1>4. /\ b.html \in Seq(Range(b.html))
      /\ \A i \in DOMAIN b.html : /\ b.html[i].tag \in {"script", "stylesheet", "preload", "external"}
                                  /\ "rpcUrls" \notin DOMAIN b.html[i].body
  BY BundleAssumption
<1>5. /\ Len(inlined) = Len(b.html) /\ inlined \in Seq(Range(inlined))
      /\ \A k \in 1 .. Len(inlined) : /\ inlined[k].tag \in {"script", "stylesheet", "preload", "external"}
                                      /\ "rpcUrls" \notin DOMAIN inlined[k].body
  <2>1. /\ Len(inlined) = Len(b.html) /\ inlined \in Seq(Range(inlined))
        /\ \A i \in 1 .. Len(b.html) :
             inlined[i] = IF Replaced(b.html[i]) THEN Inline(b.html[i].tag, Code(b.html[i].ref)) ELSE b.html[i]
    BY <1>4, InlineTagsIsList
  <2> SUFFICES ASSUME NEW k \in 1 .. Len(b.html)
               PROVE  /\ inlined[k].tag \in {"script", "stylesheet", "preload", "external"}
                      /\ "rpcUrls" \notin DOMAIN inlined[k].body
    BY <2>1
  <2>2. k \in DOMAIN b.html
    BY <1>4
  <2> HIDE DEF inlined
  <2> DEFINE t == b.html[k]
  <2>5. t.tag \in {"script", "stylesheet", "preload", "external"} /\ "rpcUrls" \notin DOMAIN t.body
    BY <2>2, <1>4
  <2>6. inlined[k] = IF Replaced(t) THEN Inline(t.tag, Code(t.ref)) ELSE t
    BY <2>1
  <2> HIDE DEF t
  <2>3. CASE Replaced(t)
    <3>1. inlined[k].tag = t.tag /\ inlined[k].body = [code |-> t.ref]
      BY <2>3, <2>6 DEF Inline, Code
    <3>2. "rpcUrls" \notin DOMAIN [code |-> t.ref]
      OBVIOUS
    <3> QED
      BY <3>1, <3>2, <2>5
  <2>4. CASE ~Replaced(t)
    BY <2>4, <2>5, <2>6
  <2> QED
    BY <2>3, <2>4
<1> HIDE DEF inlined
<1>6. /\ \A i \in DOMAIN html : html[i] = Inline("script", config0) \/ \E k \in 1 .. Len(inlined) : html[i] = inlined[k]
      /\ \E i \in DOMAIN html : html[i] = Inline("script", config0)
  BY <1>1, <1>5, BakedTags
<1>7. "rpcUrls" \in DOMAIN config0 /\ config0.rpcUrls = ResolveVaultRpcs(cfg)
  BY DEF BakedAppConfig
<1> HIDE DEF html, config0
<1>8. \A i \in DOMAIN html : /\ html[i].tag \in {"script", "stylesheet", "preload", "external"}
                             /\ "rpcUrls" \in DOMAIN html[i].body => html[i].body = config0
  BY <1>5, <1>6 DEF Inline
<1>9. \A i \in DOMAIN html : html[i].tag \in {"script", "stylesheet"} /\ html[i].ref = "none"
  <2> SUFFICES ASSUME NEW i \in DOMAIN html
               PROVE  html[i].tag \in {"script", "stylesheet"} /\ html[i].ref = "none"
    OBVIOUS
  <2>1. html[i].tag \in {"script", "stylesheet"}
    <3>1. html[i].tag \notin {"preload", "external"}
      BY <1>3
    <3>2. html[i].tag \in {"script", "stylesheet", "preload", "external"}
      BY <1>8
    <3> QED
      BY <3>1, <3>2
  <2>2. ~IsReference(html[i])
    BY <1>3
  <2> QED
    BY <2>1, <2>2 DEF IsReference
<1>10. {body \in Bodies(html) : "rpcUrls" \in DOMAIN body} = {config0}
  <2>1. config0 \in Bodies(html)
    BY <1>6 DEF Inline, Bodies
  <2> QED
    BY <2>1, <1>7, <1>8 DEF Bodies
<1>11. page.html = html /\ page.csp = [scripts |-> Bodies(html), connect |-> {u.origin : u \in urls}]
  BY <1>1 DEF BuildCsp
<1>12. page # NoPage
  BY <1>11, <1>3 DEF NoPage, BuildCsp
<1>13. Hashed(page)
  BY <1>11 DEF Hashed
<1>14. PageRuns(page)
  <2>1. Cardinality({config0}) = 1
    BY FS_Singleton
  <2>2. \A u \in Endpoints(config0.rpcUrls) : u.origin \in page.csp.connect /\ (u.scheme = "https" \/ u.scheme = "local")
    BY <1>1, <1>2, <1>3, <1>7, <1>11 DEF urls
  <2>3. Bodies(page.html) \subseteq page.csp.scripts /\ page.html = html
    BY <1>11
  <2> HIDE DEF page
  <2> DEFINE baked == {body \in Bodies(page.html) : "rpcUrls" \in DOMAIN body}
  <2>4. baked = {config0}
    BY <2>3, <1>10
  <2> HIDE DEF baked
  <2>5. /\ \A i \in DOMAIN page.html : page.html[i].tag \in {"script", "stylesheet"} /\ page.html[i].ref = "none"
        /\ Cardinality(baked) = 1
        /\ \A body \in baked : \A u \in Endpoints(body.rpcUrls) :
             u.origin \in page.csp.connect /\ (u.scheme = "https" \/ u.scheme = "local")
    BY <2>1, <2>2, <2>3, <2>4, <1>9
  <2> QED
    BY <2>3, <2>5 DEF PageRuns, baked
<1> QED
  BY <1>12, <1>13, <1>14 DEF cfg

-----------------------------------------------------------------------------
(* The invariant, one action at a time. *)

LEMMA VaultStart == Init => IVault
<1> SUFFICES ASSUME Init PROVE IVault
  OBVIOUS
<1> USE DEF Init
<1>1. VaultInv
  <2>1. \A f \in Files : EmptyDir[f] = Absent
    BY DEF EmptyDir
  <2> QED
    BY <2>1, VaultAssumption
       DEF VaultInv, VaultTypeOK, OutputIsOfOneBuild, OfOneBuild, PolicyNotOlderThanPage, Steps, Files,
           NoBuild, NoRequest, NoCheck
<1>2. Hashed(NoPage)
  BY DEF Hashed, NoPage, Bodies
<1>3. BuildHolds /\ OutHolds /\ RequestHolds /\ CheckHolds
  BY DEF BuildHolds, OutHolds, RequestHolds, CheckHolds, NoBuild, NoRequest, NoCheck, EmptyDir, Files
<1>4. DOMAIN made = 1 .. MaxBuilds /\ \A n \in 1 .. MaxBuilds : made[n] = NoPage
  OBVIOUS
<1>5. config \in Readable \cup {Absent}
  BY DEF Readable
<1> QED
  BY <1>1, <1>2, <1>3, <1>4, <1>5 DEF IVault

LEMMA ConfigStep ==
  ASSUME IVault, Edit \/ InitAsks \/ InitWrites
  PROVE  IVault'
<1> USE DEF buildVars, hostVars
<1>1. /\ config' \in Readable \cup {Absent} /\ init' \in {"none", "asking"}
      /\ UNCHANGED <<buildVars, out, request, hostVars, check>>
  BY DEF IVault, VaultInv, VaultTypeOK, Edit, InitAsks, InitWrites, Readable
<1>2. VaultInv'
  BY <1>1 DEF IVault, VaultInv, VaultTypeOK, OutputIsOfOneBuild, OfOneBuild, PolicyNotOlderThanPage
<1>3. BuildHolds' /\ OutHolds' /\ RequestHolds' /\ CheckHolds'
  BY <1>1 DEF IVault, BuildHolds, OutHolds, RequestHolds, CheckHolds
<1> QED
  BY <1>1, <1>2, <1>3 DEF IVault

(* A step of a build leaves requests, deployments and checks alone.        *)
LEMMA BesideBuild ==
  ASSUME IVault, OutsideBuild, DOMAIN made' = 1 .. MaxBuilds, builds' \in 0 .. MaxBuilds, builds <= builds',
         \A n \in 1 .. MaxBuilds : Hashed(made'[n]) /\ (made[n] # NoPage => made'[n] # NoPage),
         BuildHolds', OutHolds', OfOneBuild(out'), build'.at \in Steps,
         build'.at \in Files => {f \in Files : out'[f] # Absent} = Before[build'.at],
         \A f \in Files : out'[f] \in {out[f], Absent, builds'},
         \A f \in Files : out'[f] \in {out[f], Absent} \/ (builds' \in 1 .. MaxBuilds /\ made'[builds'] # NoPage)
  PROVE  IVault'
<1> USE DEF OutsideBuild, hostVars
<1>1. builds \in Nat /\ builds' \in Nat /\ MaxBuilds \in Nat /\ builds <= MaxBuilds
  BY VaultAssumption DEF IVault, VaultInv, VaultTypeOK
<1>2. VaultTypeOK'
  <2>1. \A f \in Files : {out'[f], deployed'[f]} \subseteq {Absent} \cup {n \in 1 .. builds' : made'[n] # NoPage}
    <3> SUFFICES ASSUME NEW f \in Files
                 PROVE  {out'[f], deployed'[f]} \subseteq {Absent} \cup {n \in 1 .. builds' : made'[n] # NoPage}
      OBVIOUS
    <3>1. {n \in 1 .. builds : made[n] # NoPage} \subseteq {n \in 1 .. builds' : made'[n] # NoPage}
      BY <1>1
    <3>2. {out[f], deployed[f]} \subseteq {Absent} \cup {n \in 1 .. builds : made[n] # NoPage}
      BY DEF IVault, VaultInv, VaultTypeOK
    <3>3. out'[f] \in {out[f], Absent} \/ out'[f] \in {n \in 1 .. builds' : made'[n] # NoPage}
      BY <1>1
    <3> QED
      BY <3>1, <3>2, <3>3
  <2> QED
    BY <2>1 DEF IVault, VaultInv, VaultTypeOK
<1>3. OutputIsOfOneBuild'
  BY DEF IVault, VaultInv, OutputIsOfOneBuild, OfOneBuild
<1>4. RequestHolds'
  <2>1. request.at = "page" => \A f \in Files : out'[f] # Absent => out'[f] >= request.html
    <3> SUFFICES ASSUME request.at = "page", NEW f \in Files, out'[f] # Absent
                 PROVE  out'[f] >= request.html
      OBVIOUS
    <3>1. request.html \in 1 .. builds /\ (out[f] # Absent => out[f] >= request.html)
      BY DEF IVault, RequestHolds
    <3> QED
      BY <3>1, <1>1
  <2> QED
    BY <2>1, <1>1 DEF IVault, RequestHolds
<1>5. CheckHolds' /\ PolicyNotOlderThanPage'
  BY DEF IVault, VaultInv, CheckHolds, PolicyNotOlderThanPage
<1> QED
  BY <1>2, <1>3, <1>4, <1>5 DEF IVault, VaultInv

LEMMA OutUntouched ==
  ASSUME IVault, UNCHANGED out, OutsideBuild, build'.at \notin Files
  PROVE  OutHolds' /\ OfOneBuild(out')
BY DEF IVault, VaultInv, OutHolds, OutputIsOfOneBuild, OfOneBuild, OutsideBuild, hostVars

LEMMA ReadConfigStep ==
  ASSUME IVault, ReadConfig
  PROVE  IVault'
<1>1. /\ build.at = "none" /\ builds < MaxBuilds /\ builds' = builds + 1
      /\ UNCHANGED <<made, out>> /\ OutsideBuild
  BY DEF ReadConfig
<1>2. builds \in Nat /\ MaxBuilds \in Nat /\ builds' \in 1 .. MaxBuilds
  BY <1>1, VaultAssumption DEF IVault, VaultInv, VaultTypeOK
<1>3. \/ build' = NoBuild
      \/ /\ config \in Readable /\ ParseVaultConfig(config) # Thrown
         /\ build' = [at |-> "bundle", config |-> ParseVaultConfig(config), bundle |-> Absent]
  BY DEF ReadConfig, IVault, NoBuild
<1>4. BuildHolds' /\ build'.at \in {"none", "bundle"}
  BY <1>2, <1>3 DEF BuildHolds, NoBuild, Files
<1>5. OutHolds' /\ OfOneBuild(out')
  BY <1>1, <1>4, OutUntouched DEF Files
<1> QED
  BY <1>1, <1>2, <1>4, <1>5, BesideBuild DEF IVault, Steps, Files

LEMMA ViteBuildStep ==
  ASSUME IVault, ViteBuild
  PROVE  IVault'
<1>1. build.at = "bundle" /\ UNCHANGED <<builds, made, out>> /\ OutsideBuild
  BY DEF ViteBuild
<1>2. builds \in 0 .. MaxBuilds
  BY DEF IVault, VaultInv, VaultTypeOK
<1>3. BuildHolds' /\ build'.at \in {"none", "inline"}
  <2>1. CASE build' = NoBuild
    BY <2>1 DEF BuildHolds, NoBuild, Files
  <2>2. CASE \E b \in Bundles : build' = [build EXCEPT !.at = "inline", !.bundle = b]
    <3>1. PICK b \in Bundles : build' = [build EXCEPT !.at = "inline", !.bundle = b]
      BY <2>2
    <3>2. BuildHolds
      BY DEF IVault
    <3>3. build'.at = "inline" /\ build'.bundle = b /\ build'.config = build.config /\ DOMAIN build' = DOMAIN build
      BY <3>1, <3>2 DEF BuildHolds
    <3> QED
      BY <3>2, <3>3, <1>1 DEF BuildHolds, Files
  <2> QED
    BY <2>1, <2>2 DEF ViteBuild
<1>4. OutHolds' /\ OfOneBuild(out')
  BY <1>1, <1>3, OutUntouched DEF Files
<1> QED
  BY <1>1, <1>2, <1>3, <1>4, BesideBuild DEF IVault, Steps, Files

LEMMA InlineStep ==
  ASSUME IVault, InlineAndAssert
  PROVE  IVault'
<1> DEFINE built == Inlined
           page == [html |-> built.html, csp |-> built.csp]
<1>1. build.at = "inline" /\ UNCHANGED <<builds, out>> /\ OutsideBuild
  BY DEF InlineAndAssert
<1>2. builds \in 1 .. MaxBuilds /\ builds \in 0 .. MaxBuilds /\ build.bundle \in Bundles
  BY <1>1 DEF IVault, BuildHolds, VaultInv, VaultTypeOK
<1>3. PICK raw \in Readable : ParseVaultConfig(raw) # Thrown /\ build.config = ParseVaultConfig(raw)
  BY <1>1 DEF IVault, BuildHolds
<1>4. CASE built # Thrown /\ AssertVaultInvariants(built)
  <2>1. PageRuns(page) /\ Hashed(page) /\ page # NoPage
    BY <1>2, <1>3, <1>4, FinishedPageRuns DEF Inlined
  <2>2. made' = [made EXCEPT ![builds] = page] /\ build' = [NoBuild EXCEPT !.at = "rm"]
    BY <1>4 DEF InlineAndAssert
  <2> HIDE DEF page
  <2>3. made'[builds] = page /\ DOMAIN made' = 1 .. MaxBuilds
        /\ \A n \in (1 .. MaxBuilds) \ {builds} : made'[n] = made[n]
    BY <2>2, <1>2 DEF IVault
  <2>4. BuildHolds' /\ build'.at = "rm"
    BY <2>1, <2>2, <2>3, <1>1, <1>2 DEF BuildHolds, NoBuild, Files
  <2>5. OutHolds' /\ OfOneBuild(out')
    BY <1>1, <2>4, OutUntouched DEF Files
  <2>6. \A n \in 1 .. MaxBuilds : Hashed(made'[n]) /\ (made[n] # NoPage => made'[n] # NoPage)
    BY <2>1, <2>3 DEF IVault
  <2> QED
    BY <2>3, <2>4, <2>5, <2>6, <1>1, <1>2, BesideBuild DEF IVault, Steps, Files
<1>5. CASE ~(built # Thrown /\ AssertVaultInvariants(built))
  <2>1. build' = NoBuild /\ made' = made
    BY <1>5 DEF InlineAndAssert
  <2>2. BuildHolds' /\ build'.at = "none"
    BY <2>1 DEF BuildHolds, NoBuild, Files
  <2>3. OutHolds' /\ OfOneBuild(out')
    BY <1>1, <2>2, OutUntouched DEF Files
  <2> QED
    BY <2>1, <2>2, <2>3, <1>1, <1>2, BesideBuild DEF IVault, Steps, Files
<1> QED
  BY <1>4, <1>5

LEMMA RmOutStep ==
  ASSUME IVault, RmOut
  PROVE  IVault'
<1>1. build.at = "rm" /\ UNCHANGED <<builds, made>> /\ OutsideBuild
  BY DEF RmOut
<1>2. builds \in 1 .. MaxBuilds /\ builds \in 0 .. MaxBuilds /\ DOMAIN out = Files
  BY <1>1 DEF IVault, BuildHolds, VaultInv, VaultTypeOK, OutHolds
<1>3. CASE out = EmptyDir /\ out' = out /\ BuildGoes("index.html")
  <2>1. build'.at = "index.html" /\ DOMAIN build' = DOMAIN build /\ \A f \in Files : out'[f] = Absent
    BY <1>3 DEF IVault, BuildHolds, BuildGoes, EmptyDir
  <2>2. BuildHolds'
    BY <2>1, <1>1 DEF IVault, BuildHolds, Files
  <2>3. OutHolds' /\ OfOneBuild(out')
    BY <2>1, <1>1, <1>3 DEF IVault, OutHolds, OfOneBuild, OutsideBuild, hostVars
  <2>4. Before[build'.at] = {} /\ {f \in Files : out'[f] # Absent} = {}
    BY <2>1 DEF Before, Files
  <2> QED
    BY <2>1, <2>2, <2>3, <2>4, <1>1, <1>2, <1>3, BesideBuild DEF IVault, Steps, Files
<1>4. CASE /\ UNCHANGED build
           /\ \E f \in Files : out[f] # Absent /\ out' = [out EXCEPT ![f] = Absent]
  <2>1. DOMAIN out' = Files /\ \A f \in Files : out'[f] \in {out[f], Absent}
    BY <1>2, <1>4
  <2>2. build'.at = "rm" /\ BuildHolds'
    BY <1>1, <1>4 DEF IVault, BuildHolds, Files
  <2>3. OutHolds' /\ OfOneBuild(out')
    BY <2>1, <2>2, <1>1 DEF IVault, VaultInv, OutHolds, OutputIsOfOneBuild, OfOneBuild, OutsideBuild, hostVars, Files
  <2> QED
    BY <2>1, <2>2, <2>3, <1>1, <1>2, BesideBuild DEF IVault, Steps, Files
<1> QED
  BY <1>3, <1>4 DEF RmOut

LEMMA WriteFileStep ==
  ASSUME IVault, WriteFile
  PROVE  IVault'
<1>1. build.at \in Files /\ UNCHANGED <<builds, made>> /\ OutsideBuild /\ out' = [out EXCEPT ![build.at] = builds]
      /\ build' = IF After[build.at] = "none" THEN NoBuild ELSE [build EXCEPT !.at = After[build.at]]
  BY DEF WriteFile
<1>2. /\ builds \in 1 .. MaxBuilds /\ builds \in 0 .. MaxBuilds /\ made[builds] # NoPage /\ DOMAIN out = Files
      /\ \A f \in Files : out[f] \in {Absent, builds}
      /\ {f \in Files : out[f] # Absent} = Before[build.at]
  BY <1>1 DEF IVault, BuildHolds, VaultInv, VaultTypeOK, OutHolds, Files
<1>3. builds # Absent
  BY <1>2, VaultAssumption
<1>4. /\ DOMAIN out' = Files
      /\ \A f \in Files : out'[f] = IF f = build.at THEN builds ELSE out[f]
  BY <1>1, <1>2
<1>5. {f \in Files : out'[f] # Absent} = Before[build.at] \cup {build.at}
  BY <1>1, <1>2, <1>3, <1>4
<1>6. \/ build' = NoBuild
      \/ /\ build'.at = After[build.at] /\ After[build.at] \in Files /\ DOMAIN build' = DOMAIN build
         /\ Before[build'.at] = Before[build.at] \cup {build.at}
  <2>1. After[build.at] \in Files \cup {"none"}
    BY <1>1 DEF After, Files
  <2>2. After[build.at] # "none" => Before[After[build.at]] = Before[build.at] \cup {build.at}
    BY <1>1 DEF After, Before, Files
  <2>3. DOMAIN build = {"at", "config", "bundle"}
    BY DEF IVault, BuildHolds
  <2> QED
    BY <2>1, <2>2, <2>3, <1>1
<1>7. BuildHolds' /\ build'.at \in Files \cup {"none"}
  BY <1>1, <1>2, <1>6 DEF IVault, BuildHolds, NoBuild, Files
<1>8. OutHolds' /\ OfOneBuild(out')
  BY <1>1, <1>2, <1>4 DEF IVault, OutHolds, OfOneBuild, OutsideBuild, hostVars
<1>9. build'.at \in Files => {f \in Files : out'[f] # Absent} = Before[build'.at]
  BY <1>5, <1>6 DEF NoBuild, Files
<1> QED
  BY <1>1, <1>2, <1>4, <1>7, <1>8, <1>9, BesideBuild DEF IVault, Steps, Files

LEMMA KillStep ==
  ASSUME IVault, Kill
  PROVE  IVault'
<1>1. build' = NoBuild /\ UNCHANGED <<builds, made, out>> /\ OutsideBuild
  BY DEF Kill
<1>2. builds \in 0 .. MaxBuilds
  BY DEF IVault, VaultInv, VaultTypeOK
<1>3. BuildHolds' /\ build'.at = "none"
  BY <1>1 DEF BuildHolds, NoBuild, Files
<1>4. OutHolds' /\ OfOneBuild(out')
  BY <1>1, <1>3, OutUntouched DEF Files
<1> QED
  BY <1>1, <1>2, <1>3, <1>4, BesideBuild DEF IVault, Steps, Files

(* A request reads the page, then the policy; a build may have gone on in  *)
(* between, and then the policy is a later one.                            *)
LEMMA DevStep ==
  ASSUME IVault, ReadPage \/ ReadCsp \/ Reload
  PROVE  IVault'
<1> USE DEF OutsideDev, buildVars, hostVars
<1>1. OutsideDev
  BY DEF ReadPage, ReadCsp, Reload
<1>2. /\ builds \in Nat /\ DOMAIN request = {"at", "html", "csp"}
      /\ \A f \in Files : out[f] # Absent => out[f] \in 1 .. builds
      /\ \A f \in Files : out[f] # Absent /\ out["index.html"] # Absent => out[f] = out["index.html"]
  BY VaultAssumption
     DEF IVault, VaultInv, VaultTypeOK, RequestHolds, OutputIsOfOneBuild, OfOneBuild, Files
<1>3. RequestHolds' /\ request'.at \in {"none", "page", "answered"} /\ PolicyNotOlderThanPage'
  <2>1. CASE request' = NoRequest
    BY <2>1 DEF NoRequest, RequestHolds, PolicyNotOlderThanPage
  <2>2. CASE out["index.html"] # Absent /\ request' = [NoRequest EXCEPT !.at = "page", !.html = out["index.html"]]
    <3>1. request' = [at |-> "page", html |-> out["index.html"], csp |-> Absent]
      BY <2>2 DEF NoRequest
    <3>2. out["index.html"] \in 1 .. builds /\ \A f \in Files : out[f] # Absent => out[f] >= out["index.html"]
      BY <2>2, <1>2 DEF Files
    <3> QED
      BY <3>1, <3>2, <1>1 DEF RequestHolds, PolicyNotOlderThanPage
  <2>3. CASE /\ request.at = "page" /\ out["csp-headers.txt"] # Absent
             /\ request' = [request EXCEPT !.at = "answered", !.csp = out["csp-headers.txt"]]
    <3>1. /\ request'.at = "answered" /\ request'.html = request.html /\ request'.csp = out["csp-headers.txt"]
          /\ DOMAIN request' = DOMAIN request
      BY <2>3, <1>2
    <3>2. /\ request.html \in 1 .. builds /\ out["csp-headers.txt"] \in 1 .. builds
          /\ out["csp-headers.txt"] >= request.html
      BY <2>3, <1>2 DEF IVault, RequestHolds, Files
    <3> QED
      BY <3>1, <3>2, <1>1, <1>2 DEF RequestHolds, PolicyNotOlderThanPage
  <2> QED
    BY <2>1, <2>2, <2>3 DEF ReadPage, ReadCsp, Reload
<1>4. VaultTypeOK' /\ OutputIsOfOneBuild'
  BY <1>1, <1>3 DEF IVault, VaultInv, VaultTypeOK, OutputIsOfOneBuild, OfOneBuild
<1>5. BuildHolds' /\ OutHolds' /\ CheckHolds'
  BY <1>1 DEF IVault, BuildHolds, OutHolds, CheckHolds
<1> QED
  BY <1>1, <1>3, <1>4, <1>5 DEF IVault, VaultInv

LEMMA UploadStep ==
  ASSUME IVault, Upload
  PROVE  IVault'
<1> USE DEF buildVars
<1>1. deployed' = out /\ UNCHANGED <<config, init, buildVars, out, request, host, check>>
  BY DEF Upload
<1>2. VaultInv'
  BY <1>1 DEF IVault, VaultInv, VaultTypeOK, OutputIsOfOneBuild, OfOneBuild, PolicyNotOlderThanPage
<1>3. BuildHolds' /\ OutHolds' /\ RequestHolds' /\ CheckHolds'
  BY <1>1 DEF IVault, BuildHolds, OutHolds, RequestHolds, CheckHolds
<1> QED
  BY <1>1, <1>2, <1>3 DEF IVault

(* What the first half saw of the headers is the host's own.               *)
LEMMA CheckStep ==
  ASSUME IVault, CheckSigning \/ CheckRecovery
  PROVE  IVault'
<1> USE DEF buildVars, hostVars
<1>1. /\ UNCHANGED <<config, init, buildVars, out, request, hostVars>>
      /\ check'.at \in {"none", "recovery"} /\ check'.code \in {0, 1}
      /\ check'.signingOk => HeadersOk("signing")
  <2>1. CASE CheckSigning
    <3>1. PICK reached \in BOOLEAN :
            check' = [at |-> "recovery", signingOk |-> reached /\ HeadersOk("signing"), code |-> 0]
      BY <2>1 DEF CheckSigning
    <3>2. check'.at = "recovery" /\ check'.code = 0 /\ check'.signingOk = (reached /\ HeadersOk("signing"))
      BY <3>1, Zenon
    <3> QED
      BY <2>1, <3>2 DEF CheckSigning
  <2>2. CASE CheckRecovery
    <3>1. PICK reached \in BOOLEAN : check' = [NoCheck EXCEPT !.code = BothHalves(reached /\ HeadersOk("recovery"))]
      BY <2>2 DEF CheckRecovery
    <3>2. check'.at = "none" /\ check'.code \in {0, 1} /\ check'.signingOk = FALSE
      BY <3>1 DEF NoCheck, BothHalves
    <3> QED
      BY <2>2, <3>2 DEF CheckRecovery
  <2> QED
    BY <2>1, <2>2
<1>2. VaultInv'
  BY <1>1 DEF IVault, VaultInv, VaultTypeOK, OutputIsOfOneBuild, OfOneBuild, PolicyNotOlderThanPage
<1>3. CheckHolds'
  BY <1>1 DEF CheckHolds, HeadersOk, ServedHeaders
<1>4. BuildHolds' /\ OutHolds' /\ RequestHolds'
  BY <1>1 DEF IVault, BuildHolds, OutHolds, RequestHolds
<1> QED
  BY <1>1, <1>2, <1>3, <1>4 DEF IVault

LEMMA VaultStep == IVault /\ [Next]_vars => IVault'
<1> SUFFICES ASSUME IVault, [Next]_vars PROVE IVault'
  OBVIOUS
<1>1. CASE UNCHANGED vars
  <2>1. UNCHANGED <<config, init, builds, build, made, out, request, host, deployed, check>>
    BY <1>1 DEF vars, buildVars, hostVars
  <2>2. VaultInv'
    BY <2>1 DEF IVault, VaultInv, VaultTypeOK, OutputIsOfOneBuild, OfOneBuild, PolicyNotOlderThanPage
  <2>3. BuildHolds' /\ OutHolds' /\ RequestHolds' /\ CheckHolds'
    BY <2>1 DEF IVault, BuildHolds, OutHolds, RequestHolds, CheckHolds
  <2> QED
    BY <2>1, <2>2, <2>3 DEF IVault
<1>2. CASE Next
  BY <1>2, ConfigStep, ReadConfigStep, ViteBuildStep, InlineStep, RmOutStep, WriteFileStep, KillStep,
     DevStep, UploadStep, CheckStep DEF Next, BuildStep
<1> QED
  BY <1>1, <1>2

-----------------------------------------------------------------------------
(* The theorems. *)

LEMMA VaultInvariant == Spec => []IVault
<1> QED
  BY VaultStart, VaultStep, PTL DEF Spec

(* The files that are written and served are of one build, whatever was    *)
(* killed, and the dev server's policy is never older than its page.       *)
THEOREM VaultIsSound == Spec => []VaultInv
<1>1. IVault => VaultInv
  BY DEF IVault
<1> QED
  BY <1>1, VaultInvariant, PTL

(* A page that will be written runs under its policy (inlinePage).         *)
THEOREM ShippedPagesRun == Spec => []ShippedPageRuns
<1>1. IVault => ShippedPageRuns
  BY DEF IVault, BuildHolds, ShippedPageRuns
<1> QED
  BY <1>1, VaultInvariant, PTL

(* A check that passes is true of the deployment it ends on (runCheck).    *)
THEOREM ChecksAreTrue == Spec => CheckedMeansProtected
<1> DEFINE Served(page) == Bodies(made[page].html) \subseteq made[ServedCsp].csp.scripts
           Told == /\ HeadersOk("signing") /\ HeadersOk("recovery")
                   /\ deployed["index.html"] # Absent => Served(deployed["index.html"])
<1>1. IVault /\ [Next]_vars => [check.at = "recovery" /\ check'.at = "none" /\ check'.code = 0 => Told]_vars
  <2> SUFFICES ASSUME IVault, Next, check.at = "recovery", check'.at = "none", check'.code = 0
               PROVE  Told
    OBVIOUS
  <2>1. CASE CheckRecovery
    <3>1. check.signingOk /\ HeadersOk("recovery")
      BY <2>1 DEF CheckRecovery, BothHalves, NoCheck
    <3>2. HeadersOk("signing")
      <4>1. "Cross-Origin-Opener-Policy" \notin host.adds /\ ServedCsp # Absent
        BY <3>1 DEF IVault, CheckHolds, HeadersOk
      <4>2. ServedHeaders("signing") = SecurityHeaders \cup host.adds
        BY <4>1 DEF ServedHeaders
      <4>3. "Cross-Origin-Opener-Policy" \notin SecurityHeaders
        BY DEF SecurityHeaders
      <4> QED
        BY <3>1, <4>1, <4>2, <4>3 DEF HeadersOk
    <3>3. ASSUME deployed["index.html"] # Absent
          PROVE  Served(deployed["index.html"])
      <4>1. host.reads \in Files /\ ServedCsp = deployed[host.reads] /\ ServedCsp # Absent
        BY <3>1, VaultAssumption DEF HeadersOk, ServedCsp, IVault, VaultInv, VaultTypeOK
      <4>2. ServedCsp = deployed["index.html"]
        BY <3>3, <4>1 DEF IVault, VaultInv, OutputIsOfOneBuild, OfOneBuild, Files
      <4>3. builds \in 0 .. MaxBuilds /\ deployed["index.html"] \in 1 .. builds
        BY <3>3 DEF IVault, VaultInv, VaultTypeOK, Files
      <4>4. deployed["index.html"] \in 1 .. MaxBuilds
        BY <4>3, VaultAssumption
      <4> QED
        BY <4>2, <4>4 DEF IVault, Hashed
    <3> QED
      BY <3>1, <3>2, <3>3
  <2>2. CASE ~CheckRecovery
    <3>1. check' = check \/ check'.at = "recovery"
      BY <2>2 DEF Next, Edit, InitAsks, InitWrites, ReadConfig, BuildStep, ViteBuild, InlineAndAssert, RmOut,
                  WriteFile, Kill, OutsideBuild, ReadPage, ReadCsp, Reload, OutsideDev, Upload, CheckSigning
    <3> QED
      BY <3>1
  <2> QED
    BY <2>1, <2>2
<1> QED
  BY <1>1, VaultInvariant, PTL DEF Spec, CheckedMeansProtected
=============================================================================
