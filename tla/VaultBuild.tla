----------------------------- MODULE VaultBuild -----------------------------
(***************************************************************************)
(* The command line of a vault (packages/vault/src): init writes the       *)
(* configuration, build makes the page and replaces the output directory,  *)
(* dev serves that directory while builds run, and check asks a deployed   *)
(* vault for its headers.  A build may be killed between any two steps.    *)
(*                                                                         *)
(* The operator edits the configuration and uploads the output directory,  *)
(* as a whole, whenever they like.                                         *)
(***************************************************************************)
EXTENDS VaultPage, FiniteSets

CONSTANTS
  RawConfigs, \* what the configuration file may hold
  Answers,    \* what an operator answers to init
  Bundles,    \* what the bundler may emit: a page and its assets
  Hosts,      \* ways of hosting: what a host reads, and what it adds
  MaxBuilds,  \* bound on the builds
  Absent      \* stands for a file that is not there

Files == {"index.html", "_headers", "csp-headers.txt", ".htaccess"}

ASSUME VaultAssumption ==
  /\ MaxBuilds \in Nat /\ Absent \notin RawConfigs /\ Absent \notin 0 .. MaxBuilds
  /\ \A h \in Hosts : h.reads \in Files \cup {"nothing"}

(* The bundler emits a list of tags, and knows no configuration: that is   *)
(* baked in afterwards.                                                    *)
ASSUME BundleAssumption ==
  \A b \in Bundles :
    /\ b.html \in Seq(Range(b.html))
    /\ \A i \in DOMAIN b.html : /\ b.html[i].tag \in {"script", "stylesheet", "preload", "external"}
                                /\ "rpcUrls" \notin DOMAIN b.html[i].body

(* Endpoints are https, http of the local machine or of another one, or    *)
(* are no such URL.                                                        *)
Known(urls) == \A u \in Range(urls) : u.scheme \in {"https", "local", "http", "bad"}
ASSUME EndpointAssumption ==
  /\ \A c \in DOMAIN Registry : Known(Registry[c])
  /\ \A raw \in RawConfigs : \A c \in DOMAIN raw.rpcOverrides : Known(raw.rpcOverrides[c])

VARIABLES
  config,   \* the configuration file, as it is on disk
  init,     \* whether init found no file and asks its questions
  builds,   \* how many builds were started
  build,    \* the running build: where it is and what it read
  made,     \* the page and the policy each build made
  out,      \* the output directory: the build a file is of, if it is there
  request,  \* a request to the dev server
  host,     \* the way the vault is hosted
  deployed, \* what was uploaded last
  check     \* a run of check

buildVars == <<builds, build, made>>
hostVars == <<host, deployed>>
vars == <<config, init, buildVars, out, request, hostVars, check>>

EmptyDir == [f \in Files |-> Absent]
NoPage == [html |-> <<>>, csp |-> BuildCsp({}, {})]
NoBuild == [at |-> "none", config |-> Absent, bundle |-> Absent]
NoRequest == [at |-> "none", html |-> Absent, csp |-> Absent]
NoCheck == [at |-> "none", signingOk |-> FALSE, code |-> 0]

Init ==
  /\ config \in RawConfigs \cup {Absent}
  /\ init = "none" /\ builds = 0 /\ build = NoBuild
  /\ made = [n \in 1 .. MaxBuilds |-> NoPage]
  /\ out = EmptyDir /\ deployed = EmptyDir /\ request = NoRequest /\ check = NoCheck
  /\ host \in Hosts

-----------------------------------------------------------------------------
(* The configuration.                                                      *)

Edit ==
  /\ config' \in (RawConfigs \cup {Absent}) \ {config}
  /\ UNCHANGED <<init, buildVars, out, request, hostVars, check>>

(* runInit refuses if the file is there, and asks if it is not.            *)
InitAsks ==
  /\ init = "none" /\ config = Absent
  /\ init' = "asking"
  /\ UNCHANGED <<config, buildVars, out, request, hostVars, check>>

(* buildInitConfig: the RP-ID is the host unless one is given, the chain   *)
(* is base unless some are.  What does not parse is not written.           *)
BuildInitConfig(a) ==
  [rpId |-> IF a.rpId = <<>> THEN a.host ELSE a.rpId, scheme |-> a.scheme, host |-> a.host,
   chains |-> IF a.chains = <<>> THEN <<"base">> ELSE a.chains,
   rpcOverrides |-> <<>>, anchorChainId |-> FALSE]

InitWrites ==
  /\ init = "asking"
  /\ \E a \in Answers :
       config' = IF ParseVaultConfig(BuildInitConfig(a)) = Thrown THEN config ELSE BuildInitConfig(a)
  /\ init' = "none"
  /\ UNCHANGED <<buildVars, out, request, hostVars, check>>

-----------------------------------------------------------------------------
(* buildVault.                                                             *)

BuildGoes(at) == build' = [build EXCEPT !.at = at]
OutsideBuild == UNCHANGED <<config, init, request, hostVars, check>>

ReadConfig ==
  /\ build.at = "none" /\ builds < MaxBuilds
  /\ builds' = builds + 1
  /\ build' = IF config = Absent \/ ParseVaultConfig(config) = Thrown THEN NoBuild
              ELSE [NoBuild EXCEPT !.at = "bundle", !.config = ParseVaultConfig(config)]
  /\ UNCHANGED <<made, out>> /\ OutsideBuild

(* The staging directory is made anew: what was left in it is not read.    *)
ViteBuild ==
  /\ build.at = "bundle"
  /\ \/ \E b \in Bundles : build' = [build EXCEPT !.at = "inline", !.bundle = b]
     \/ build' = NoBuild
  /\ UNCHANGED <<builds, made, out>> /\ OutsideBuild

(* Mutant: the configuration is read again for the policy. *)
InlineRead ==
  LET built == InlinePage(build.bundle.html, build.bundle.assets, build.config)
      fresh == IF config = Absent THEN Thrown ELSE ParseVaultConfig(config)
  IN IF built = Thrown \/ fresh = Thrown THEN built
     ELSE [built EXCEPT !.csp.connect = {u.origin : u \in Endpoints(ResolveVaultRpcs(fresh))}]

Inlined == InlinePage(build.bundle.html, build.bundle.assets, build.config)

(* A page that violates an invariant is thrown away before the output      *)
(* directory is touched.                                                   *)
InlineAndAssert ==
  /\ build.at = "inline"
  /\ LET built == Inlined
     IN IF built # Thrown /\ AssertVaultInvariants(built)
        THEN /\ made' = [made EXCEPT ![builds] = [html |-> built.html, csp |-> built.csp]]
             /\ build' = [NoBuild EXCEPT !.at = "rm"]
        ELSE build' = NoBuild /\ UNCHANGED made
  /\ UNCHANGED <<builds, out>> /\ OutsideBuild

(* Mutant: the new files are written over the old ones. *)
WriteOver ==
  /\ build.at = "rm"
  /\ BuildGoes("index.html")
  /\ UNCHANGED <<builds, made, out>> /\ OutsideBuild

(* The old output goes, file by file, in any order.                        *)
RmOut ==
  /\ build.at = "rm"
  /\ IF out = EmptyDir THEN UNCHANGED out /\ BuildGoes("index.html")
     ELSE /\ \E f \in {g \in Files : out[g] # Absent} : out' = [out EXCEPT ![f] = Absent]
          /\ UNCHANGED build
  /\ UNCHANGED <<builds, made>> /\ OutsideBuild

After ==
  [f \in Files |-> CASE f = "index.html" -> "_headers"
                     [] f = "_headers" -> "csp-headers.txt"
                     [] f = "csp-headers.txt" -> ".htaccess"
                     [] f = ".htaccess" -> "none"]

(* writeFile: the four files, one after the other.                         *)
WriteFile ==
  /\ build.at \in Files
  /\ out' = [out EXCEPT ![build.at] = builds]
  /\ build' = IF After[build.at] = "none" THEN NoBuild ELSE [build EXCEPT !.at = After[build.at]]
  /\ UNCHANGED <<builds, made>> /\ OutsideBuild

Kill ==
  /\ build.at # "none" /\ build' = NoBuild
  /\ UNCHANGED <<builds, made, out>> /\ OutsideBuild

BuildStep == ViteBuild \/ InlineAndAssert \/ RmOut \/ WriteFile

-----------------------------------------------------------------------------
(* The dev server reads the page and the policy from disk for a request.   *)
OutsideDev == UNCHANGED <<config, init, buildVars, out, hostVars, check>>

ReadPage ==
  /\ request.at = "none"
  /\ request' = IF out["index.html"] = Absent THEN NoRequest
                ELSE [NoRequest EXCEPT !.at = "page", !.html = out["index.html"]]
  /\ OutsideDev

(* A file that is not there is answered with 503, and no page.             *)
ReadCsp ==
  /\ request.at = "page"
  /\ request' = IF out["csp-headers.txt"] = Absent THEN NoRequest
                ELSE [request EXCEPT !.at = "answered", !.csp = out["csp-headers.txt"]]
  /\ OutsideDev

Reload ==
  /\ request.at = "answered" /\ request' = NoRequest
  /\ OutsideDev

-----------------------------------------------------------------------------
(* Hosting.  A host reads one of the generated files, or none, and may     *)
(* add a header of its own; it may not take the recovery rule to match     *)
(* the path without its slash.                                             *)

Upload ==
  /\ deployed' = out /\ deployed # out
  /\ UNCHANGED <<config, init, buildVars, out, request, host, check>>

ServedCsp == IF host.reads = "nothing" THEN Absent ELSE deployed[host.reads]

ServedHeaders(route) ==
  (IF ServedCsp = Absent THEN {}
   ELSE IF route = "recovery" /\ host.matches THEN RecoverySecurityHeaders ELSE SecurityHeaders) \cup host.adds

(* evaluateDeployedHeaders *)
HeadersOk(route) ==
  /\ ServedCsp # Absent
  /\ Cardinality(made[ServedCsp].csp.connect) > 1
  /\ IF route = "signing" THEN "Cross-Origin-Opener-Policy" \notin ServedHeaders(route)
     ELSE {"Cross-Origin-Opener-Policy", "Cross-Origin-Embedder-Policy"} \subseteq ServedHeaders(route)
  /\ SecurityHeaders \subseteq ServedHeaders(route)

(* runCheck fetches one route after the other; a host may be out of reach. *)
CheckSigning ==
  /\ check.at = "none"
  /\ \E reached \in BOOLEAN :
       check' = [at |-> "recovery", signingOk |-> reached /\ HeadersOk("signing"), code |-> 0]
  /\ UNCHANGED <<config, init, buildVars, out, request, hostVars>>

(* Mutant: what the first half found is forgotten. *)
LastHalf(ok) == IF ok THEN 0 ELSE 1

BothHalves(ok) == IF check.signingOk /\ ok THEN 0 ELSE 1

CheckRecovery ==
  /\ check.at = "recovery"
  /\ \E reached \in BOOLEAN :
       check' = [NoCheck EXCEPT !.code = BothHalves(reached /\ HeadersOk("recovery"))]
  /\ UNCHANGED <<config, init, buildVars, out, request, hostVars>>

Next ==
  \/ Edit \/ InitAsks \/ InitWrites
  \/ ReadConfig \/ BuildStep \/ Kill
  \/ ReadPage \/ ReadCsp \/ Reload
  \/ Upload \/ CheckSigning \/ CheckRecovery

Spec == Init /\ [][Next]_vars

-----------------------------------------------------------------------------
(***************************************************************************)
(* What an operator may rely on: what is written, served and uploaded is   *)
(* the work of one build, a page runs under the policy that goes with it,  *)
(* and a check that passes is true of what users get.                      *)
(***************************************************************************)

Steps == {"none", "bundle", "inline", "rm"} \cup Files

Before ==
  [f \in Files |-> CASE f = "index.html" -> {}
                     [] f = "_headers" -> {"index.html"}
                     [] f = "csp-headers.txt" -> {"index.html", "_headers"}
                     [] f = ".htaccess" -> Files \ {".htaccess"}]

(* Type invariant.  While a build writes, the files it has written are     *)
(* there, and no others.                                                  *)
VaultTypeOK ==
  /\ init \in {"none", "asking"} /\ builds \in 0 .. MaxBuilds /\ build.at \in Steps
  /\ \A f \in Files : {out[f], deployed[f]} \subseteq {Absent} \cup {n \in 1 .. builds : made[n] # NoPage}
  /\ build.at \in Files => {f \in Files : out[f] # Absent} = Before[build.at]
  /\ request.at \in {"none", "page", "answered"} /\ host \in Hosts
  /\ check.at \in {"none", "recovery"} /\ check.code \in {0, 1}

(* Whatever a killed build leaves behind, the files of the output          *)
(* directory are of one build: no page lies beside the policy of another.  *)
OfOneBuild(dir) == \A f, g \in Files : dir[f] # Absent /\ dir[g] # Absent => dir[f] = dir[g]
OutputIsOfOneBuild == OfOneBuild(out) /\ OfOneBuild(deployed)

(* A page that will be written runs under its policy: all its code is      *)
(* inline and hashed, the baked configuration included, no reference       *)
(* is left for the policy to block, and every endpoint its configuration   *)
(* names is one its policy lets it reach, over https unless local: even if *)
(* the operator edits the configuration while it is built.                 *)
PageRuns(built) ==
  LET baked == {b \in Bodies(built.html) : "rpcUrls" \in DOMAIN b}
  IN /\ \A i \in DOMAIN built.html : built.html[i].tag \in {"script", "stylesheet"} /\ built.html[i].ref = "none"
     /\ Bodies(built.html) \subseteq built.csp.scripts
     /\ Cardinality(baked) = 1
     /\ \A b \in baked : \A u \in Endpoints(b.rpcUrls) :
          u.origin \in built.csp.connect /\ (u.scheme = "https" \/ u.scheme = "local")

ShippedPageRuns == build.at = "rm" => PageRuns(made[builds])

(* The dev server answers with a page and a policy of the same build, or,  *)
(* when a build ran in between, with the policy of a later one: never with *)
(* a policy that was replaced before the page was there.                   *)
PolicyNotOlderThanPage == request.at = "answered" => request.csp >= request.html

(* What builds, kills, requests and uploads keep, in any order.            *)
VaultInv ==
  /\ VaultTypeOK
  /\ OutputIsOfOneBuild
  /\ PolicyNotOlderThanPage

(* A check that passes is true of the deployment it ends on, though its    *)
(* first half may have asked an earlier one: both routes have the headers  *)
(* they need and not those that break them, and the page that is served,   *)
(* if one is, runs under the policy it is served with.                     *)
CheckedMeansProtected ==
  [][check.at = "recovery" /\ check'.at = "none" /\ check'.code = 0 =>
       /\ HeadersOk("signing") /\ HeadersOk("recovery")
       /\ deployed["index.html"] # Absent => Bodies(made[deployed["index.html"]].html) \subseteq made[ServedCsp].csp.scripts]_vars
=============================================================================
