----------------------------- MODULE VaultPage ------------------------------
(***************************************************************************)
(* From a configuration and a bundle to the one page of a vault and its    *)
(* policy (packages/vault/src: config.ts, build.ts, headers.ts).           *)
(*                                                                         *)
(* A host name is the sequence of its labels.  An endpoint is its origin   *)
(* and a path.  A page is a sequence of tags; the body of an inline one is *)
(* its own hash.                                                           *)
(***************************************************************************)
EXTENDS Integers, Sequences, SequencesExt

CONSTANTS
  Registry,    \* the default endpoints of each chain of the registry
  Placeholder, \* the RP-ID of the example
  Localhost,   \* the host names that may go without https
  Thrown       \* stands for a result where the code throws

(* endsWith("." + rpId): whole labels, never a part of one.                *)
IsRegistrableSuffix(rpId, host) == IsSuffix(rpId, host)

(* parseVaultConfig: an override that is no list of endpoints is left out. *)
ParseVaultConfig(raw) ==
  IF /\ ~raw.anchorChainId
     /\ raw.rpId # <<>> /\ raw.rpId # Placeholder
     /\ raw.scheme = "https" \/ raw.host \in Localhost
     /\ IsRegistrableSuffix(raw.rpId, raw.host)
     /\ raw.chains # <<>> /\ Range(raw.chains) \subseteq DOMAIN Registry
  THEN [rpId |-> raw.rpId, host |-> raw.host, chains |-> raw.chains,
        rpcOverrides |-> [c \in {d \in DOMAIN raw.rpcOverrides : raw.rpcOverrides[d] # <<>>} |-> raw.rpcOverrides[c]]]
  ELSE Thrown

ResolveVaultRpcs(config) ==
  [c \in Range(config.chains) |->
     IF c \in DOMAIN config.rpcOverrides THEN config.rpcOverrides[c] ELSE Registry[c]]

(* At least two endpoints a chain: they are counted, not compared.         *)
AssertRpcRedundancy(resolved) == \A c \in DOMAIN resolved : Len(resolved[c]) >= 2

(* What is baked into the page.                                            *)
BakedAppConfig(config) ==
  [rpId |-> config.rpId, rpcUrls |-> ResolveVaultRpcs(config), recoveryChain |-> Head(config.chains)]

Endpoints(resolved) == UNION {Range(resolved[c]) : c \in DOMAIN resolved}

-----------------------------------------------------------------------------
(* The page.  A tag loads a script or a style sheet by reference, hints at *)
(* one, links elsewhere, or holds code itself; a reference written in      *)
(* another way than the bundler's is not recognised.                       *)

Code(file) == [code |-> file]
Inline(tag, body) == [tag |-> tag, ref |-> "none", usual |-> TRUE, body |-> body]
IsReference(t) == t.tag \in {"script", "stylesheet"} /\ t.ref # "none"
Replaced(t) == IsReference(t) /\ t.usual

InlineTags(html) == [i \in DOMAIN html |-> IF Replaced(html[i]) THEN Inline(html[i].tag, Code(html[i].ref)) ELSE html[i]]

(* takeAsset throws on a reference the bundler emitted no file for.        *)
AllTaken(html, assets) == \A i \in DOMAIN html : Replaced(html[i]) => html[i].ref \in assets

Markers(html) == {i \in DOMAIN html : html[i].tag = "script" /\ html[i].ref = "none"}

(* The config goes before the first module script.                         *)
BakeBefore(html, config) ==
  LET marker == CHOOSE i \in Markers(html) : \A k \in Markers(html) : i <= k
  IN InsertAt(html, marker, Inline("script", BakedAppConfig(config)))

Bodies(html) == {html[i].body : i \in {k \in DOMAIN html : html[k].tag \in {"script", "stylesheet"} /\ html[k].ref = "none"}}

(* The policy: the inline code by its hashes, the endpoints by origin.     *)
BuildCsp(hashes, urls) == [scripts |-> hashes, connect |-> {u.origin : u \in urls}]

(* inlinePage: inline, bake, and hash what came of it.                     *)
InlinePage(html, assets, config) ==
  LET inlined == InlineTags(html)
      resolved == ResolveVaultRpcs(config)
  IN IF \/ ~AllTaken(html, assets) \/ Markers(inlined) = {}
        \/ ~AssertRpcRedundancy(resolved) \/ \E u \in Endpoints(resolved) : u.scheme = "bad"
     THEN Thrown
     ELSE LET page == BakeBefore(inlined, config)
          IN [html |-> page, csp |-> BuildCsp(Bodies(page), Endpoints(resolved)),
              plain |-> {u \in Endpoints(resolved) : u.scheme = "http"}]

(* What must hold of a page before it is written: no code by reference, no *)
(* hint at code that was not inlined, nothing from elsewhere, a pinned     *)
(* policy, and endpoints of https, or of the local machine.                *)
AssertVaultInvariants(built) ==
  /\ \A i \in DOMAIN built.html :
       ~IsReference(built.html[i]) /\ built.html[i].tag \notin {"preload", "external"}
  /\ built.csp.scripts # {} /\ built.csp.connect # {} /\ built.plain = {}

-----------------------------------------------------------------------------
(* The headers a host sends for a route if it reads the generated file:    *)
(* those of every route, and two more for the recovery route.              *)
SecurityHeaders == {"Strict-Transport-Security", "Origin-Agent-Cluster", "Referrer-Policy", "X-Content-Type-Options", "X-Frame-Options"}
RecoverySecurityHeaders == SecurityHeaders \cup {"Cross-Origin-Opener-Policy", "Cross-Origin-Embedder-Policy"}
=============================================================================
