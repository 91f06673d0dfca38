---------------------------- MODULE MCVaultBuild ----------------------------
(* A small instance of the vault's command line.                           *)
EXTENDS VaultBuild

Url(origin, scheme) == [origin |-> origin, scheme |-> scheme]
A == Url("a", "https")  B == Url("b", "https")
MCRegistry == "base" :> <<A, B>> @@ "ethereum" :> <<A, B>>

Vault == <<"vault", "op", "com">>
Example == <<"wallet", "example", "com">>
Apex == <<"op", "com">>
Raw(rpId, scheme, hostName, chains, overrides) ==
  [rpId |-> rpId, scheme |-> scheme, host |-> hostName, chains |-> chains,
   rpcOverrides |-> overrides, anchorChainId |-> FALSE]
Plain == Raw(Vault, "https", Vault, <<"base">>, <<>>)
MCRawConfigs ==
  {[Plain EXCEPT !.rpId = Apex, !.chains = <<"ethereum", "base">>,
                 !.rpcOverrides = "ethereum" :> <<B, Url("c", "https")>> @@ "base" :> <<>>],
   [Plain EXCEPT !.rpcOverrides = "base" :> <<A>>],
   [Plain EXCEPT !.rpcOverrides = "base" :> <<A, A>>],
   [Plain EXCEPT !.rpcOverrides = "base" :> <<A, Url("d", "http")>>]}

Answer(scheme, rpId, chains) == [scheme |-> scheme, host |-> Vault, rpId |-> rpId, chains |-> chains]
MCAnswers ==
  {Answer("https", <<>>, <<>>), Answer("http", <<>>, <<>>), Answer("https", <<"pop", "com">>, <<>>),
   Answer("https", Vault, <<"bsae">>)}

Tag(tag, ref, usual) == [tag |-> tag, ref |-> ref, usual |-> usual, body |-> Code("none")]
Main == Tag("script", "main.js", TRUE)
Style == Tag("stylesheet", "main.css", TRUE)
Bundle(html) == [html |-> html, assets |-> {"main.js", "main.css"}]
MCBundles ==
  {Bundle(<<Style, Main>>), Bundle(<<Tag("preload", "chunk.js", TRUE), Main>>),
   Bundle(<<Main, Tag("script", "other.js", TRUE)>>), Bundle(<<Main, Tag("stylesheet", "main.css", FALSE)>>),
   Bundle(<<Main, Tag("external", "cdn", TRUE)>>), Bundle(<<Style>>)}

Hosting(file, matches, adds) == [reads |-> file, matches |-> matches, adds |-> adds]
MCHosts ==
  {Hosting("_headers", TRUE, {}), Hosting(".htaccess", TRUE, {"Cross-Origin-Opener-Policy"}), Hosting("nothing", FALSE, {})}
=============================================================================
