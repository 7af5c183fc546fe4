--------------------------- MODULE MCProviderBrowser ---------------------------
(* Two providers, two download folders. *)
EXTENDS ProviderBrowser

CONSTANTS radar, fifty, home, other

MCProviders == {radar, fifty}
MCRoots == {home, other}
==============================================================================
