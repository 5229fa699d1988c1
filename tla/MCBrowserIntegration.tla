------------------------- MODULE MCBrowserIntegration -------------------------
(* BrowserIntegration for TLC. *)
EXTENDS BrowserIntegration
=============================================================================
