---------------------------- MODULE MCBrowserTabs ----------------------------
(* Four tabs and the home page, up to six posted tasks when an input comes. *)
EXTENDS BrowserTabs
=============================================================================
