----------------------------- MODULE MCAppShell -----------------------------
(* An instance of AppShell for TLC: two accounts.                          *)
EXTENDS AppShell

CONSTANTS ann, ben
=============================================================================
