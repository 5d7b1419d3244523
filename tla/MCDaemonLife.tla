---------------------------- MODULE MCDaemonLife ----------------------------
(* TLC instances of DaemonLife. *)
EXTENDS DaemonLife, TLC

CONSTANTS c1, c2, v1, v2

\* One terminal keeps proxies and edits the configuration with an old build; the other works with a
\* new one, which replaces daemons, and stops proxies and daemons.
MCMenu == (c1 :> {<<"start", v1>>, <<"edge", v1>>}) @@
          (c2 :> {<<"work", v2>>, <<"stop", v1>>, <<"shutdown", v1>>})

=============================================================================
