---------------------------- MODULE MCPrefetch ----------------------------
(* A prompt of three tokens and a prefix of it, for model checking. *)
EXTENDS PlePrefetch

MCPrompts == {[pos |-> 0, toks |-> <<1, 2, 3>>], [pos |-> 0, toks |-> <<1, 2>>]}

=============================================================================
