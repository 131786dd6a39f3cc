-------------------------- MODULE MCRestLifecycle --------------------------
(***************************************************************************)
(* Values of the constants for the runs of RestLifecycle.                  *)
(***************************************************************************)
EXTENDS RestInvariant

\* No input, one input of each kind, and an upload after another input.
MCInputLists == {<<>>, <<"content">>, <<"reference", "content">>}

\* For the runs with more than one task.
MCFewInputLists == {<<>>, <<"content">>}

=============================================================================
