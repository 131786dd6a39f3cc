-------------------------- MODULE MCAmqpLifecycle --------------------------
(***************************************************************************)
(* Values of the constants for the runs of AmqpLifecycle.                  *)
(***************************************************************************)
EXTENDS AmqpLifecycle

\* Without inputs, with an upload, and with an input that needs task_config.
MCInputLists == {<<>>, <<"content">>, <<"reference">>}

=============================================================================
