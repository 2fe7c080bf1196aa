------------------------ MODULE MCConnectorLifecycle ------------------------
(***************************************************************************)
(* The connector's lifecycle for TLC.                                      *)
(***************************************************************************)
EXTENDS ConnectorLifecycle

\* The lives in which no thread of an earlier life is still at work: for the
\* drain thread stop() waits for that, for the flush timer nothing does.
NoStrays == ~stray

=============================================================================
