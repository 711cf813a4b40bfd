----------------------------- MODULE MCSubagents -----------------------------
(***************************************************************************)
(* Subagents on small instances: a document of three activities, room for  *)
(* three, and three calls that spawn, message and wait for agents.         *)
(***************************************************************************)
EXTENDS Subagents

CONSTANTS spawn, send, wait, old1, old2, old3, a, b, x

\* A spawn learns its agent when it ends; a wait names the agents it waits
\* for and, when it ends, those that have finished.
WaitFinished ==
  [c \in {spawn, send, wait} |->
     CASE c = spawn -> << << >>, <<a>> >>
       [] c = send  -> << <<b>>, <<b>> >>
       [] c = wait  -> << <<b, x>>, <<x, b>> >>]

OldDocument ==
  <<Activity(old1, 1, <<x>>), Activity(old2, 1, <<b, x>>), Activity(old3, 1, <<b>>)>>
=============================================================================
