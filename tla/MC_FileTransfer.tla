-------------------------- MODULE MC_FileTransfer --------------------------
(* Instances of FileTransfer for TLC. *)
EXTENDS FileTransfer

CONSTANTS x1, x2

\* Two chunks, the second one short, and a file that is as long as one chunk.
LongAndShort == x1 :> 3 @@ x2 :> 2
============================================================================
