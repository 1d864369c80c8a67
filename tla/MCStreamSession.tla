-------------------------- MODULE MCStreamSession --------------------------
(* StreamSession for TLC: one data frame per file, or an empty file.        *)
EXTENDS StreamSession

OneChunk == [e \in Ends |-> 1]

EmptyFromDaemon == [e \in Ends |-> IF e = "client" THEN 0 ELSE 1]

EmptyFromPhone == [e \in Ends |-> IF e = "server" THEN 0 ELSE 1]
============================================================================
