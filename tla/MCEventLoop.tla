---------------------------- MODULE MCEventLoop ----------------------------
(* EventLoop for TLC: what a connection of the server side has, a reader    *)
(* and a writer with priority, another event of the reader's source, and a  *)
(* timer.                                                                   *)
EXTENDS EventLoop

CONSTANTS reader, writer, closer, timer, forRead, forWrite

MCSource ==
  [e \in Event |-> CASE e = timer -> NoSource
                    [] e = writer -> forWrite
                    [] OTHER -> forRead]
MCPriority == [e \in Event |-> IF e \in {reader, writer} THEN 1 ELSE 0]

=============================================================================
