------------------------------- MODULE MCPipe -------------------------------
(* Instance of Pipe under several loads: one process on each side, two       *)
(* readers, two writers.                                                     *)
EXTENDS Pipe

CONSTANTS reader, reader2, writer, writer2

MCAlone == [procs |-> {reader, writer}, len |-> 2, bytes |-> 4]
MCReaders == [procs |-> {reader, reader2, writer}, len |-> 1, bytes |-> 2]
MCLoads == {MCAlone, MCReaders}
MCWriterLoads == {[procs |-> {reader, writer, writer2}, len |-> 1, bytes |-> 2]}
=============================================================================
