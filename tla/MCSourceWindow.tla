--------------------------- MODULE MCSourceWindow ---------------------------
(* A small instance of SourceWindow for TLC. *)
EXTENDS SourceWindow

MCSizeOf == <<2, 2>>
MCOneBlock == <<1>>
MCEstimate == [s \in 1..NumSources |-> s]
MCMutable == {1}
=============================================================================
