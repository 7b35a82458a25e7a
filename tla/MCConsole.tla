------------------------------ MODULE MCConsole ------------------------------
(***************************************************************************)
(* The console for TLC.  Bound: requests overlap freely until the second   *)
(* run is submitted; from then on only a poll of the one run overlaps with *)
(* a poll of the other, on a console with the workers' principal.          *)
(***************************************************************************)
EXTENDS Console

Overlapping == \A c \in Call : call[c].op # "none"

PollsOfTwoRuns ==
    /\ principal = EndpointPrincipal
    /\ \A c \in Call : call[c].op \in {"observe", "link"} /\ call[c].run # None
    /\ \A c, d \in Call : c # d => call[c].run # call[d].run

MCNext == ConsoleNext /\ (Overlapping /\ run[MaxRuns].at # "none" => PollsOfTwoRuns)'

MCSpec == ConsoleInit /\ [][MCNext]_consoleVars /\ ConsoleFair

=============================================================================
