----------------------------- MODULE MCProgramRuns -----------------------------
(***************************************************************************)
(* The instance of ProgramRuns that TLC checks: up to three user threads,  *)
(* and arguments of every kind main tells apart.                           *)
(***************************************************************************)
EXTENDS ProgramRunsProperties

AllArguments ==
    {<<>>, <<1>>, <<Junk, 1>>, <<3, Junk>>, <<0, 1>>, <<4, 1>>, <<2, 0>>, <<-1, 1>>,
     <<1, -1>>, <<1, 8>>, <<3, 2>>}

EveryCall == Checked \cup Arrays \cup {"token", "privilege", "thread"}
=============================================================================
