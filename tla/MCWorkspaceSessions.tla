------------------------ MODULE MCWorkspaceSessions ------------------------
(***************************************************************************)
(* A small instance of the sessions for TLC.                               *)
(***************************************************************************)
EXTENDS WorkspaceSessionsProps, TLC

\* An attach may set the default or not; of the others one kind does.
MCCalls == {<<"attach", TRUE>>, <<"attach", FALSE>>, <<"prepare", TRUE>>, <<"byId", FALSE>>,
            <<"detach", FALSE>>, <<"close", FALSE>>}
RequestSymmetry == Permutations(Requests) \cup Permutations(Sessions) \cup Permutations(Repos)
=============================================================================
