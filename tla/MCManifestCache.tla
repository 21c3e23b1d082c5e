-------------------------- MODULE MCManifestCache --------------------------
(* One call at a time: what a fill leaves behind is met by the next call, and *)
(* each fill overlaps the invalidations of up to three threads.               *)
EXTENDS ManifestCacheProps
CONSTANTS q1
MCOne   == {q1}
MCCalls == {q1} \X Kinds
MCCachedAnswers == {q1} \X {"corpus", "response"}
=============================================================================
