-------------------------- MODULE MCRefreshPipeline --------------------------
(* Small instances of RefreshPipeline for TLC. *)
EXTENDS RefreshPipeline

MCCompute == {"lifecycle", "metrics"}

\* Two generations of the pipeline, a stage run up to three times, and a full
\* refresh in between.
MCPipelines ==
    << {"ingest"}, {"metrics"}, {"metrics", "lifecycle"},
       {"metrics", "ingest", "all"}, {"publish"} >>

\* A stage that may be killed and a full refresh that is scheduled for ever.
MCStageAndFull == << {"ingest"}, {"all"} >>
=============================================================================
