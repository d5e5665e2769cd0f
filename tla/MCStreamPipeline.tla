-------------------------- MODULE MCStreamPipeline --------------------------
\* One request over every kind of reply and every engine in between.
EXTENDS StreamPipeline
=============================================================================
