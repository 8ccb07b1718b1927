----------------------------- MODULE Executors -----------------------------
(* What the executors that hand on batches have in common: the buffered       *)
(* executor, the HTTP executor and the pipelines of the topology executor.    *)
(* They share no state; their modules have no name in common.                 *)
EXTENDS Buffered, Http, TopologyBatch

\* Delivery: a command, or one key of a scatter command, is executed at most once, is
\* answered once, and the answer is true, through replans, retries and partial failures
\* of a topology's waves (topology_scatter.go:34), concurrent flushes of the buffered
\* executor (buffered.go:157), and redirects, deadlines and broken answers of the HTTP
\* executor (http_executor.go:246).
ImplementsDelivery == BufferedImplements /\ HttpImplements /\ BatchImplements

\* Commands on one key are executed in the order of the pipeline through waves, scatter
\* commands and retries (topology_scatter.go:89), but for one of unknown outcome, which a
\* server may come to late (topology_scatter.go:130); each has its answer at the end and the
\* count of a scatter command is true (topology_scatter_command.go:24); the flushes of a
\* buffer, called at the same time, execute in the order of admission and within the
\* bounds of the buffer (buffered.go:165).
BatchesKept ==
    /\ PipelineOrderKept /\ AllAnswered /\ SucceededIsTrue
    /\ AdmissionOrderKept /\ WithinBounds
=============================================================================
