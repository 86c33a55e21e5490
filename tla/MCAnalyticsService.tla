------------------------- MODULE MCAnalyticsService -------------------------
(* An instance of AnalyticsService for TLC. *)
EXTENDS AnalyticsService

\* The inputs of one key meet in the joins; those of different keys share no
\* state.  Without inputs the service handles Kafka messages.
OneKeyOrKafka == { {"high-value"}, {"standard"}, {"cycle", "substream"}, {} }
=============================================================================
