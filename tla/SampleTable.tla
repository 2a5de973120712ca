----------------------------- MODULE SampleTable -----------------------------
(***************************************************************************)
(* What connection_samples (backend/internal/store/runtime.go) promises to *)
(* the writer of the feature events and to the readers of the table,       *)
(* without the statements of its transactions.  A batch that was handed    *)
(* over is applied to all its connections at once or not at all; it is not *)
(* applied only when the service ends with it, by an error or a crash; and *)
(* the service starts again with a table that has no open sample.          *)
(* FeatureStore implements this module, FeatureWriter relies on no more.   *)
(***************************************************************************)
CONSTANT Conns    \* connection ids

VARIABLES sample,   \* no row, open, or closed
          handed,   \* the event of each connection in the batch that was handed over
          serving   \* the startup cleanup is done and the workers run

vars == <<sample, handed, serving>>

Nothing == [c \in Conns |-> "none"]

(* What an event makes of a sample: only a sample that is open is closed. *)
Effect(event, before) ==
  CASE event = "observed" -> "open"
    [] event = "closed" /\ before = "open" -> "closed"
    [] OTHER -> before

Init == /\ sample = Nothing
        /\ handed = Nothing
        /\ serving \in BOOLEAN

HandOver == /\ serving
            /\ handed = Nothing
            /\ handed' \in [Conns -> {"none", "observed", "closed"}]
            /\ UNCHANGED <<sample, serving>>

(* The last batch may end the service as well. *)
ApplyBatch == /\ serving
              /\ sample' = [c \in Conns |-> Effect(handed[c], sample[c])]
              /\ handed' = Nothing
              /\ serving' \in BOOLEAN

(* The transaction fails or the daemon dies: a batch is not lost silently. *)
StopServing == /\ handed' = Nothing
               /\ serving' = FALSE
               /\ UNCHANGED sample

StartServing == /\ ~serving
                /\ sample' = [c \in Conns |-> Effect("closed", sample[c])]
                /\ serving' = TRUE
                /\ UNCHANGED handed

Next == HandOver \/ ApplyBatch \/ StopServing \/ StartServing

Spec == Init /\ [][Next]_vars
=============================================================================
