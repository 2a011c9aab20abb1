-------------------------- MODULE MCObservability ---------------------------
(* Model-checking values for Observability.                                *)
EXTENDS Observability

CONSTANTS shared, move, save

MCSupplied == {shared}
MCKeys     == {move, save}

Nothing == [observer |-> FALSE, logging |-> FALSE, logger |-> FALSE,
            prometheus |-> FALSE, collector |-> NoCollector,
            sigNoz |-> FALSE, writer |-> FALSE, trace |-> FALSE]

(* Everything at once, the exporter without a writer; and only a collector *)
(* of the scheduler's own.                                                 *)
Combined == [observer |-> TRUE, logging |-> TRUE, logger |-> TRUE,
             prometheus |-> TRUE, collector |-> shared,
             sigNoz |-> TRUE, writer |-> FALSE, trace |-> TRUE]
Metered  == [Nothing EXCEPT !.prometheus = TRUE]

MCConfigs == {Nothing, Combined, Metered}

MCRuns == {
  [key |-> move, outcomes |-> <<"executed", "notDue", "cancelled">>, duration |-> 1],
  [key |-> save, outcomes |-> <<"skipped", "executed", "failed">>, duration |-> 3]}

MCBuckets == <<1, 2>>
=============================================================================
