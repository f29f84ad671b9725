--------------------------- MODULE MCMeasureCold ---------------------------
(* Instance for TLC: with timeouts up to 6 and trials of one tick at the    *)
(* least, a measurement has at most seven trials.                            *)
EXTENDS MeasureCold

MCCriteria == {"stdrel", "other"}
MCBoth == {TRUE, FALSE}
=============================================================================
