---------------------------- MODULE QualityGate ----------------------------
(* One verdict from the three scores of the judge, in hundredths.          *)
EXTENDS Naturals

CONSTANT Unscored   \* None: the metric has no score

Metrics == {"faithfulness", "context_recall", "answer_relevancy"}

(* DEFAULT_THRESHOLDS.                                                     *)
WarnBelow(metric) == IF metric = "context_recall" THEN 70 ELSE 75
FailBelow(metric) == 50

(* MetricThreshold.evaluate.                                               *)
Verdict(metric, score) ==
    IF score = Unscored             THEN "skip"
    ELSE IF score >= WarnBelow(metric) THEN "pass"
    ELSE IF score >= FailBelow(metric) THEN "warn" ELSE "fail"

(* Wrong: what most metrics say, so one bad score is averaged away.        *)
GateOfMost(scores) ==
    LET verdicts == [m \in Metrics |-> Verdict(m, scores[m])]
    IN  IF \A m \in Metrics : verdicts[m] = "skip" THEN "skip"
        ELSE IF \E m, n \in Metrics : m # n /\ verdicts[m] = "pass"
                                            /\ verdicts[n] = "pass"
        THEN "pass"
        ELSE IF \E m \in Metrics : verdicts[m] = "fail" THEN "fail"
        ELSE "warn"

(* evaluate_quality_gate: as strict as the strictest metric.               *)
Gate(scores) ==
    LET verdicts == {Verdict(m, scores[m]) : m \in Metrics}
    IN  IF verdicts = {"skip"}     THEN "skip"
        ELSE IF "fail" \in verdicts THEN "fail"
        ELSE IF "warn" \in verdicts THEN "warn" ELSE "pass"
=============================================================================
