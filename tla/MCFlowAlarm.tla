----------------------------- MODULE MCFlowAlarm -----------------------------
EXTENDS FlowAlarm
=============================================================================
