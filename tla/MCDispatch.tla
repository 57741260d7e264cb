----------------------------- MODULE MCDispatch -----------------------------
EXTENDS Dispatch

CONSTANTS o1, a1
NoRecords == {}
OneOpen == {o1}
OneAction == {a1}
=============================================================================
