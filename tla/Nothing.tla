------------------------------- MODULE Nothing -------------------------------
CONSTANT None   \* Python's None
=============================================================================
