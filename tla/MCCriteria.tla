------------------------------ MODULE MCCriteria ------------------------------
EXTENDS Criteria

\* Tenths of a bit.
Log2Value == <<0, 10, 16, 20, 23, 26>>

=============================================================================
