------------------------------ MODULE MCLeaseLock ------------------------------
\* LeaseLock with two competing calls whose clocks may differ.
EXTENDS LeaseLock
===============================================================================
