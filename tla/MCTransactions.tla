--------------------------- MODULE MCTransactions ---------------------------
EXTENDS Transactions, TLC
=============================================================================
