------------------------- MODULE MCTransactionTracking -------------------------
EXTENDS TransactionTracking
CONSTANTS tx1, tx2
MCTxs == {tx1, tx2}
================================================================================
