--------------------------- MODULE MCLedgerAddresses ---------------------------
EXTENDS LedgerAddresses
CONSTANTS ks1, ks2
MCKeystores == {ks1, ks2}
MCModes == {"default", "p2wpkh", "p2tr"}
MCOffered == {[chain |-> "BTC", mode |-> "p2wpkh"], [chain |-> "BTC", mode |-> "p2tr"]}
================================================================================
