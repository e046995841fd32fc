----------------------------- MODULE MCDataSwap -----------------------------
EXTENDS DataSwap, TLC

CONSTANTS library, books, wal, key1, key2

MCRequired == {library, books}
MCOptional == {wal}
MCKeys == {key1, key2}

=============================================================================
