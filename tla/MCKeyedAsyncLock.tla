------------------------- MODULE MCKeyedAsyncLock -------------------------
EXTENDS KeyedAsyncLock

MCCalls == 1..6
MCKeyOf == [c \in MCCalls |-> IF c <= 4 THEN "folder" ELSE "settings"]

=============================================================================
