------------------------------ MODULE MCListStores ------------------------------
EXTENDS ListStores

\* Lists without repetition of up to two items.
MCValues == {l \in {<<>>} \cup {<<i>> : i \in Items} \cup (Items \X Items) :
                Len(l) = 2 => l[1] # l[2]}
MCDefaults == [f \in {List} |-> <<>>]
MCReplacement == <<>>
=============================================================================
