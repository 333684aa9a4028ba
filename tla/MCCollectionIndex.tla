------------------------- MODULE MCCollectionIndex --------------------------
EXTENDS CollectionIndex

CONSTANTS v1, v2, bad, none, del

\* two element values, so an overwrite and a reordering are visible
MCVals == {v1, v2}

\* one index below the range, every slot, and one past the limit
MCIndexArgs == -1..Capacity

\* trims of nothing, of every slot, and of one slot too many
MCTrimArgs == 0..Capacity + 1
=============================================================================
