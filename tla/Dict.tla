-------------------------------- MODULE Dict --------------------------------
(***************************************************************************)
(* dict.c of hiredis: a hash table with chains.  A table is a record of    *)
(* its size, its slots, each a sequence of entries [key, val], and used,   *)
(* the number of entries.  Slots are numbered from 1.                      *)
(***************************************************************************)
EXTENDS Integers, Sequences, SequencesExt

CONSTANTS
    Hash,           \* dictHashKey: the hash of each key
    InitialSize     \* DICT_HT_INITIAL_SIZE

ASSUME DictAssumption == InitialSize \in Nat \ {0} /\ \A key \in DOMAIN Hash : Hash[key] \in Nat

dictCreate == [size |-> 0, table |-> <<>>, used |-> 0]

\* The slot of a key in a table of that size, and the place of its entry, 0 if none.
Slot(key, size) == (Hash[key] % size) + 1
Place(chain, key) == SelectInSeq(chain, LAMBDA entry : entry.key = key)

\* The order of dictGetIterator and dictNext: slot by slot, chain by chain.
Entries(ht) == FlattenSeq(ht.table)

\* dictExpand: each entry in turn goes to the front of its new chain.
dictExpand(ht, size) ==
    [size |-> size, used |-> ht.used,
     table |-> [slot \in 1 .. size |->
                    Reverse(SelectSeq(Entries(ht), LAMBDA entry : Slot(entry.key, size) = slot))]]

_dictExpandIfNeeded(ht) ==
    IF ht.size = 0 THEN dictExpand(ht, InitialSize)
    ELSE IF ht.used = ht.size THEN dictExpand(ht, 2 * ht.size)
    ELSE ht

\* dictFind: the value of a key, or the given one if it is not there.
dictFind(ht, key, otherwise) ==
    IF ht.size = 0 THEN otherwise
    ELSE LET chain == ht.table[Slot(key, ht.size)]
             place == Place(chain, key)
         IN  IF place = 0 THEN otherwise ELSE chain[place].val

\* Seeded fault: the slot is taken before the table has grown.
dictReplaceStale(ht, key, val) ==
    LET grown == _dictExpandIfNeeded(ht)
        slot == IF ht.size = 0 THEN 1 ELSE Slot(key, ht.size)
        place == Place(grown.table[slot], key)
    IN  IF place = 0
        THEN [grown EXCEPT !.table[slot] = <<[key |-> key, val |-> val]>> \o @, !.used = @ + 1]
        ELSE [grown EXCEPT !.table[slot][place].val = val]

\* dictReplace: dictAdd puts a new key in front of its chain, and the value of a key
\* that is there is exchanged.  The table grows in both cases.
dictReplace(ht, key, val) ==
    LET grown == _dictExpandIfNeeded(ht)
        slot == Slot(key, grown.size)
        place == Place(grown.table[slot], key)
    IN  IF place = 0
        THEN [grown EXCEPT !.table[slot] = <<[key |-> key, val |-> val]>> \o @, !.used = @ + 1]
        ELSE [grown EXCEPT !.table[slot][place].val = val]

\* dictDelete: the entry is unlinked, if the key is there.
dictDelete(ht, key) ==
    IF ht.size = 0 THEN ht
    ELSE LET slot == Slot(key, ht.size)
             place == Place(ht.table[slot], key)
         IN  IF place = 0 THEN ht
             ELSE [ht EXCEPT !.table[slot] = RemoveAt(@, place), !.used = @ - 1]
=============================================================================
