------------------------ MODULE ConcurrentHashTable ------------------------
(***************************************************************************)
(* The open-addressing table of inc/transport/concurrent_hash_table.h, as  *)
(* UdpServer uses it: from the one thread that runs its loop, so that each *)
(* call is one operator on the whole table.  A table is a function from    *)
(* entry numbers to a key and a value.  A removed key leaves a hole in the *)
(* probe sequences of the keys behind it, and nothing is ever moved.       *)
(***************************************************************************)
EXTENDS Naturals, FiniteSetsExt

CONSTANTS Keys,      \* client addresses, 64 bits: address << 32 | port
          Capacity,  \* the size asked for; the table has a power of two
          Hash       \* hash64, any function of the key

ASSUME CapacityAssumption == Capacity \in Nat
ASSUME HashAssumption == Hash \in [Keys -> Nat]

NoKey == "vacant"
ASSUME NoKeyAssumption == NoKey \notin Keys

\* Arithmetic, not a restriction: the provers know no facts about powers.
ASSUME PowerAssumption == \A n \in 0..Capacity : 2 ^ n \in Nat /\ 2 ^ n > n

\* The least power of two that is not below the capacity.
Size == CHOOSE s \in {2 ^ n : n \in 0..Capacity} :
            s >= Capacity /\ \A n \in 0..Capacity : 2 ^ n >= Capacity => s <= 2 ^ n

Entries == 0..(Size - 1)

\* COMMUTIL_INVALID_CHT_ENTRY_ID, a number that no entry has.
NoEntry == Size

EmptyTable == [e \in Entries |-> [key |-> NoKey, value |-> 0]]

Home(k) == Hash[k] % Size

\* The n-th entry a search for k looks at, from 0.
Probed(k, n) == (Home(k) + n) % Size

\* The first entry of k's probe sequence whose key is in S.
FirstProbed(t, k, S) ==
    LET hits == {n \in Entries : t[Probed(k, n)].key \in S}
    IN  IF hits = {} THEN NoEntry ELSE Probed(k, Min(hits))

\* For mutation: a search that ends at the first vacant entry.
GetItemUpToHole(t, k) ==
    LET e == FirstProbed(t, k, {k, NoKey})
    IN  IF e = NoEntry THEN NoEntry ELSE IF t[e].key = k THEN e ELSE NoEntry

\* getItem goes on past vacant entries: the key may lie behind a hole.
GetItem(t, k) == FirstProbed(t, k, {k})

\* setItem takes the first entry that is vacant or holds the key already.
SetItemEntry(t, k) == FirstProbed(t, k, {k, NoKey})

SetItem(t, k, v) == [t EXCEPT ![SetItemEntry(t, k)] = [key |-> k, value |-> v]]
=============================================================================
