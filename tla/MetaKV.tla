------------------------------- MODULE MetaKV -------------------------------
(***************************************************************************)
(* The metadata store as birdwatcher's MetaKV shows it over etcd: single   *)
(* keys, ranges by string prefix, pages, and the listing of typed objects  *)
(* that every command is built on.                                         *)
(*                                                                         *)
(* A path is the tuple of its components, so "a/b" is <<"a", "b">> and     *)
(* "a/b/" is <<"a", "b", "">>: a trailing slash is an empty last           *)
(* component, which begins every other one.                                *)
(***************************************************************************)
EXTENDS SequenceFolds

CONSTANTS
    KeyOrder,    \* the keys that can occur, in the store's order
    Begins,      \* <<a, b>>: component a is a proper beginning of component b
    Absent,      \* the value of a key that is not in the store
    Tombstone    \* the mark milvus leaves on dropped metadata

VARIABLE store   \* the value of each key

\* The empty text: what follows a closing slash, a parameter not given.
Empty == ""

Key == {KeyOrder[i] : i \in DOMAIN KeyOrder}

ASSUME KeyOrderAssumption ==
    /\ KeyOrder \in Seq(Seq(STRING))
    /\ \A i, j \in DOMAIN KeyOrder : KeyOrder[i] = KeyOrder[j] => i = j
    /\ \A k \in Key : Len(k) > 0 /\ k[Len(k)] # Empty

-----------------------------------------------------------------------------
(* Paths. *)

HasSlash(p) == p[Len(p)] = Empty

\* path.Join: the trailing slash is lost.
Join(p) == IF HasSlash(p) THEN SubSeq(p, 1, Len(p) - 1) ELSE p

Slashed(p) == Append(Join(p), Empty)

\* strings.HasPrefix on the text of two paths.
HasPrefix(k, p) ==
    LET n == Len(p) IN
    /\ n <= Len(k)
    /\ \A i \in 1 .. n - 1 : k[i] = p[i]
    /\ p[n] = Empty \/ p[n] = k[n] \/ <<p[n], k[n]>> \in Begins

-----------------------------------------------------------------------------
(* The operations of etcdKV. The changing ones map a store to a store.     *)

Load(k) == IF k \in Key THEN store[k] ELSE Absent

LoadWithPrefix(p) ==
    Where(KeyOrder, LAMBDA k : store[k] # Absent /\ HasPrefix(k, p))

Save(s, k, v) == IF k \in DOMAIN s THEN [s EXCEPT ![k] = v] ELSE s

\* Mutants of the two removals.
RemoveUnslashed(s, p) ==
    [k \in DOMAIN s |-> IF HasPrefix(k, Join(p)) THEN Absent ELSE s[k]]
RemoveOneKey(s, p) == Save(s, Join(p), Absent)

Remove(s, k) == Save(s, k, Absent)

RemoveWithPrefix(s, p) ==
    [k \in DOMAIN s |-> IF HasPrefix(k, Slashed(p)) THEN Absent ELSE s[k]]

\* WalkWithPrefix reads pages of at most size keys; the next one starts after
\* the last key of this one. from is the place in KeyOrder already passed.
WalkRest(p, from) ==
    Where(SubSeq(KeyOrder, from + 1, Len(KeyOrder)),
          LAMBDA k : store[k] # Absent /\ HasPrefix(k, Join(p)))

Page(p, from, size) ==
    LET rest == WalkRest(p, from) IN
    SubSeq(rest, 1, IF Len(rest) < size THEN Len(rest) ELSE size)

\* Mutant: the walk goes on one key too far.
PositionAfter(k) == 1 + CHOOSE i \in DOMAIN KeyOrder : KeyOrder[i] = k

Position(k) == CHOOSE i \in DOMAIN KeyOrder : KeyOrder[i] = k

-----------------------------------------------------------------------------
(* ListObj2Models: the values that parse, each paired with the key that    *)
(* stands at its own place among ALL the keys read. A value that does not  *)
(* parse (a tombstone) is left out of the values and stays among the keys. *)

Unmarshalled(keys) == Where(keys, LAMBDA k : store[k] # Tombstone)

ListObj2Models(p) ==
    LET keys == LoadWithPrefix(p)
        vals == Unmarshalled(keys)
    IN [i \in DOMAIN vals |-> [key |-> keys[i], obj |-> store[vals[i]]]]

\* Some value under p was left out, so keys and objects are out of step.
Skips(p) == Len(Unmarshalled(LoadWithPrefix(p))) < Len(LoadWithPrefix(p))
=============================================================================
