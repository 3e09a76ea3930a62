---------------------------- MODULE VersionTable ----------------------------
(***************************************************************************)
(* What a memtable's table promises, without towers and pointers: a        *)
(* sequence of versions sorted by key, in which the versions of one key    *)
(* stand in the reverse order of their insertion.  The skip list (module   *)
(* SkipList) is shown to implement this specification.                     *)
(***************************************************************************)
EXTENDS Integers, Sequences

CONSTANTS Keys, Values, TrancIds

VARIABLES versions,    \* sequence of records [key, value, tranc_id]
          call         \* the last call that changed the table

Init == versions = << >> /\ call = <<"none">>

\* Where the versions of key begin, or where they would.
FirstAtOrAfter(key) ==
  CHOOSE i \in 1..(Len(versions) + 1) :
    /\ \A j \in 1..(i - 1) : versions[j].key < key
    /\ i <= Len(versions) => versions[i].key >= key

Leads(key, i) == i <= Len(versions) /\ versions[i].key = key

(***************************************************************************)
(* A put by the transaction that wrote the leading version of the key      *)
(* overwrites it; any other put becomes the new leading version.           *)
(***************************************************************************)
Put(key, value, tranc_id) ==
  LET i == FirstAtOrAfter(key)
      version == [key |-> key, value |-> value, tranc_id |-> tranc_id]
  IN  /\ call' = <<"put", key, value, tranc_id>>
      /\ IF Leads(key, i) /\ versions[i].tranc_id = tranc_id
           THEN versions' = [versions EXCEPT ![i] = version]
           ELSE versions' = SubSeq(versions, 1, i - 1) \o <<version>>
                              \o SubSeq(versions, i, Len(versions))

\* The leading version of the key, if any, is taken out.
Remove(key) ==
  LET i == FirstAtOrAfter(key)
  IN  /\ Leads(key, i)
      /\ call' = <<"remove", key>>
      /\ versions' = SubSeq(versions, 1, i - 1) \o SubSeq(versions, i + 1, Len(versions))

Clear == versions' = << >> /\ call' = <<"clear">>

Next ==
  \/ \E key \in Keys, value \in Values, tranc_id \in TrancIds : Put(key, value, tranc_id)
  \/ \E key \in Keys : Remove(key)
  \/ Clear

Spec == Init /\ [][Next]_<<versions, call>>
=============================================================================
