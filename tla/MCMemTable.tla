------------------------------ MODULE MCMemTable ------------------------------
(***************************************************************************)
(* The memtable under several workloads.                                   *)
(***************************************************************************)
EXTENDS MemTable, TLC

CONSTANTS t1, t2, t3

\* One thread with most calls beside a reader, small tables, and a total limit that
\* puts reach.
Owner ==
  [ops |-> t1 :> {"put", "commit_checked", "flush_all", "clear"}
           @@ t2 :> {"get"},
   table_limit |-> 2, total_limit |-> 3]

\* Committing threads beside a flushing one.
Committers ==
  [ops |-> t1 :> {"commit"} @@ t2 :> {"commit"} @@ t3 :> {"flush"},
   table_limit |-> 2, total_limit |-> 9]

\* A reader beside a clear and a writer that freezes a table with every put.
Readers ==
  [ops |-> t1 :> {"put"} @@ t2 :> {"clear"} @@ t3 :> {"get"},
   table_limit |-> 1, total_limit |-> 9]

\* Puts and reads beside a flush.
Racing ==
  [ops |-> t1 :> {"put"} @@ t2 :> {"flush"} @@ t3 :> {"get"},
   table_limit |-> 2, total_limit |-> 9]

Mixed == {Owner, Committers, Readers, Racing}

PutAndFlush ==
  {[ops |-> t1 :> {"put"} @@ t2 :> {"flush"}, table_limit |-> 9, total_limit |-> 9]}

CommitAndFlushAll ==
  {[ops |-> t1 :> {"commit"} @@ t2 :> {"flush_all"}, table_limit |-> 9, total_limit |-> 9]}
===============================================================================
