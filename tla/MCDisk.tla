------------------------------- MODULE MCDisk -------------------------------
(***************************************************************************)
(* Three transactions write to a log whose files are full after one or two *)
(* of them; ids below 3; up to two blocks; filters of two keys with fewer  *)
(* or more bits than two bytes of two bits hold.                           *)
(***************************************************************************)
EXTENDS Disk

\* A transaction that puts and deletes, and one without writes.
MCWrites == {<<<<<<1>>, <<3, 0>>>>, <<<<4>>>>>>, << >>}

\* One offset and one key are too large for their widths.
MCMetaEntries ==
  [offset : {5, 9}, first_key : {<<1>>, <<2, 1>>}, last_key : {<<1>>, <<2, 1, 3, 2, 1>>}]
=============================================================================
