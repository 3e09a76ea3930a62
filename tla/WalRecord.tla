----------------------------- MODULE WalRecord -----------------------------
(***************************************************************************)
(* Record (src/src/wal/record.cpp): the entries of the write-ahead log and *)
(* their encoding.  A file is a sequence of cells; a number of fixed width *)
(* takes one cell, and so does each byte of a key or a value.              *)
(***************************************************************************)
EXTENDS Integers, Sequences, SequencesExt

CONSTANT LenLimit    \* record_len_ is a uint16_t: lengths are modulo LenLimit

OP_CREATE == 0
OP_COMMIT == 1
OP_ROLLBACK == 2
OP_PUT == 3
OP_DELETE == 4

HeaderLen == 3    \* record_len, tranc_id, operation_type

Record(t, type, k, v, len) ==
  [tranc_id |-> t, type |-> type, key |-> k, value |-> v, record_len |-> len % LenLimit]

createRecord(t) == Record(t, OP_CREATE, << >>, << >>, HeaderLen)
commitRecord(t) == Record(t, OP_COMMIT, << >>, << >>, HeaderLen)
rollbackRecord(t) == Record(t, OP_ROLLBACK, << >>, << >>, HeaderLen)

\* Mutant: the field with the value's length is not counted.
PutRecordShort(t, k, v) == Record(t, OP_PUT, k, v, HeaderLen + 1 + Len(k) + Len(v))

putRecord(t, k, v) == Record(t, OP_PUT, k, v, HeaderLen + 1 + Len(k) + 1 + Len(v))
deleteRecord(t, k) == Record(t, OP_DELETE, k, << >>, HeaderLen + 1 + Len(k))

WithLength(s) == <<Len(s)>> \o s

\* A record too long for record_len_ overruns the vector, of which the first
\* record_len_ cells are returned.
encode(r) ==
  LET header == <<r.record_len, r.tranc_id, r.type>>
      body == CASE r.type = OP_PUT    -> WithLength(r.key) \o WithLength(r.value)
                [] r.type = OP_DELETE -> WithLength(r.key)
                [] OTHER              -> << >>
  IN  SubSeq(header \o body, 1, r.record_len)

Cells(records) == FlattenSeq([i \in DOMAIN records |-> encode(records[i])])

-----------------------------------------------------------------------------
\* Decoding.  A read behind the end of the data is undefined: any cell there
\* stands for a number that leads further behind the end.

Cell(data, i) == IF i \in DOMAIN data THEN data[i] ELSE Len(data) + 2
Bytes(data, i, j) == IF j <= Len(data) THEN SubSeq(data, i, j) ELSE << >>

\* The record that starts at position p, by the lengths of its own fields, and
\* the position behind it.
RecordAt(data, p) ==
  LET type == Cell(data, p + 2)
      key_len == Cell(data, p + 3)
      value_pos == p + 4 + key_len
      key == Bytes(data, p + 4, value_pos - 1)
      value_len == Cell(data, value_pos)
      value == Bytes(data, value_pos + 1, value_pos + value_len)
      R(k, v) == [tranc_id |-> Cell(data, p + 1), type |-> type, key |-> k, value |-> v,
                  record_len |-> data[p]]
  IN  CASE type = OP_PUT    -> [record |-> R(key, value), next |-> value_pos + 1 + value_len]
        [] type = OP_DELETE -> [record |-> R(key, << >>), next |-> value_pos]
        [] OTHER            -> [record |-> R(<< >>, << >>), next |-> p + HeaderLen]

\* The outcome is "ok" with the records, "throws" or, when a record reaches
\* behind the data, "undefined".
decode(data) ==
  LET failed(status) == [status |-> status, records |-> << >>]
      from[p \in 1..(Len(data) + 1)] ==
        IF p > Len(data) THEN [status |-> "ok", records |-> << >>]
        ELSE IF Len(data) < data[p] THEN failed("throws")
        ELSE IF p + 2 > Len(data) \/ RecordAt(data, p).next > Len(data) + 1
             THEN failed("undefined")
        ELSE LET r == RecordAt(data, p)
             IN  IF from[r.next].status # "ok" THEN from[r.next]
                 ELSE [status |-> "ok", records |-> <<r.record>> \o from[r.next].records]
  IN  IF Len(data) < HeaderLen THEN [status |-> "ok", records |-> << >>] ELSE from[1]
=============================================================================
