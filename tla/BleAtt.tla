------------------------------- MODULE BleAtt -------------------------------
(***************************************************************************)
(* The read side of the CYW43 model's attribute server, against a client   *)
(* that walks the table: each request names a handle range, the response   *)
(* carries the rows that fit, and the client asks again from the handle    *)
(* after the last one until it is told Attribute Not Found.                *)
(***************************************************************************)
EXTENDS Naturals, Sequences, SequencesExt, FiniteSetsExt

CONSTANTS
    Lengths,     \* value lengths a write can leave in a row
    Budget,      \* 60: what bt_gatt_handle_room_att_on puts in a response
    MaxHandle    \* the top of the client's range

VARIABLE att

Base == 16       \* CYW43_BT_GATT_HANDLE_BASE

\* bt_gatt_db_reset: the five rows, with the lengths writes left.
Rows(scratch, cccd, source) ==
    << [h |-> Base, uuid |-> "service", len |-> 2],
       [h |-> Base + 1, uuid |-> "name", len |-> 7],
       [h |-> Base + 2, uuid |-> "value", len |-> scratch],
       [h |-> Base + 3, uuid |-> "cccd", len |-> cccd],
       [h |-> Base + 4, uuid |-> "value", len |-> source] >>

InRange(rows, h1, h2) == SelectSeq(rows, LAMBDA r : r.h >= h1 /\ r.h <= h2)

\* The longest prefix of rows that stays within the budget, each with fixed
\* bytes and, when valued, its value, after a head of used bytes.
Fitting(rows, used, fixed, valued) ==
    LET Size(n) == FoldLeft(LAMBDA a, r : a + fixed + IF valued THEN r.len ELSE 0,
                            used, SubSeq(rows, 1, n))
    IN  SubSeq(rows, 1, Max({n \in 0..Len(rows) : n = 0 \/ Size(n) <= Budget}))

\* The leading rows that are as long as the first.
Alike(rows) ==
    LET Same(n) == \A i \in 1..n : rows[i].len = rows[1].len
    IN  SubSeq(rows, 1, Max({n \in 0..Len(rows) : Same(n)}))

\* 0x04 Find Information: handle and UUID of each row.
FindInformation(rows, h1, h2) == Fitting(InRange(rows, h1, h2), 2, 4, FALSE)

\* 0x06 Find By Type Value: the services with this value.
FindByTypeValue(rows, h1, h2, uuid, len) ==
    Fitting(SelectSeq(InRange(rows, h1, h2), LAMBDA r : r.uuid = uuid /\ r.len = len),
            1, 4, FALSE)

\* 0x08 Read By Type: rows of one length, the first row's.
ReadByType(rows, h1, h2, uuid) ==
    LET hit == SelectSeq(InRange(rows, h1, h2), LAMBDA r : r.uuid = uuid)
    IN  IF hit = <<>> THEN <<>> ELSE Fitting(Alike(hit), 2, 2, TRUE)

\* 0x10 Read By Group Type: primary services.
ReadByGroupType(rows, h1, h2) ==
    LET hit == SelectSeq(InRange(rows, h1, h2), LAMBDA r : r.uuid = "service")
    IN  IF hit = <<>> THEN <<>> ELSE Fitting(Alike(hit), 2, 4, TRUE)

\* 0x0A Read and 0x0C Read Blob: how many bytes from off.
ReadBlob(len, off) == IF len - off > Budget THEN Budget ELSE len - off

\* 0x0E Read Multiple: the values that fit, in request order.
ReadMultiple(rows) == Fitting(rows, 1, 0, TRUE)

-----------------------------------------------------------------------------
\* The response to one request of the walk.
Response(req, rows, h1) ==
    IF req = "info" THEN FindInformation(rows, h1, MaxHandle)
    ELSE IF req = "service" THEN ReadByGroupType(rows, h1, MaxHandle)
    ELSE IF req = "find" THEN FindByTypeValue(rows, h1, MaxHandle, "service", 2)
    ELSE ReadByType(rows, h1, MaxHandle, req)

Walks == {"info", "service", "find", "name", "value", "cccd"}

\* The rows a complete walk must have seen.
Wanted(req, rows) ==
    IF req = "info" THEN rows
    ELSE IF req \in {"service", "find"} THEN SelectSeq(rows, LAMBDA r : r.uuid = "service")
    ELSE SelectSeq(rows, LAMBDA r : r.uuid = req)

Init ==
    \E scratch, cccd, source \in Lengths, req \in Walks :
        att = [rows |-> Rows(scratch, cccd, source), req |-> req, h |-> 1,
               got |-> <<>>, done |-> FALSE]

\* The client asks, and takes the rows or the end.
Ask ==
    LET r == Response(att.req, att.rows, att.h)
    IN  /\ ~att.done
        /\ att' = IF r = <<>> THEN [att EXCEPT !.done = TRUE]
                  ELSE [att EXCEPT !.got = @ \o r, !.h = r[Len(r)].h + 1]

\* The client walks again, for something else.
Again == att.done /\ \E req \in Walks : att' = [att EXCEPT !.req = req, !.h = 1, !.got = <<>>,
                                                           !.done = FALSE]

Next == Ask \/ Again

Spec == Init /\ [][Next]_att

-----------------------------------------------------------------------------
\* A walk that ended has seen every row it asked for, once and in order; a
\* value read blob by blob comes back whole.
DiscoveryComplete ==
    /\ att.done => att.got = Wanted(att.req, att.rows)
    /\ \A i \in 1..Len(att.rows), off \in Lengths :
           off <= att.rows[i].len =>
               off + ReadBlob(att.rows[i].len, off) = att.rows[i].len
    /\ \A i, j \in 1..Len(att.rows) :
           LET two == <<att.rows[i], att.rows[j]>>
           IN  IsPrefix(ReadMultiple(two), two) /\ Len(ReadMultiple(two)) >= 1
=============================================================================
