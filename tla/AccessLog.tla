----------------------------- MODULE AccessLog -----------------------------
(***************************************************************************)
(* From the core's access log to the counts per domain: the collector      *)
(* (util/accesslog/tailer.go, Collect in web/service/accesslog.go) reads   *)
(* what the core appends, stores rows and its cursor in one transaction    *)
(* and empties the file when it is too long; the aggregation               *)
(* (web/service/domain_stat.go) counts the rows behind a cursor of its     *)
(* own.  Transactions fail, the panel crashes and restarts between any two *)
(* steps, and the core goes on writing.                                    *)
(*                                                                         *)
(* Lines are numbered as the core writes them, in two halves; the second   *)
(* ends with the newline.  A cell of the file is a half; offsets and sizes *)
(* count cells.                                                            *)
(***************************************************************************)
EXTENDS Integers, Sequences, FiniteSets

CONSTANTS
  MaxLines,      \* bound: lines the core writes
  Times,         \* milliseconds they may carry, in any order: clocks are set back and forth
  MaxReadCells,  \* accessLogMaxReadBytes
  MaxFileCells,  \* accessLogMaxFileSize
  BatchSize,     \* domainStatBatchSize
  MaxMishaps     \* bound: failed transactions, crashes of the panel and deletions of rows

ASSUME AccessLogAssumption ==
  /\ Times \subseteq Nat \ {0} /\ BatchSize \in Nat \ {0}
  /\ MaxLines \in Nat /\ MaxReadCells \in Nat /\ MaxFileCells \in Nat /\ MaxMishaps \in Nat

VARIABLES
  file,      \* bin/access.log
  open,      \* the core has written the first half of its last line only
  time,      \* time[l]: what line l carries; its length is the number of lines begun
  offset,    \* accessLogTailer.offset
  resumed,   \* accessLogResumed
  batch,     \* Collect's place and local variables
  rows,      \* access_logs, pairs of an id and a line
  cursor,    \* access_log_cursors
  gather,    \* Aggregate's place and the rows it has read
  point,     \* domain_stat_cursors, a pair <<time, id>>
  stored,    \* history: stored[l], how often line l became a row
  counted,   \* history: counted[l], how often it was added to the buckets
  lost,      \* history: lines emptied out of the file before they were read
  late,      \* history: lines that became a row before the point, and lines whose row was deleted
  mishaps    \* remaining bound

tailing == <<offset, resumed, batch>>
tables  == <<rows, cursor>>
stats   == <<gather, point>>
logTold == <<stored, counted, lost, late>>
logVars == <<file, open, time, tailing, tables, stats, logTold, mishaps>>

Lines == 1..MaxLines
Half(l) == [line |-> l, ends |-> FALSE]
Rest(l) == [line |-> l, ends |-> TRUE]
NoBatch == [at |-> "idle", next |-> 0, lines |-> {}, head |-> 0]
NoGather == [at |-> "idle", rows |-> {}]

Mishap == mishaps > 0 /\ mishaps' = mishaps - 1

LogInit ==
  /\ file = <<>> /\ open = FALSE /\ time = <<>>
  /\ offset = 0 /\ resumed = FALSE /\ batch = NoBatch
  /\ rows = {} /\ cursor = [offset |-> 0, head |-> 0]
  /\ gather = NoGather /\ point = <<0, 0>>
  /\ stored = [l \in Lines |-> 0] /\ counted = [l \in Lines |-> 0] /\ lost = {} /\ late = {}
  /\ mishaps = MaxMishaps

-----------------------------------------------------------------------------
(* The core appends. *)
Written == Len(time)

WriteHalf ==
  /\ Written < MaxLines /\ ~open /\ open' = TRUE
  /\ \E t \in Times : time' = Append(time, t)
  /\ file' = Append(file, Half(Written + 1))
  /\ UNCHANGED <<tailing, tables, stats, logTold, mishaps>>

WriteRest ==
  /\ open /\ open' = FALSE
  /\ file' = Append(file, Rest(Written))
  /\ UNCHANGED <<time, tailing, tables, stats, logTold, mishaps>>

-----------------------------------------------------------------------------
(* Tailer.Head: the first line, 0 if there is none that ends. *)
Whole(from, to) ==
  {l \in Lines : \E k \in from + 1..to - 1 : file[k] = Half(l) /\ file[k + 1] = Rest(l)}
LineEnds(from, to) == {k \in from + 1..to : file[k].ends}
FirstLine == LET ends == LineEnds(0, Len(file))
        IN  IF ends = {} THEN 0 ELSE file[CHOOSE k \in ends : \A j \in ends : k <= j].line

ResumeByLength ==
  offset' = IF cursor.offset > 0 /\ Len(file) >= cursor.offset THEN cursor.offset ELSE offset
Resume ==
  offset' = IF cursor.offset > 0 /\ cursor.head # 0 /\ FirstLine = cursor.head /\ Len(file) >= cursor.offset
            THEN cursor.offset ELSE offset

(* Collect, under accessLogLock: it resumes once per process, *)
CollectResumes ==
  /\ batch.at = "idle"
  /\ IF resumed THEN UNCHANGED <<offset, resumed>> ELSE Resume /\ resumed' = TRUE
  /\ batch' = [NoBatch EXCEPT !.at = "peek"]
  /\ UNCHANGED <<file, open, time, tables, stats, logTold, mishaps>>

(* peeks at the whole lines behind the offset, as many as one read holds, *)
Least(a, b) == IF a < b THEN a ELSE b
CollectPeeks ==
  /\ batch.at = "peek"
  /\ LET from == IF Len(file) < offset THEN 0 ELSE offset
         ends == LineEnds(from, Least(Len(file), from + MaxReadCells))
         next == IF ends = {} THEN from ELSE CHOOSE k \in ends : \A j \in ends : j <= k
     IN  /\ offset' = from
         /\ batch' = IF next = from THEN [NoBatch EXCEPT !.at = "trim"]
                     ELSE [at |-> "store", next |-> next, lines |-> Whole(from, next), head |-> FirstLine]
  /\ UNCHANGED <<file, open, time, resumed, tables, stats, logTold, mishaps>>

(* stores them with the cursor in one transaction, *)
NextId == IF rows = {} THEN 1 ELSE 1 + CHOOSE n \in {r[1] : r \in rows} : \A r \in rows : r[1] <= n
Numbered(lines) ==
  {<<NextId + Cardinality({m \in lines : m < l}), l>> : l \in lines}
Behind(a, b) == a[1] < b[1] \/ (a[1] = b[1] /\ a[2] <= b[2])
Place(r) == <<time[r[2]], r[1]>>

(* History: where the aggregation is, or has read to. *)
LastPlace(set) == CHOOSE q \in {Place(r) : r \in set} : \A r \in set : Behind(Place(r), q)
Reached == IF gather.rows = {} THEN point ELSE LastPlace(gather.rows)

CursorSeparately == cursor' = cursor
CursorStored == cursor' = [offset |-> batch.next, head |-> batch.head]

CollectStores ==
  /\ batch.at = "store"
  /\ LET new == Numbered(batch.lines)
     IN  /\ rows' = rows \cup new
         /\ late' = late \cup {r[2] : r \in {n \in new : Behind(Place(n), Reached)}}
  /\ stored' = [l \in Lines |-> stored[l] + IF l \in batch.lines THEN 1 ELSE 0]
  /\ CursorStored
  /\ batch' = [batch EXCEPT !.at = "commit"]
  /\ UNCHANGED <<file, open, time, offset, resumed, stats, counted, lost, mishaps>>

CollectStoreFails ==
  /\ batch.at = "store" /\ Mishap
  /\ batch' = NoBatch
  /\ UNCHANGED <<file, open, time, offset, resumed, tables, stats, logTold>>

CollectCommits ==
  /\ batch.at = "commit"
  /\ offset' = batch.next /\ batch' = [NoBatch EXCEPT !.at = "trim"]
  /\ UNCHANGED <<file, open, time, resumed, tables, stats, logTold, mishaps>>

(* and empties a file that is too long, read to its end or not. *)
CollectTrims ==
  /\ batch.at = "trim" /\ batch' = NoBatch
  /\ IF Len(file) > MaxFileCells
     THEN /\ file' = <<>> /\ offset' = 0
          /\ lost' = lost \cup {l \in 1..Written : stored[l] = 0}
     ELSE UNCHANGED <<file, offset, lost>>
  /\ UNCHANGED <<open, time, resumed, tables, stats, stored, counted, late, mishaps>>

-----------------------------------------------------------------------------
(* Aggregate, one round: the rows behind the point, in the order of time and    *)
(* id; the buckets and the point in one transaction.                            *)
Ahead == {r \in rows : ~Behind(Place(r), point)}
FirstRows == {r \in Ahead : Cardinality({o \in Ahead : Behind(Place(o), Place(r))}) <= BatchSize}

AggregateReads ==
  /\ gather.at = "idle" /\ Ahead # {}
  /\ gather' = [at |-> "store", rows |-> FirstRows]
  /\ UNCHANGED <<file, open, time, tailing, tables, point, logTold, mishaps>>

AggregateStores ==
  /\ gather.at = "store"
  /\ counted' = [l \in Lines |-> counted[l] + Cardinality({r \in gather.rows : r[2] = l})]
  /\ point' = LastPlace(gather.rows)
  /\ gather' = NoGather
  /\ UNCHANGED <<file, open, time, tailing, tables, stored, lost, late, mishaps>>

AggregateFails ==
  /\ gather.at = "store" /\ Mishap
  /\ gather' = NoGather
  /\ UNCHANGED <<file, open, time, tailing, tables, point, logTold>>

-----------------------------------------------------------------------------
(* A row is deleted with its inbound or for its age; its id may come again. *)
DeleteRow ==
  /\ Mishap
  /\ \E r \in rows : rows' = rows \ {r} /\ late' = late \cup {r[2]}
  /\ UNCHANGED <<file, open, time, tailing, cursor, stats, stored, counted, lost>>

(* The panel crashes or is restarted: what it held in memory is gone. *)
PanelRestarts ==
  /\ Mishap
  /\ offset' = 0 /\ resumed' = FALSE /\ batch' = NoBatch /\ gather' = NoGather
  /\ UNCHANGED <<file, open, time, tables, point, logTold>>

Collecting ==
  \/ CollectResumes \/ CollectPeeks \/ CollectStores \/ CollectStoreFails
  \/ CollectCommits \/ CollectTrims
LogNext ==
  \/ WriteHalf \/ WriteRest \/ Collecting
  \/ AggregateReads \/ AggregateStores \/ AggregateFails \/ DeleteRow \/ PanelRestarts
LogSpec == LogInit /\ [][LogNext]_logVars

-----------------------------------------------------------------------------
(* Every variable has its type, and an offset never ends inside a line. *)
AtLineEnd(n) == n = 0 \/ n > Len(file) \/ file[n].ends
LogTypeOK ==
  /\ Written <= MaxLines /\ \A l \in 1..Written : time[l] \in Times
  /\ offset \in Nat /\ resumed \in BOOLEAN /\ AtLineEnd(offset)
  /\ batch.at \in {"idle", "peek", "store", "commit", "trim"} /\ batch.lines \subseteq Lines
  /\ gather.at \in {"idle", "store"} /\ (gather.at = "store") = (gather.rows # {})
  /\ Cardinality({r[1] : r \in rows}) = Cardinality(rows)
  /\ {point[1]} \subseteq Times \cup {0}

(* A line becomes one row and is counted once, however transactions fail and    *)
(* the panel restarts; and none is passed over: what lies before an offset the  *)
(* collector goes on from - its own, or the stored one when it would be taken   *)
(* up - became a row, and what lies before the point was counted.  Lost are     *)
(* only lines that were emptied out of the file unread, and for the counts rows *)
(* that were deleted or carry a time the counting had passed.                   *)
NotTwice == \A l \in Lines : stored[l] <= 1 /\ counted[l] <= 1
ReadTo(n) == \A l \in Whole(0, Least(n, Len(file))) : stored[l] = 1 \/ l \in lost
GoesOnFrom == IF resumed THEN offset
              ELSE IF FirstLine = cursor.head /\ Len(file) >= cursor.offset THEN cursor.offset ELSE 0
NotPassedOver ==
  /\ ReadTo(GoesOnFrom)
  /\ \A r \in rows : Behind(Place(r), point) => counted[r[2]] = 1 \/ r[2] \in late
EveryLineOnce == NotTwice /\ NotPassedOver
=============================================================================
