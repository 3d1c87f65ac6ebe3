------------------------------ MODULE LogArchive ------------------------------
(***************************************************************************)
(* The diagnostic log from the ring in the ESP32                           *)
(* (src/include/network_logs.h and sendLogs() of src/src/main.cpp) to the  *)
(* archive on disk (src/tools/rolling_logs/recorder.py).  Other tasks log  *)
(* between any two looks at the ring, a page is read record by record,     *)
(* the reader hands events to the one writer through a bounded queue, rows *)
(* and the cursor to resume from are committed together, and either side   *)
(* starts anew at any time.                                                *)
(***************************************************************************)
EXTENDS Naturals, Sequences

CONSTANTS
  Capacity,       \* kCapacity, records in the ring
  Limit,          \* records of a page
  QueueSize,      \* events in the queue
  MaxSeq,         \* records a boot of the device logs
  MaxBoot,        \* boots of the device
  MaxLogMishaps   \* requests and writes that fail, and deaths of the recorder

ASSUME LogAssumption ==
  /\ {Capacity, Limit, QueueSize, MaxBoot} \subseteq Nat \ {0}
  /\ {MaxSeq, MaxLogMishaps} \subseteq Nat

VARIABLES
  ring,         \* the device: its boot and the number of the next record
  reader,       \* esp32_text()
  queue,        \* EventQueue
  recorder,     \* the main thread
  archive,      \* the database
  logMishaps    \* how many things have gone wrong

logVars == <<ring, reader, queue, recorder, archive, logMishaps>>

Boot == 0..MaxBoot  \* 0: no boot is known
SeqNo == 1..MaxSeq
RecordId == Boot \X SeqNo

Cursor == [boot : Boot, after : 0..MaxSeq]
NoCursor == [boot |-> 0, after |-> 0]

(* next: next_seq, oldest: oldest_seq of the statistics taken first.        *)
PageType == [boot : Boot, oldest : 1..(MaxSeq + 1), next : 1..(MaxSeq + 1),
             records : Seq(SeqNo)]
NoPage == [boot |-> 0, oldest |-> 1, next |-> 1, records |-> <<>>]

(* A row, a gap or a boot; cursor: its checkpoint.                          *)
Event == [kind : {"row", "gap", "boot"}, ids : SUBSET RecordId,
          cursor : Cursor \cup {NoCursor}]
EventOfKind(kind, ids, cursor) == [kind |-> kind, ids |-> ids, cursor |-> cursor]
NoEvent == EventOfKind("none", {}, NoCursor)

(* previous: previous_seq, here also the cursor of the page being built;    *)
(* offer: what EventQueue.put() has seen no stop for and waits to queue.    *)
ReaderState == [pc : {"ask", "stats", "read", "check", "record", "wait", "ended"},
                saved : Cursor, page : PageType, previous : 0..MaxSeq,
                offer : Event \cup {NoEvent}]
NewReader(cursor) == [pc |-> "ask", saved |-> cursor, page |-> NoPage, previous |-> 0,
                      offer |-> NoEvent]
EndedReader == [NewReader(NoCursor) EXCEPT !.pc = "ended"]

RecorderState == [pc : {"down", "run", "write", "joining", "flush", "stopped"},
                  stop : BOOLEAN, batch : Seq(Event)]
NewRecorder == [pc |-> "run", stop |-> FALSE, batch |-> <<>>]

Archive == [rows : SUBSET RecordId, gaps : SUBSET RecordId, cursor : Cursor]

LogInit ==
  /\ ring = [boot |-> 1, next |-> 1]
  /\ reader = NewReader(NoCursor)
  /\ queue = <<>>
  /\ recorder = NewRecorder
  /\ archive = [rows |-> {}, gaps |-> {}, cursor |-> NoCursor]
  /\ logMishaps = 0

LogMishap == logMishaps < MaxLogMishaps /\ logMishaps' = logMishaps + 1

-----------------------------------------------------------------------------
(* The device.                                                              *)

Oldest == IF ring.next > Capacity THEN ring.next - Capacity ELSE 1

(* appendLocked(), for a line or the half line that flush() takes.          *)
Logs ==
  /\ ring.next <= MaxSeq
  /\ ring' = [ring EXCEPT !.next = @ + 1]
  /\ UNCHANGED <<reader, queue, recorder, archive, logMishaps>>

(* The request under way comes to nothing, the cursor stays.                *)
Waiting == [NewReader(reader.saved) EXCEPT !.pc = "wait"]

(* The ring is lost, and the request that is being answered.                *)
LogDeviceReboots ==
  /\ ring.boot < MaxBoot
  /\ ring' = [boot |-> ring.boot + 1, next |-> 1]
  /\ reader' = IF reader.pc \in {"stats", "read"} THEN Waiting ELSE reader
  /\ UNCHANGED <<queue, recorder, archive, logMishaps>>

(* sendLogs() takes the statistics, then one record after the other.        *)
TakesStats ==
  /\ reader.pc = "stats"
  /\ reader' = [reader EXCEPT !.pc = "read", !.previous = reader.saved.after,
       !.page = [boot |-> ring.boot, oldest |-> Oldest, next |-> ring.next,
                 records |-> <<>>]]
  /\ UNCHANGED <<ring, queue, recorder, archive, logMishaps>>

(* readAfter().                                                             *)
After(seq) == IF seq + 1 < Oldest THEN Oldest ELSE seq + 1

ReadsRecord ==
  /\ reader.pc = "read"
  /\ Len(reader.page.records) < Limit /\ After(reader.previous) < ring.next
  /\ reader' = [reader EXCEPT !.previous = After(@),
                              !.page.records = Append(@, After(reader.previous))]
  /\ UNCHANGED <<ring, queue, recorder, archive, logMishaps>>

(* Nothing is left, or the page is full: of records, or of their text.      *)
SendsPage ==
  /\ reader.pc = "read"
  /\ reader.page.records # <<>> \/ After(reader.previous) >= ring.next
  /\ reader' = [reader EXCEPT !.pc = "check", !.previous = 0]
  /\ UNCHANGED <<ring, queue, recorder, archive, logMishaps>>

RequestFails ==
  /\ reader.pc \in {"stats", "read"} /\ LogMishap
  /\ reader' = Waiting
  /\ UNCHANGED <<ring, queue, recorder, archive>>

-----------------------------------------------------------------------------
(* esp32_text().                                                            *)

(* The thread of the reader goes on.                                        *)
Alive == recorder.pc \notin {"down", "stopped"}
Reads(pc) == Alive /\ reader.pc = pc /\ reader.offer = NoEvent

(* EventQueue.put() takes nothing once stop is set.                         *)
Offer(event) == IF recorder.stop THEN NoEvent ELSE event

(* It waits for room in the queue, and gives up when stop is set meanwhile. *)
PutSucceeds ==
  /\ reader.offer # NoEvent /\ Len(queue) < QueueSize
  /\ queue' = Append(queue, reader.offer)
  /\ reader' = [reader EXCEPT !.offer = NoEvent]
  /\ UNCHANGED <<ring, recorder, archive, logMishaps>>

PutFails ==
  /\ reader.offer # NoEvent /\ recorder.stop
  /\ reader' = IF reader.offer.kind = "row" THEN EndedReader
               ELSE [reader EXCEPT !.offer = NoEvent]
  /\ UNCHANGED <<ring, queue, recorder, archive, logMishaps>>

Asks ==
  /\ Reads("ask")
  /\ reader' = IF recorder.stop THEN EndedReader ELSE [reader EXCEPT !.pc = "stats"]
  /\ UNCHANGED <<ring, queue, recorder, archive, logMishaps>>

WaitIsOver ==
  /\ Reads("wait")
  /\ reader' = [reader EXCEPT !.pc = "ask"]
  /\ UNCHANGED <<ring, queue, recorder, archive, logMishaps>>

(* A faulty variant: the boots are taken for one.                           *)
BootCursorKept == [boot |-> reader.page.boot, after |-> reader.saved.after]
(* Each boot counts its records from one.                                   *)
BootCursor == [boot |-> reader.page.boot, after |-> 0]

SeesBoot ==
  /\ Reads("check") /\ reader.page.boot # reader.saved.boot
  /\ reader' = [NewReader(BootCursor) EXCEPT
                  !.offer = Offer(EventOfKind("boot", {}, BootCursor))]
  /\ UNCHANGED <<ring, queue, recorder, archive, logMishaps>>

Missing(first, last) == {reader.page.boot} \X (first..last)
GapEvent(first, last) == Offer(EventOfKind("gap", Missing(first, last), NoCursor))

(* What was overwritten before the page was built.                          *)
ChecksPage ==
  /\ Reads("check") /\ reader.page.boot = reader.saved.boot
  /\ reader' = IF reader.page.oldest > reader.saved.after + 1
               THEN [reader EXCEPT !.pc = "record", !.previous = reader.page.oldest - 1,
                       !.offer = GapEvent(reader.saved.after + 1, reader.page.oldest - 1)]
               ELSE [reader EXCEPT !.pc = "record", !.previous = reader.saved.after]
  /\ UNCHANGED <<ring, queue, recorder, archive, logMishaps>>

HeadRecord == Head(reader.page.records)
Expects == Reads("record") /\ reader.page.records # <<>>
Valid == reader.previous < HeadRecord /\ HeadRecord < reader.page.next

(* A faulty variant: only what was missing before the page is looked for.   *)
OvertakenNever == FALSE
(* Records were overwritten while the page was built.                       *)
Overtaken == Valid /\ HeadRecord > reader.previous + 1

SeesGap ==
  /\ Expects /\ Overtaken
  /\ reader' = [reader EXCEPT !.previous = HeadRecord - 1,
                              !.offer = GapEvent(reader.previous + 1, HeadRecord - 1)]
  /\ UNCHANGED <<ring, queue, recorder, archive, logMishaps>>

RowOf(cursor) == EventOfKind("row", {<<cursor.boot, cursor.after>>}, cursor)

TakesRecord ==
  LET cursor == [boot |-> reader.page.boot, after |-> HeadRecord]
  IN /\ Expects /\ Valid /\ ~Overtaken
     /\ reader' = IF recorder.stop THEN EndedReader
                  ELSE [reader EXCEPT !.saved = cursor, !.previous = HeadRecord,
                                      !.page.records = Tail(@), !.offer = RowOf(cursor)]
     /\ UNCHANGED <<ring, queue, recorder, archive, logMishaps>>

(* A record logged after the statistics were taken fails the page.          *)
RefusesRecord ==
  /\ Expects /\ ~Valid
  /\ reader' = Waiting
  /\ UNCHANGED <<ring, queue, recorder, archive, logMishaps>>

(* More is left to read, or nothing is.                                     *)
EndsPage ==
  /\ Reads("record") /\ reader.page.records = <<>>
  /\ reader' = IF reader.previous < reader.page.next - 1 THEN NewReader(reader.saved)
               ELSE Waiting
  /\ UNCHANGED <<ring, queue, recorder, archive, logMishaps>>

-----------------------------------------------------------------------------
(* Recorder.run() and Store.write().                                        *)

IdsOf(events, kind) ==
  UNION {events[i].ids : i \in {j \in DOMAIN events : events[j].kind = kind}}

Marked(events) == {i \in DOMAIN events : events[i].cursor # NoCursor}

(* The last cursor of the batch is kept with its rows.                      *)
Stored(events) ==
  [rows |-> archive.rows \cup IdsOf(events, "row"),
   gaps |-> archive.gaps \cup IdsOf(events, "gap"),
   cursor |-> IF Marked(events) = {} THEN archive.cursor
              ELSE events[CHOOSE i \in Marked(events) : \A j \in Marked(events) : j <= i].cursor]

(* It waits for an event, and may take some after stop was set meanwhile.   *)
TakesBatch ==
  /\ recorder.pc = "run"
  /\ \E n \in 1..Len(queue) :
       /\ recorder' = [recorder EXCEPT !.pc = "write", !.batch = SubSeq(queue, 1, n)]
       /\ queue' = SubSeq(queue, n + 1, Len(queue))
  /\ UNCHANGED <<ring, reader, archive, logMishaps>>

Writes ==
  /\ recorder.pc = "write"
  /\ archive' = Stored(recorder.batch)
  /\ recorder' = [recorder EXCEPT !.pc = IF recorder.stop THEN "joining" ELSE "run",
                                  !.batch = <<>>]
  /\ UNCHANGED <<ring, reader, queue, logMishaps>>

(* SIGTERM.                                                                 *)
IsTerminated ==
  /\ Alive /\ ~recorder.stop
  /\ recorder' = [recorder EXCEPT !.stop = TRUE]
  /\ UNCHANGED <<ring, reader, queue, archive, logMishaps>>

BeginsShutdown ==
  /\ recorder.pc = "run" /\ recorder.stop
  /\ recorder' = [recorder EXCEPT !.pc = "joining"]
  /\ UNCHANGED <<ring, reader, queue, archive, logMishaps>>

Joined == reader.pc = "ended" /\ reader.offer = NoEvent

JoinsThreads ==
  /\ recorder.pc = "joining" /\ Joined
  /\ recorder' = [recorder EXCEPT !.pc = "flush"]
  /\ UNCHANGED <<ring, reader, queue, archive, logMishaps>>

Flushes ==
  /\ recorder.pc = "flush" /\ queue # <<>>
  /\ archive' = Stored(<<Head(queue)>>)
  /\ queue' = Tail(queue)
  /\ UNCHANGED <<ring, reader, recorder, logMishaps>>

Stops ==
  /\ recorder.pc = "flush" /\ queue = <<>>
  /\ recorder' = [recorder EXCEPT !.pc = "stopped"]
  /\ UNCHANGED <<ring, reader, queue, archive, logMishaps>>

(* A write fails or the process is killed: what was not committed is lost.  *)
Dies ==
  /\ Alive /\ LogMishap
  /\ recorder' = [NewRecorder EXCEPT !.pc = "down"]
  /\ queue' = <<>>
  /\ reader' = EndedReader
  /\ UNCHANGED <<ring, archive>>

StartsAgain ==
  /\ recorder' = NewRecorder
  /\ reader' = NewReader(archive.cursor)
  /\ UNCHANGED <<ring, queue, archive, logMishaps>>

ServiceRestarts == recorder.pc = "down" /\ StartsAgain
ServiceStarts == recorder.pc = "stopped" /\ StartsAgain

-----------------------------------------------------------------------------
DeviceLogSteps == TakesStats \/ ReadsRecord \/ SendsPage
ReaderSteps ==
  \/ Asks \/ WaitIsOver \/ SeesBoot \/ ChecksPage
  \/ PutSucceeds \/ PutFails \/ SeesGap \/ TakesRecord \/ RefusesRecord \/ EndsPage
WriterSteps ==
  \/ TakesBatch \/ Writes
  \/ BeginsShutdown \/ JoinsThreads \/ Flushes \/ Stops \/ ServiceRestarts

LogNext ==
  \/ Logs \/ LogDeviceReboots \/ DeviceLogSteps \/ RequestFails
  \/ ReaderSteps
  \/ WriterSteps \/ IsTerminated \/ Dies \/ ServiceStarts

(* A request is answered or fails, the threads run on, and systemd restarts *)
(* a service that failed.                                                   *)
LogFairness ==
  WF_logVars(DeviceLogSteps) /\ WF_logVars(ReaderSteps) /\ WF_logVars(WriterSteps)

LogSpec == LogInit /\ [][LogNext]_logVars /\ LogFairness
=============================================================================
